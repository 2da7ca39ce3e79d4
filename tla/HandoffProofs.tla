--------------------------- MODULE HandoffProofs ---------------------------
(***************************************************************************)
(* Proofs about Handoff, for any number of clients, processors, addresses  *)
(* and places in a pipe: the inductive invariant IInv, and from it that a  *)
(* connection has one holder, that each pipe is an exact queue and that a  *)
(* blocked pipe is registered.                                             *)
(***************************************************************************)
EXTENDS Handoff, TLAPS, SequenceTheorems, FiniteSetTheorems

-----------------------------------------------------------------------------
(***************************************************************************)
(* Sequences in three parts: a pipe, what is saved, and a queue.           *)
(***************************************************************************)
LEMMA ThreeType ==
    ASSUME NEW S, NEW p \in Seq(S), NEW s \in Seq(S), NEW q \in Seq(S)
    PROVE  p \o s \o q \in Seq(S)
BY ConcatProperties

LEMMA AppendThree ==
    ASSUME NEW S, NEW p \in Seq(S), NEW s \in Seq(S), NEW q \in Seq(S), NEW a \in S
    PROVE  p \o s \o Append(q, a) = Append(p \o s \o q, a)
<1>1. p \o s \in Seq(S) /\ <<a>> \in Seq(S) /\ p \o s \o q \in Seq(S)
  BY ConcatProperties
<1>2. Append(q, a) = q \o <<a>> /\ Append(p \o s \o q, a) = (p \o s \o q) \o <<a>>
  BY <1>1, AppendIsConcat
<1> QED
  BY <1>1, <1>2, ConcatAssociative

\* Nothing is saved, and the first of the queue becomes what is saved.
LEMMA SaveThree ==
    ASSUME NEW S, NEW p \in Seq(S), NEW q \in Seq(S), q # <<>>
    PROVE  p \o <<Head(q)>> \o Tail(q) = p \o <<>> \o q
<1>1. Head(q) \in S /\ Tail(q) \in Seq(S) /\ <<Head(q)>> \in Seq(S)
  BY HeadTailProperties
<1>2. <<Head(q)>> \o Tail(q) = q
  <2>1. Len(<<Head(q)>> \o Tail(q)) = Len(q)
    BY <1>1, ConcatProperties, HeadTailProperties, LenProperties
  <2>2. ASSUME NEW k \in 1..Len(q)
        PROVE  (<<Head(q)>> \o Tail(q))[k] = q[k]
    BY <1>1
  <2> QED
    BY <1>1, <2>1, <2>2, SeqEqual, ConcatProperties
<1> QED
  BY <1>1, <1>2, ConcatAssociative, ConcatEmptySeq

\* What is saved goes into the pipe.
LEMMA WriteThree ==
    ASSUME NEW S, NEW p \in Seq(S), NEW q \in Seq(S), NEW a \in S
    PROVE  Append(p, a) \o <<>> \o q = p \o <<a>> \o q
BY AppendIsConcat, ConcatEmptySeq, ConcatProperties

LEMMA HeadThree ==
    ASSUME NEW S, NEW p \in Seq(S), NEW s \in Seq(S), NEW q \in Seq(S), p # <<>>
    PROVE  p \o s \o q # <<>> /\ Head(p \o s \o q) = Head(p)
<1>1. Len(p) \in Nat \ {0}
  BY EmptySeq
<1>2. p \o s \o q \in Seq(S) /\ Len(p \o s \o q) = Len(p) + Len(s) + Len(q)
  BY ConcatProperties
<1> QED
  BY <1>1, <1>2

LEMMA TailThree ==
    ASSUME NEW S, NEW p \in Seq(S), NEW s \in Seq(S), NEW q \in Seq(S), p # <<>>
    PROVE  Tail(p) \o s \o q = Tail(p \o s \o q)
<1>1. Tail(p) \in Seq(S) /\ Len(Tail(p)) = Len(p) - 1 /\ Len(p) \in Nat \ {0}
  BY HeadTailProperties, EmptySeq
<1>2. /\ p \o s \o q \in Seq(S) /\ p \o s \in Seq(S) /\ Tail(p) \o s \in Seq(S)
      /\ Tail(p) \o s \o q \in Seq(S)
      /\ Len(p \o s \o q) = Len(p) + Len(s) + Len(q)
      /\ Len(Tail(p) \o s \o q) = Len(Tail(p)) + Len(s) + Len(q)
  BY <1>1, ConcatProperties
<1>3. p \o s \o q # <<>>
  BY <1>1, <1>2
<1>4. /\ Tail(p \o s \o q) \in Seq(S)
      /\ Len(Tail(p \o s \o q)) = Len(Tail(p) \o s \o q)
  BY <1>1, <1>2, <1>3, HeadTailProperties
<1>5. ASSUME NEW k \in 1..Len(Tail(p) \o s \o q)
      PROVE  (Tail(p) \o s \o q)[k] = Tail(p \o s \o q)[k]
  BY <1>1, <1>2, <1>3, <1>4
<1> QED
  BY <1>2, <1>3, <1>4, <1>5, SeqEqual

-----------------------------------------------------------------------------
(***************************************************************************)
(* Types.                                                                  *)
(***************************************************************************)
LEMMA ProcFacts ==
    /\ 0 \in Proc /\ Proc \subseteq Nat
    /\ \A i \in Proc : i + 1 # NumProc => i + 1 \in Proc
    /\ NULL \notin Conn /\ NULL \notin PairAddr
BY HandoffAssumption DEF Proc

LEMMA IndexType == \A a \in PairAddr : Index(a) \in Proc
BY HandoffAssumption DEF Index, Proc

LEMMA Initial ==
    ASSUME Idle, pipeReg \in [Proc -> {"null", "none"}]
    PROVE  IInv
<1>1. \A i \in Proc : OnTheWay(i) = <<>>
  <2> SUFFICES ASSUME NEW i \in Proc PROVE OnTheWay(i) = <<>>
    OBVIOUS
  <2>1. pipe[i] = <<>> /\ outSave[i] = NULL /\ outQ[i] = <<>>
    BY DEF Idle
  <2> QED
    BY <2>1 DEF OnTheWay
<1>2. TypeOK
  BY ProcFacts, HandoffAssumption DEF Idle, TypeOK
<1>3. Routed
  BY <1>1 DEF Routed, Idle
<1>4. \A c \in Conn : Held(c)
  BY ProcFacts DEF Held, Idle, Paired, ServedNow
<1> QED
  BY <1>2, <1>3, <1>4 DEF IInv

\* The address DoWrite works on, and the queue it leaves.
LEMMA PacketType ==
    ASSUME TypeOK, NEW i \in Proc, HasOut(i)
    PROVE  Packet(i) \in PairAddr /\ RestQ(i) \in Seq(PairAddr)
BY HeadTailProperties DEF TypeOK, HasOut, Packet, RestQ

LEMMA NextPipeType ==
    ASSUME TypeOK, NextPipe
    PROVE  mpc' \in {"wait", "events", "write"} /\ windex' \in Proc
BY ProcFacts DEF TypeOK, NextPipe

LEMMA AddType ==
    ASSUME TypeOK, NEW c \in Conn, AddInPipeQue(c)
    PROVE  /\ pairOf' \in [PairAddr -> Conn \cup {NULL}]
           /\ outQ' \in [Proc -> Seq(PairAddr)]
           /\ queued' \in [Proc -> Seq(Conn)]
<1>1. PICK a \in PairAddr :
          /\ pairOf' = [pairOf EXCEPT ![a] = c]
          /\ outQ' = [outQ EXCEPT ![Index(a)] = Append(@, a)]
          /\ queued' = [queued EXCEPT ![Index(a)] = Append(@, c)]
  BY DEF AddInPipeQue
<1>2. Index(a) \in Proc
  BY IndexType
<1> QED
  BY <1>1, <1>2, AppendProperties DEF TypeOK

\* The three parts of what is on the way to a processor.
LEMMA WayParts ==
    ASSUME IInv, NEW i \in Proc
    PROVE  \E p, s, q \in Seq(PairAddr) :
              /\ p = pipe[i] /\ q = outQ[i]
              /\ s = IF outSave[i] = NULL THEN <<>> ELSE <<outSave[i]>>
              /\ OnTheWay(i) = p \o s \o q
<1>1. /\ pipe[i] \in Seq(PairAddr) /\ outQ[i] \in Seq(PairAddr)
      /\ (IF outSave[i] = NULL THEN <<>> ELSE <<outSave[i]>>) \in Seq(PairAddr)
  BY DEF IInv, TypeOK
<1> QED
  BY <1>1 DEF OnTheWay

\* What a pipe holds is the address of an FHPair.
LEMMA HeadType ==
    ASSUME IInv, NEW i \in Proc, pipe[i] # <<>>
    PROVE  /\ Head(pipe[i]) \in PairAddr /\ Tail(pipe[i]) \in Seq(PairAddr)
           /\ Len(Tail(pipe[i])) <= PipeCap
           /\ pairOf[Head(pipe[i])] \in Conn
           /\ OnTheWay(i) # <<>> /\ Head(OnTheWay(i)) = Head(pipe[i])
           /\ OnTheWay(i) \in Seq(PairAddr)
<1>1. PICK p \in Seq(PairAddr), s \in Seq(PairAddr), q \in Seq(PairAddr) :
          p = pipe[i] /\ OnTheWay(i) = p \o s \o q
  BY WayParts
<1>2. /\ Head(p) \in PairAddr /\ Tail(p) \in Seq(PairAddr)
      /\ Len(Tail(p)) = Len(p) - 1 /\ Len(p) \in Nat /\ Len(p) <= PipeCap
  BY <1>1, HeadTailProperties, LenProperties DEF IInv, TypeOK
<1>4. OnTheWay(i) # <<>> /\ Head(OnTheWay(i)) = Head(p) /\ OnTheWay(i) \in Seq(PairAddr)
  BY <1>1, HeadThree, ThreeType
<1>5. 1 \in DOMAIN OnTheWay(i) /\ OnTheWay(i)[1] = Head(p)
  BY <1>4, EmptySeq, LenProperties
<1>6. pairOf[Head(p)] # NULL
  BY <1>5 DEF IInv, Routed
<1>7. pairOf[Head(p)] \in Conn
  BY <1>2, <1>6 DEF IInv, TypeOK
<1>8. Len(Tail(p)) <= PipeCap
  BY <1>2, HandoffAssumption
<1> QED
  BY <1>1, <1>2, <1>4, <1>7, <1>8

LEMMA AcceptType ==
    ASSUME IInv, NEW c \in Conn, Accept(c)
    PROVE  TypeOK'
<1> USE DEF Handle
<1>1. TypeOK
  BY DEF IInv
<1>2. CASE AcceptFailed(c)
  BY <1>1, <1>2 DEF AcceptFailed, TypeOK
<1>3. CASE AcceptNoSocket(c)
  BY <1>1, <1>3 DEF AcceptNoSocket, TypeOK
<1>4. CASE AcceptRefused(c)
  BY <1>1, <1>4 DEF AcceptRefused, TypeOK
<1>5. CASE AcceptConnected(c)
  BY <1>1, <1>5, AddType DEF AcceptConnected, TypeOK
<1>6. CASE AcceptConnecting(c)
  BY <1>1, <1>6 DEF AcceptConnecting, TypeOK
<1> QED
  BY <1>2, <1>3, <1>4, <1>5, <1>6 DEF Accept

LEMMA ConnectType ==
    ASSUME IInv, NEW c \in Conn, Connect(c)
    PROVE  TypeOK'
<1>1. TypeOK
  BY DEF IInv
<1>2. CASE OnConnected(c)
  BY <1>1, <1>2, AddType DEF OnConnected, Handle, Remove, TypeOK
<1>3. CASE OnConnectFailed(c)
  BY <1>1, <1>3 DEF OnConnectFailed, Handle, TypeOK
<1> QED
  BY <1>2, <1>3 DEF Connect

\* The loop itself and the writing of the pipes.
LEMMA LoopType ==
    ASSUME IInv, Wait \/ EventsDone \/ WritePtr \/ PipeFull \/ PipeDone
    PROVE  TypeOK'
<1>1. TypeOK
  BY DEF IInv
<1>2. CASE Wait
  <2>1. /\ watch' \in [Conn -> {"off", "armed", "fired"}]
        /\ pipeReg' \in [Proc -> {"null", "armed", "off", "none"}]
    BY <1>1, <1>2 DEF Wait, TypeOK
  <2>2. batch' \subseteq {ListenEvent} \cup {<<"connect", c>> : c \in Conn}
                         \cup {<<"pipe", i>> : i \in Proc}
    BY <1>2 DEF Wait, Pending
  <2> QED
    BY <1>1, <1>2, <2>1, <2>2 DEF Wait, history, TypeOK
<1>3. CASE EventsDone
  BY <1>1, <1>3, ProcFacts DEF EventsDone, queues, sockets, history, TypeOK
<1>4. CASE WritePtr
  <2>1. windex \in Proc /\ Packet(windex) \in PairAddr /\ RestQ(windex) \in Seq(PairAddr)
    BY <1>1, <1>4, PacketType DEF WritePtr, TypeOK
  <2>2. /\ Append(pipe[windex], Packet(windex)) \in Seq(PairAddr)
        /\ Len(Append(pipe[windex], Packet(windex))) <= PipeCap
    BY <1>1, <1>4, <2>1, AppendProperties, LenProperties, HandoffAssumption
       DEF WritePtr, HasRoom, TypeOK
  <2> QED
    BY <1>1, <1>4, <2>1, <2>2 DEF WritePtr, sockets, loop, history, TypeOK
<1>5. CASE PipeFull
  <2>1. windex \in Proc /\ Packet(windex) \in PairAddr /\ RestQ(windex) \in Seq(PairAddr)
    BY <1>1, <1>5, PacketType DEF PipeFull, TypeOK
  <2>2. mpc' \in {"wait", "events", "write"} /\ windex' \in Proc
    BY <1>1, <1>5, NextPipeType DEF PipeFull
  <2> QED
    BY <1>1, <1>5, <2>1, <2>2 DEF PipeFull, Modify, sockets, history, TypeOK
<1>6. CASE PipeDone
  <2>1. mpc' \in {"wait", "events", "write"} /\ windex' \in Proc
    BY <1>1, <1>6, NextPipeType DEF PipeDone
  <2> QED
    BY <1>1, <1>6, <2>1 DEF PipeDone, sockets, queues, history, TypeOK
<1> QED
  BY <1>2, <1>3, <1>4, <1>5, <1>6

LEMMA AdoptType ==
    ASSUME IInv, NEW i \in Proc, Adopt(i)
    PROVE  TypeOK'
<1>1. TypeOK
  BY DEF IInv
<1>2. pipe[i] # <<>>
  BY DEF Adopt, Take, TakeFailed
<1> DEFINE a == Head(pipe[i])
<1>3. /\ a \in PairAddr /\ Tail(pipe[i]) \in Seq(PairAddr)
      /\ Len(Tail(pipe[i])) <= PipeCap /\ pairOf[a] \in Conn
  BY <1>2, HeadType
<1>4. Append(taken[i], pairOf[a]) \in Seq(Conn)
  BY <1>1, <1>3, AppendProperties DEF TypeOK
<1>5. CASE Take(i)
  BY <1>1, <1>3, <1>4, <1>5 DEF Take, sockets, loop, TypeOK
<1>6. CASE TakeFailed(i)
  BY <1>1, <1>3, <1>4, <1>6 DEF TakeFailed, loop, TypeOK
<1> QED
  BY <1>5, <1>6 DEF Adopt

LEMMA TypeStep ==
    ASSUME IInv, [Next]_vars
    PROVE  TypeOK'
<1>1. TypeOK
  BY DEF IInv
<1>2. CASE Main
  <2>1. ASSUME NEW i \in Proc, OnPipe(i) PROVE TypeOK'
    BY <1>1, <2>1 DEF OnPipe, Handle, sockets, TypeOK
  <2> QED
    BY <1>2, <2>1, LoopType, AcceptType, ConnectType DEF Main
<1>3. ASSUME NEW i \in Proc, NEW c \in Conn, Retire(i, c)
      PROVE  TypeOK'
  <2>1. owned' \in [Proc -> SUBSET Conn]
    BY <1>1, <1>3 DEF Retire, Disown, TypeOK
  <2> QED
    BY <1>1, <1>3, <2>1 DEF Retire, queues, loop, history, TypeOK
<1>4. ASSUME NEW c \in Conn, Arrive(c) \/ Answer(c)
      PROVE  TypeOK'
  <2>1. CASE Arrive(c)
    BY <1>1, <2>1 DEF Arrive, queues, loop, history, TypeOK
  <2>2. CASE Answer(c)
    BY <1>1, <2>2 DEF Answer, queues, loop, history, TypeOK
  <2> QED
    BY <1>4, <2>1, <2>2
<1>5. CASE UNCHANGED vars
  BY <1>1, <1>5 DEF vars, sockets, queues, loop, history, TypeOK
<1> QED
  BY <1>2, <1>3, <1>4, <1>5, AdoptType DEF Next

-----------------------------------------------------------------------------
(***************************************************************************)
(* What a step does to the addresses on their way: nothing, or it adds one *)
(* at the end, or it takes the first.                                      *)
(***************************************************************************)
Kept ==
    /\ UNCHANGED <<pairOf, queued, taken>>
    /\ \A i \in Proc : OnTheWay(i)' = OnTheWay(i)

Added(c, a) ==
    /\ pairOf[a] = NULL
    /\ pairOf' = [pairOf EXCEPT ![a] = c]
    /\ queued' = [queued EXCEPT ![Index(a)] = Append(@, c)]
    /\ taken' = taken
    /\ \A i \in Proc :
          OnTheWay(i)' = IF i = Index(a) THEN Append(OnTheWay(i), a) ELSE OnTheWay(i)

TakenOff(j) ==
    /\ OnTheWay(j) # <<>>
    /\ pairOf' = [pairOf EXCEPT ![Head(OnTheWay(j))] = NULL]
    /\ queued' = queued
    /\ taken' = [taken EXCEPT ![j] = Append(@, pairOf[Head(OnTheWay(j))])]
    /\ \A i \in Proc :
          OnTheWay(i)' = IF i = j THEN Tail(OnTheWay(i)) ELSE OnTheWay(i)

LEMMA WayType ==
    ASSUME IInv, NEW i \in Proc
    PROVE  OnTheWay(i) \in Seq(PairAddr)
<1>1. PICK p, s, q \in Seq(PairAddr) : OnTheWay(i) = p \o s \o q
  BY WayParts
<1> QED
  BY <1>1, ThreeType

LEMMA WayElements ==
    ASSUME IInv
    PROVE  \A i \in Proc : \A k \in DOMAIN OnTheWay(i) : OnTheWay(i)[k] \in PairAddr
<1> SUFFICES ASSUME NEW i \in Proc, NEW k \in DOMAIN OnTheWay(i)
             PROVE  OnTheWay(i)[k] \in PairAddr
  OBVIOUS
<1>1. OnTheWay(i) \in Seq(PairAddr)
  BY WayType
<1> QED
  BY <1>1, ElementOfSeq, LenProperties

LEMMA TailWay ==
    ASSUME NEW p \in Seq(PairAddr), NEW s \in Seq(PairAddr), NEW q \in Seq(PairAddr),
           p # <<>>
    PROVE  Tail(p) \o s \o q = Tail(p \o s \o q)
BY TailThree

LEMMA SaveWay ==
    ASSUME NEW p \in Seq(PairAddr), NEW q \in Seq(PairAddr), q # <<>>
    PROVE  p \o <<Head(q)>> \o Tail(q) = p \o <<>> \o q
BY SaveThree

LEMMA WriteWay ==
    ASSUME NEW p \in Seq(PairAddr), NEW q \in Seq(PairAddr), NEW a \in PairAddr
    PROVE  Append(p, a) \o <<>> \o q = p \o <<a>> \o q
BY WriteThree

LEMMA WriteSaved ==
    ASSUME NEW p \in Seq(PairAddr), NEW q \in Seq(PairAddr), q # <<>>
    PROVE  Append(p, Head(q)) \o <<>> \o Tail(q) = p \o <<>> \o q
BY SaveWay, WriteThree, HeadTailProperties

LEMMA KeptIfUnchanged ==
    ASSUME UNCHANGED <<pairOf, outQ, outSave, pipe, queued, taken>>
    PROVE  Kept
BY DEF Kept, OnTheWay

LEMMA AddStep ==
    ASSUME IInv, NEW c \in Conn, AddInPipeQue(c), UNCHANGED <<outSave, pipe, taken>>
    PROVE  \E a \in PairAddr : Added(c, a)
<1>1. PICK a \in PairAddr :
          /\ pairOf[a] = NULL
          /\ pairOf' = [pairOf EXCEPT ![a] = c]
          /\ outQ' = [outQ EXCEPT ![Index(a)] = Append(@, a)]
          /\ queued' = [queued EXCEPT ![Index(a)] = Append(@, c)]
  BY DEF AddInPipeQue
<1>2. ASSUME NEW i \in Proc
      PROVE  OnTheWay(i)' = IF i = Index(a) THEN Append(OnTheWay(i), a) ELSE OnTheWay(i)
  <2>1. PICK p, s, q \in Seq(PairAddr) :
            /\ p = pipe[i] /\ q = outQ[i]
            /\ s = IF outSave[i] = NULL THEN <<>> ELSE <<outSave[i]>>
            /\ OnTheWay(i) = p \o s \o q
    BY WayParts
  <2>2. OnTheWay(i)' = p \o s \o outQ'[i]
    BY <2>1 DEF OnTheWay
  <2>3. outQ \in [Proc -> Seq(PairAddr)]
    BY DEF IInv, TypeOK
  <2>4. CASE i = Index(a)
    <3>1. outQ'[i] = Append(q, a)
      BY <1>1, <2>1, <2>3, <2>4
    <3>2. p \o s \o Append(q, a) = Append(p \o s \o q, a)
      BY AppendThree
    <3> QED
      BY <2>1, <2>2, <2>4, <3>1, <3>2
  <2>5. CASE i # Index(a)
    <3>1. outQ'[i] = q
      BY <1>1, <2>1, <2>3, <2>5
    <3> QED
      BY <2>1, <2>2, <2>5, <3>1
  <2> QED
    BY <2>4, <2>5
<1>3. Added(c, a)
  BY <1>1, <1>2 DEF Added
<1> QED
  BY <1>3

LEMMA AdoptStep ==
    ASSUME IInv, NEW j \in Proc, Adopt(j)
    PROVE  TakenOff(j)
<1>1. /\ pipe[j] # <<>>
      /\ pipe' = [pipe EXCEPT ![j] = Tail(@)]
      /\ pairOf' = [pairOf EXCEPT ![Head(pipe[j])] = NULL]
      /\ taken' = [taken EXCEPT ![j] = Append(@, pairOf[Head(pipe[j])])]
      /\ UNCHANGED <<outQ, outSave, queued>>
  BY DEF Adopt, Take, TakeFailed
<1>2. OnTheWay(j) # <<>> /\ Head(OnTheWay(j)) = Head(pipe[j])
  BY <1>1, HeadType
<1>3. ASSUME NEW i \in Proc
      PROVE  OnTheWay(i)' = IF i = j THEN Tail(OnTheWay(i)) ELSE OnTheWay(i)
  <2>1. PICK p, s, q \in Seq(PairAddr) :
            /\ p = pipe[i] /\ q = outQ[i]
            /\ s = IF outSave[i] = NULL THEN <<>> ELSE <<outSave[i]>>
            /\ OnTheWay(i) = p \o s \o q
    BY WayParts
  <2>2. OnTheWay(i)' = pipe'[i] \o s \o q
    BY <1>1, <2>1 DEF OnTheWay
  <2>3. pipe \in [Proc -> Seq(PairAddr)]
    BY DEF IInv, TypeOK
  <2>4. CASE i = j
    <3>1. pipe'[i] = Tail(p)
      BY <1>1, <2>1, <2>3, <2>4
    <3>2. p # <<>>
      BY <1>1, <2>1, <2>4
    <3>3. Tail(p) \o s \o q = Tail(p \o s \o q)
      BY <3>2, TailWay
    <3> QED
      BY <2>1, <2>2, <2>4, <3>1, <3>3
  <2>5. CASE i # j
    <3>1. pipe'[i] = p
      BY <1>1, <2>1, <2>3, <2>5
    <3> QED
      BY <2>1, <2>2, <2>5, <3>1
  <2> QED
    BY <2>4, <2>5
<1> QED
  BY <1>1, <1>2, <1>3 DEF TakenOff

LEMMA WriteStep ==
    ASSUME IInv, WritePtr \/ PipeFull
    PROVE  Kept
<1>1. windex \in Proc
  BY DEF IInv, TypeOK
<1>2. ASSUME NEW i \in Proc
      PROVE  OnTheWay(i)' = OnTheWay(i)
  <2>1. PICK p, s, q \in Seq(PairAddr) :
            /\ p = pipe[i] /\ q = outQ[i]
            /\ s = IF outSave[i] = NULL THEN <<>> ELSE <<outSave[i]>>
            /\ OnTheWay(i) = p \o s \o q
    BY WayParts
  <2>2. /\ pipe \in [Proc -> Seq(PairAddr)] /\ outQ \in [Proc -> Seq(PairAddr)]
        /\ outSave \in [Proc -> PairAddr \cup {NULL}] /\ NULL \notin PairAddr
    BY ProcFacts DEF IInv, TypeOK
  <2>3. CASE i # windex
    BY <1>1, <2>2, <2>3 DEF WritePtr, PipeFull, OnTheWay
  <2>4. CASE i = windex /\ WritePtr /\ outSave[i] # NULL
    <3>1. /\ pipe'[i] = Append(p, outSave[i]) /\ outSave'[i] = NULL /\ outQ'[i] = q
          /\ s = <<outSave[i]>> /\ outSave[i] \in PairAddr
      BY <1>1, <2>1, <2>2, <2>4 DEF WritePtr, Packet, RestQ
    <3>2. Append(p, outSave[i]) \o <<>> \o q = p \o <<outSave[i]>> \o q
      BY <3>1, WriteWay
    <3> QED
      BY <2>1, <3>1, <3>2 DEF OnTheWay
  <2>5. CASE i = windex /\ WritePtr /\ outSave[i] = NULL
    <3>1. /\ pipe'[i] = Append(p, Head(q)) /\ outSave'[i] = NULL /\ outQ'[i] = Tail(q)
          /\ s = <<>> /\ q # <<>>
      BY <1>1, <2>1, <2>2, <2>5 DEF WritePtr, Packet, RestQ, HasOut
    <3>2. Append(p, Head(q)) \o <<>> \o Tail(q) = p \o <<>> \o q
      BY <3>1, WriteSaved
    <3> QED
      BY <2>1, <3>1, <3>2 DEF OnTheWay
  <2>6. CASE i = windex /\ PipeFull /\ outSave[i] # NULL
    BY <1>1, <2>1, <2>2, <2>6 DEF PipeFull, Packet, RestQ, OnTheWay
  <2>7. CASE i = windex /\ PipeFull /\ outSave[i] = NULL
    <3>1. /\ pipe'[i] = p /\ outSave'[i] = Head(q) /\ outQ'[i] = Tail(q)
          /\ s = <<>> /\ q # <<>>
      BY <1>1, <2>1, <2>2, <2>7 DEF PipeFull, Packet, RestQ, HasOut
    <3>2. Head(q) \in PairAddr
      BY <3>1, HeadTailProperties
    <3>3. p \o <<Head(q)>> \o Tail(q) = p \o <<>> \o q
      BY <3>1, SaveWay
    <3> QED
      BY <2>1, <2>2, <3>1, <3>2, <3>3 DEF OnTheWay
  <2> QED
    BY <2>3, <2>4, <2>5, <2>6, <2>7
<1> QED
  BY <1>2 DEF WritePtr, PipeFull, history, Kept

LEMMA WayStep ==
    ASSUME IInv, [Next]_vars
    PROVE  \/ Kept
           \/ \E c \in Conn, a \in PairAddr : Added(c, a)
           \/ \E i \in Proc : TakenOff(i)
<1>1. CASE \E c \in Conn : AcceptConnected(c) \/ OnConnected(c)
  BY <1>1, AddStep DEF AcceptConnected, OnConnected, Handle
<1>2. CASE \E i \in Proc : Adopt(i)
  BY <1>2, AdoptStep
<1>3. CASE WritePtr \/ PipeFull
  BY <1>3, WriteStep
<1>4. ASSUME NEW c \in Conn,
             AcceptFailed(c) \/ AcceptNoSocket(c) \/ AcceptRefused(c)
               \/ AcceptConnecting(c) \/ OnConnectFailed(c)
      PROVE  Kept
  BY <1>4, KeptIfUnchanged
     DEF AcceptFailed, AcceptNoSocket, AcceptRefused, AcceptConnecting,
         OnConnectFailed, Handle
<1>5. CASE Wait \/ EventsDone \/ PipeDone
  BY <1>5, KeptIfUnchanged DEF Wait, EventsDone, PipeDone, queues, history
<1>6. ASSUME NEW i \in Proc, OnPipe(i)
      PROVE  Kept
  BY <1>6, KeptIfUnchanged DEF OnPipe, Handle
<1>7. ASSUME NEW i \in Proc, NEW c \in Conn, Retire(i, c)
      PROVE  Kept
  BY <1>7, KeptIfUnchanged DEF Retire, queues, history
<1>8. ASSUME NEW c \in Conn, Arrive(c) \/ Answer(c)
      PROVE  Kept
  BY <1>8, KeptIfUnchanged DEF Arrive, Answer, queues, history
<1>9. CASE UNCHANGED vars
  BY <1>9, KeptIfUnchanged DEF vars, queues, history
<1> QED
  BY <1>1, <1>2, <1>3, <1>4, <1>5, <1>6, <1>7, <1>8, <1>9
     DEF Next, Main, Accept, Connect

-----------------------------------------------------------------------------
(***************************************************************************)
(* Every address on the way is there once, and is an FHPair's.             *)
(***************************************************************************)
LEMMA AppendElements ==
    ASSUME NEW w \in Seq(PairAddr), NEW a \in PairAddr
    PROVE  /\ Append(w, a) \in Seq(PairAddr)
           /\ DOMAIN w = 1..Len(w) /\ Len(w) \in Nat
           /\ DOMAIN Append(w, a) = 1..Len(w)+1
           /\ \A k \in 1..Len(w) : Append(w, a)[k] = w[k]
           /\ Append(w, a)[Len(w)+1] = a
BY AppendProperties, LenProperties

LEMMA TailElements ==
    ASSUME NEW w \in Seq(PairAddr), w # <<>>
    PROVE  /\ Tail(w) \in Seq(PairAddr)
           /\ DOMAIN w = 1..Len(w) /\ Len(w) \in Nat /\ 1 \in DOMAIN w
           /\ DOMAIN Tail(w) = 1..Len(w)-1
           /\ \A k \in 1..Len(w)-1 : Tail(w)[k] = w[k+1]
           /\ Head(w) = w[1] /\ Head(w) \in PairAddr
<1>1. Len(w) \in Nat \ {0} /\ DOMAIN w = 1..Len(w)
  BY EmptySeq, LenProperties
<1>2. /\ Tail(w) \in Seq(PairAddr) /\ Len(Tail(w)) = Len(w) - 1 /\ Head(w) \in PairAddr
      /\ \A k \in 1..Len(Tail(w)) : Tail(w)[k] = w[k+1]
  BY HeadTailProperties
<1>3. DOMAIN Tail(w) = 1..Len(Tail(w))
  BY <1>2, LenProperties
<1> QED
  BY <1>1, <1>2, <1>3

LEMMA AddedRouted ==
    ASSUME IInv, NEW c \in Conn, NEW a \in PairAddr, Added(c, a)
    PROVE  Routed'
<1> DEFINE w == OnTheWay(Index(a))
<1>1. /\ w \in Seq(PairAddr) /\ Index(a) \in Proc
      /\ pairOf \in [PairAddr -> Conn \cup {NULL}] /\ NULL \notin Conn
  BY IndexType, WayType, ProcFacts DEF IInv, TypeOK
<1>2. /\ DOMAIN w = 1..Len(w) /\ Len(w) \in Nat
      /\ DOMAIN Append(w, a) = 1..Len(w)+1
      /\ \A k \in 1..Len(w) : Append(w, a)[k] = w[k]
      /\ Append(w, a)[Len(w)+1] = a
  BY <1>1, AppendElements
<1>3. /\ OnTheWay(Index(a))' = Append(w, a)
      /\ \A i \in Proc : i # Index(a) => OnTheWay(i)' = OnTheWay(i)
      /\ pairOf[a] = NULL /\ pairOf' = [pairOf EXCEPT ![a] = c]
  BY <1>1 DEF Added
<1>4. Routed
  BY DEF IInv
<1>5. \A i \in Proc : \A k \in DOMAIN OnTheWay(i) : OnTheWay(i)[k] \in PairAddr \ {a}
  <2>1. \A i \in Proc : \A k \in DOMAIN OnTheWay(i) : OnTheWay(i)[k] \in PairAddr
    BY WayElements
  <2> QED
    BY <1>3, <1>4, <2>1 DEF Routed
<1>6. ASSUME NEW i \in Proc, NEW k \in DOMAIN OnTheWay(i)'
      PROVE  pairOf'[OnTheWay(i)'[k]] # NULL /\ Index(OnTheWay(i)'[k]) = i
  <2>1. CASE i # Index(a)
    BY <1>1, <1>3, <1>4, <1>5, <2>1 DEF Routed
  <2>2. CASE i = Index(a) /\ k = Len(w) + 1
    BY <1>1, <1>2, <1>3, <2>2
  <2>3. CASE i = Index(a) /\ k # Len(w) + 1
    <3>1. k \in DOMAIN w /\ OnTheWay(i)'[k] = OnTheWay(i)[k]
      BY <1>2, <1>3, <2>3
    <3> QED
      BY <1>1, <1>3, <1>4, <1>5, <2>3, <3>1 DEF Routed
  <2> QED
    BY <2>1, <2>2, <2>3
<1>7. ASSUME NEW i \in Proc, NEW j \in DOMAIN OnTheWay(i)', NEW k \in DOMAIN OnTheWay(i)',
             OnTheWay(i)'[j] = OnTheWay(i)'[k]
      PROVE  j = k
  <2>1. CASE i # Index(a)
    BY <1>3, <1>4, <1>7, <2>1 DEF Routed
  <2>2. CASE i = Index(a)
    <3>1. /\ OnTheWay(i) = w /\ OnTheWay(i)' = Append(w, a)
          /\ \A l \in DOMAIN w : w[l] # a
          /\ \A l, m \in DOMAIN w : w[l] = w[m] => l = m
      BY <1>1, <1>3, <1>4, <1>5, <2>2 DEF Routed
    <3> HIDE DEF w
    <3> QED
      BY <1>2, <1>7, <3>1
  <2> QED
    BY <2>1, <2>2
<1>8. ASSUME NEW b \in PairAddr, pairOf'[b] # NULL
      PROVE  \E k \in DOMAIN OnTheWay(Index(b))' : OnTheWay(Index(b))'[k] = b
  <2>1. CASE b = a
    BY <1>2, <1>3, <2>1
  <2>2. CASE b # a
    <3>1. PICK k \in DOMAIN OnTheWay(Index(b)) : OnTheWay(Index(b))[k] = b
      BY <1>1, <1>3, <1>4, <1>8, <2>2 DEF Routed
    <3>2. CASE Index(b) # Index(a)
      BY <1>3, <3>1, <3>2, IndexType
    <3>3. CASE Index(b) = Index(a)
      BY <1>2, <1>3, <3>1, <3>3
    <3> QED
      BY <3>2, <3>3
  <2> QED
    BY <2>1, <2>2
<1> QED
  BY <1>6, <1>7, <1>8 DEF Routed

LEMMA TakenRouted ==
    ASSUME IInv, NEW j \in Proc, TakenOff(j)
    PROVE  Routed'
<1> DEFINE w == OnTheWay(j)
           a == Head(OnTheWay(j))
<1>1. /\ w \in Seq(PairAddr) /\ w # <<>>
      /\ pairOf \in [PairAddr -> Conn \cup {NULL}]
  BY WayType DEF IInv, TypeOK, TakenOff
<1>2. /\ DOMAIN w = 1..Len(w) /\ Len(w) \in Nat /\ 1 \in DOMAIN w
      /\ DOMAIN Tail(w) = 1..Len(w)-1
      /\ \A k \in 1..Len(w)-1 : Tail(w)[k] = w[k+1]
      /\ a = w[1] /\ a \in PairAddr
  BY <1>1, TailElements
<1>3. /\ OnTheWay(j)' = Tail(w)
      /\ \A i \in Proc : i # j => OnTheWay(i)' = OnTheWay(i)
      /\ pairOf' = [pairOf EXCEPT ![a] = NULL]
  BY DEF TakenOff
<1>4. Routed
  BY DEF IInv
<1>5. \A i \in Proc : \A k \in DOMAIN OnTheWay(i) : OnTheWay(i)[k] \in PairAddr
  BY WayElements
<1>6. Index(a) = j
  BY <1>2, <1>4 DEF Routed
<1>7. ASSUME NEW i \in Proc, NEW k \in DOMAIN OnTheWay(i)'
      PROVE  \E l \in DOMAIN OnTheWay(i) :
                /\ OnTheWay(i)'[k] = OnTheWay(i)[l] /\ OnTheWay(i)[l] # a
                /\ l = IF i = j THEN k + 1 ELSE k
  <2>1. CASE i # j
    BY <1>3, <1>4, <1>6, <2>1 DEF Routed
  <2>2. CASE i = j
    <3>1. k \in 1..Len(w)-1 /\ OnTheWay(i)'[k] = w[k+1] /\ k + 1 \in DOMAIN w
      BY <1>2, <1>3, <2>2
    <3>2. w[k+1] # w[1]
      BY <1>2, <1>4, <2>2, <3>1 DEF Routed
    <3> QED
      BY <1>2, <2>2, <3>1, <3>2
  <2> QED
    BY <2>1, <2>2
<1>8. ASSUME NEW i \in Proc, NEW k \in DOMAIN OnTheWay(i)'
      PROVE  pairOf'[OnTheWay(i)'[k]] # NULL /\ Index(OnTheWay(i)'[k]) = i
  BY <1>1, <1>2, <1>3, <1>4, <1>5, <1>7 DEF Routed
<1>9. ASSUME NEW i \in Proc, NEW l \in DOMAIN OnTheWay(i)', NEW k \in DOMAIN OnTheWay(i)',
             OnTheWay(i)'[l] = OnTheWay(i)'[k]
      PROVE  l = k
  <2>1. (i = j => l + 1 = k + 1) /\ (i # j => l = k)
    BY <1>4, <1>7, <1>9 DEF Routed
  <2>2. i = j => l \in Nat /\ k \in Nat
    BY <1>2, <1>3
  <2> QED
    BY <2>1, <2>2
<1>10. ASSUME NEW b \in PairAddr, pairOf'[b] # NULL
       PROVE  \E k \in DOMAIN OnTheWay(Index(b))' : OnTheWay(Index(b))'[k] = b
  <2>1. b # a /\ pairOf[b] # NULL
    BY <1>1, <1>2, <1>3, <1>10
  <2>2. PICK k \in DOMAIN OnTheWay(Index(b)) : OnTheWay(Index(b))[k] = b
    BY <1>4, <2>1 DEF Routed
  <2>3. CASE Index(b) # j
    BY <1>3, <2>2, <2>3, IndexType
  <2>4. CASE Index(b) = j
    <3>1. k \in 1..Len(w) /\ k # 1
      BY <1>2, <2>1, <2>2, <2>4
    <3>2. k - 1 \in 1..Len(w)-1 /\ Tail(w)[k-1] = w[k]
      BY <1>2, <3>1
    <3> QED
      BY <1>2, <1>3, <2>2, <2>4, <3>2
  <2> QED
    BY <2>3, <2>4
<1> QED
  BY <1>8, <1>9, <1>10 DEF Routed

LEMMA RoutedStep ==
    ASSUME IInv, [Next]_vars
    PROVE  Routed'
<1>1. CASE Kept
  <2>1. \A a \in PairAddr : OnTheWay(Index(a))' = OnTheWay(Index(a))
    BY <1>1, IndexType DEF Kept
  <2> QED
    BY <1>1, <2>1 DEF Kept, Routed, IInv
<1> QED
  BY <1>1, WayStep, AddedRouted, TakenRouted

-----------------------------------------------------------------------------
(***************************************************************************)
(* Who has a connection.                                                   *)
(***************************************************************************)
Untouched(d) ==
    /\ client'[d] = client[d] /\ broker'[d] = broker[d]
    /\ \/ watch'[d] = watch[d]
       \/ watch'[d] = "fired" /\ watch[d] = "armed"
    /\ \A a \in PairAddr : pairOf'[a] = d <=> pairOf[a] = d
    /\ \A i \in Proc : d \in owned'[i] <=> d \in owned[i]
    /\ <<"connect", d>> \in batch' => <<"connect", d>> \in batch \/ watch'[d] = "fired"

LEMMA HeldUntouched ==
    ASSUME NEW d \in Conn, Held(d), Untouched(d)
    PROVE  Held(d)'
<1>1. (Paired(d)' <=> Paired(d)) /\ (ServedNow(d)' <=> ServedNow(d))
  BY DEF Untouched, Paired, ServedNow
<1>2. watch'[d] # "off" <=> watch[d] # "off"
  BY DEF Untouched
<1> QED
  BY <1>1, <1>2 DEF Held, Untouched

\* The events of different connections are different.
LEMMA EventFacts ==
    /\ \A c, d \in Conn : <<"connect", c>> = <<"connect", d>> => c = d
    /\ \A c \in Conn : <<"connect", c>> # ListenEvent
    /\ \A c \in Conn, i \in Proc : <<"connect", c>> # <<"pipe", i>>
BY DEF ListenEvent

\* A new FHPair is the only one of its connection.
LEMMA AddPairs ==
    ASSUME TypeOK, NEW c \in Conn, AddInPipeQue(c), ~Paired(c)
    PROVE  /\ Paired(c)'
           /\ \A a, b \in PairAddr : pairOf'[a] = c /\ pairOf'[b] = c => a = b
           /\ \A d \in Conn \ {c} : \A a \in PairAddr : pairOf'[a] = d <=> pairOf[a] = d
<1>1. PICK a \in PairAddr : pairOf[a] = NULL /\ pairOf' = [pairOf EXCEPT ![a] = c]
  BY DEF AddInPipeQue
<1>2. pairOf \in [PairAddr -> Conn \cup {NULL}] /\ NULL \notin Conn
  BY ProcFacts DEF TypeOK
<1> QED
  BY <1>1, <1>2 DEF Paired

LEMMA AcceptHeld ==
    ASSUME IInv, NEW c \in Conn, Accept(c), NEW d \in Conn
    PROVE  Held(d)' /\ (d # c => Untouched(d))
<1>1. /\ client[c] = "backlog" /\ TypeOK /\ Held(c) /\ Held(d)
      /\ UNCHANGED owned
      /\ batch' \subseteq batch
  BY DEF IInv, Accept, AcceptFailed, AcceptNoSocket, AcceptRefused, AcceptConnected,
         AcceptConnecting, Handle
<1>2. /\ broker[c] # "open" /\ watch[c] = "off" /\ ~Paired(c) /\ ~ServedNow(c)
      /\ <<"connect", c>> \notin batch
  BY <1>1 DEF Held
<1>3. CASE AcceptFailed(c) \/ AcceptNoSocket(c) \/ AcceptRefused(c)
  <2>1. /\ client' \in [Conn -> {"none", "backlog", "open", "closed"}]
        /\ client'[c] # "open" /\ broker'[c] # "open"
        /\ UNCHANGED <<watch, pairOf>>
        /\ \A x \in Conn \ {c} : client'[x] = client[x] /\ broker'[x] = broker[x]
    <3>1. CASE AcceptFailed(c)
      BY <1>1, <1>2, <3>1 DEF TypeOK, AcceptFailed
    <3>2. CASE AcceptNoSocket(c)
      BY <1>1, <1>2, <3>2 DEF TypeOK, AcceptNoSocket
    <3>3. CASE AcceptRefused(c)
      BY <1>1, <1>2, <3>3 DEF TypeOK, AcceptRefused
    <3> QED
      BY <1>3, <3>1, <3>2, <3>3
  <2>2. CASE d = c
    BY <1>1, <1>2, <2>1, <2>2 DEF Held, Paired, ServedNow
  <2>3. CASE d # c
    <3>1. Untouched(d)
      BY <1>1, <2>1, <2>3 DEF Untouched
    <3> QED
      BY <1>1, <3>1, HeldUntouched
  <2> QED
    BY <2>2, <2>3
<1>4. CASE AcceptConnected(c)
  <2>1. /\ client' = [client EXCEPT ![c] = "open"] /\ broker' = [broker EXCEPT ![c] = "open"]
        /\ watch' = watch /\ AddInPipeQue(c)
    BY <1>4 DEF AcceptConnected
  <2>2. client'[c] = "open" /\ broker'[c] = "open"
    BY <1>1, <2>1 DEF TypeOK
  <2>3. CASE d = c
    <3>1. ~ServedNow(c)'
      BY <1>1, <1>2 DEF ServedNow
    <3> QED
      BY <1>1, <1>2, <2>1, <2>2, <2>3, <3>1, AddPairs DEF Held, ServedNow
  <2>4. CASE d # c
    <3>1. Untouched(d)
      BY <1>1, <1>2, <2>1, <2>4, AddPairs DEF Untouched, TypeOK
    <3> QED
      BY <1>1, <3>1, HeldUntouched
  <2> QED
    BY <2>3, <2>4
<1>5. CASE AcceptConnecting(c)
  <2>1. /\ client' = [client EXCEPT ![c] = "open"] /\ broker' = [broker EXCEPT ![c] = "open"]
        /\ pairOf' = pairOf
    BY <1>5 DEF AcceptConnecting
  <2>2. PICK w \in {"armed", "off"} :
            watch' = [watch EXCEPT ![c] = w] /\ (w = "off" => "add" \in Fault)
    BY <1>5 DEF AcceptConnecting
  <2>3. CASE d = c
    <3>1. ~Paired(c)' /\ ~ServedNow(c)'
      BY <1>1, <1>2, <2>1 DEF Paired, ServedNow
    <3>2. client'[c] = "open" /\ broker'[c] = "open" /\ watch'[c] = w
      BY <1>1, <2>1, <2>2 DEF TypeOK
    <3> QED
      BY <1>1, <1>2, <2>2, <2>3, <3>1, <3>2 DEF Held, Paired, ServedNow
  <2>4. CASE d # c
    <3>1. Untouched(d)
      BY <1>1, <2>1, <2>2, <2>4 DEF Untouched, TypeOK
    <3> QED
      BY <1>1, <3>1, HeldUntouched
  <2> QED
    BY <2>3, <2>4
<1> QED
  BY <1>3, <1>4, <1>5 DEF Accept

LEMMA ConnectHeld ==
    ASSUME IInv, NEW c \in Conn, Connect(c), NEW d \in Conn
    PROVE  Held(d)' /\ (d # c => Untouched(d))
<1>1. /\ TypeOK /\ Held(c) /\ Held(d)
      /\ UNCHANGED owned
      /\ <<"connect", c>> \in batch /\ batch' = batch \ {<<"connect", c>>}
      /\ watch' = [watch EXCEPT ![c] = "off"]
  BY DEF IInv, Connect, OnConnected, OnConnectFailed, Handle, Remove
<1>2. /\ watch[c] = "fired" /\ client[c] = "open" /\ broker[c] = "open"
      /\ ~Paired(c) /\ ~ServedNow(c) /\ watch'[c] = "off"
  BY <1>1 DEF Held, TypeOK
<1>3. ~ServedNow(c)'
  BY <1>1, <1>2 DEF ServedNow
<1>4. CASE OnConnected(c)
  <2>1. UNCHANGED <<client, broker>> /\ AddInPipeQue(c)
    BY <1>4 DEF OnConnected
  <2>2. CASE d = c
    BY <1>1, <1>2, <1>3, <2>1, <2>2, AddPairs DEF Held, ServedNow
  <2>3. CASE d # c
    <3>1. Untouched(d)
      BY <1>1, <1>2, <2>1, <2>3, AddPairs DEF Untouched, TypeOK
    <3> QED
      BY <1>1, <3>1, HeldUntouched
  <2> QED
    BY <2>2, <2>3
<1>5. CASE OnConnectFailed(c)
  <2>1. /\ client' = [client EXCEPT ![c] = "closed"]
        /\ broker' = [broker EXCEPT ![c] = "closed"] /\ pairOf' = pairOf
    BY <1>5 DEF OnConnectFailed
  <2>2. client'[c] = "closed" /\ broker'[c] = "closed"
    BY <1>1, <2>1 DEF TypeOK
  <2>3. CASE d = c
    BY <1>1, <1>2, <1>3, <2>1, <2>2, <2>3 DEF Held, Paired, ServedNow
  <2>4. CASE d # c
    <3>1. Untouched(d)
      BY <1>1, <2>1, <2>4 DEF Untouched, TypeOK
    <3> QED
      BY <1>1, <3>1, HeldUntouched
  <2> QED
    BY <2>3, <2>4
<1> QED
  BY <1>4, <1>5 DEF Connect

LEMMA AdoptHeld ==
    ASSUME IInv, NEW i \in Proc, Adopt(i), NEW d \in Conn
    PROVE  Held(d)' /\ (d # pairOf[Head(pipe[i])] => Untouched(d))
<1>1. pipe[i] # <<>> /\ UNCHANGED <<watch, batch>>
  BY DEF Adopt, Take, TakeFailed, sockets, loop
<1>2. PICK a \in PairAddr, c \in Conn :
          /\ a = Head(pipe[i]) /\ c = pairOf[a]
          /\ pairOf' = [pairOf EXCEPT ![a] = NULL]
  BY <1>1, HeadType DEF Adopt, Take, TakeFailed
<1>3. TypeOK /\ Held(c) /\ Held(d) /\ Paired(c)
  BY <1>2 DEF IInv, Paired
<1>4. /\ client[c] = "open" /\ broker[c] = "open" /\ watch[c] = "off" /\ ~ServedNow(c)
      /\ <<"connect", c>> \notin batch
      /\ \A b \in PairAddr : pairOf[b] = c => b = a
  BY <1>2, <1>3 DEF Held
<1>5. /\ ~Paired(c)'
      /\ \A x \in Conn \ {c} : \A b \in PairAddr : pairOf'[b] = x <=> pairOf[b] = x
  BY <1>1, <1>2, <1>3, <1>4, ProcFacts DEF TypeOK, Paired
<1>6. CASE Take(i)
  <2>1. UNCHANGED <<client, broker>> /\ owned' = [owned EXCEPT ![i] = @ \cup {c}]
    BY <1>2, <1>6 DEF Take, sockets
  <2>2. /\ \A j \in Proc : c \in owned'[j] <=> j = i
        /\ \A x \in Conn \ {c} : \A j \in Proc : x \in owned'[j] <=> x \in owned[j]
    BY <1>2, <1>3, <1>4, <2>1 DEF TypeOK, ServedNow
  <2>3. CASE d = c
    <3>1. ServedNow(c)'
      BY <2>2 DEF ServedNow
    <3> QED
      BY <1>1, <1>2, <1>3, <1>4, <1>5, <2>1, <2>2, <2>3, <3>1 DEF Held, Paired
  <2>4. CASE d # c
    <3>1. Untouched(d)
      BY <1>1, <1>3, <1>5, <2>1, <2>2, <2>4 DEF Untouched
    <3> QED
      BY <1>3, <3>1, HeldUntouched
  <2> QED
    BY <2>3, <2>4
<1>7. CASE TakeFailed(i)
  <2>1. /\ client' = [client EXCEPT ![c] = "closed"]
        /\ broker' = [broker EXCEPT ![c] = "closed"] /\ owned' = owned
    BY <1>2, <1>7 DEF TakeFailed
  <2>2. client'[c] = "closed" /\ broker'[c] = "closed"
    BY <1>2, <1>3, <2>1 DEF TypeOK
  <2>3. CASE d = c
    BY <1>1, <1>2, <1>3, <1>4, <1>5, <2>1, <2>2, <2>3 DEF Held, Paired, ServedNow
  <2>4. CASE d # c
    <3>1. Untouched(d)
      BY <1>1, <1>3, <1>5, <2>1, <2>4 DEF Untouched, TypeOK
    <3> QED
      BY <1>3, <3>1, HeldUntouched
  <2> QED
    BY <2>3, <2>4
<1> QED
  BY <1>6, <1>7 DEF Adopt

LEMMA RetireHeld ==
    ASSUME IInv, NEW i \in Proc, NEW c \in Conn, Retire(i, c), NEW d \in Conn
    PROVE  Held(d)' /\ (d # c => Untouched(d))
<1>1. /\ TypeOK /\ Held(c) /\ Held(d) /\ c \in owned[i]
      /\ UNCHANGED <<watch, pairOf, batch>>
      /\ client' = [client EXCEPT ![c] = "closed"]
      /\ broker' = [broker EXCEPT ![c] = "closed"]
      /\ owned' = [owned EXCEPT ![i] = @ \ {c}]
  BY DEF IInv, Retire, Disown, loop
<1>2. /\ client[c] = "open" /\ watch[c] = "off" /\ ~Paired(c)
      /\ <<"connect", c>> \notin batch /\ \A j \in Proc : c \in owned[j] => j = i
  BY <1>1 DEF Held, ServedNow
<1>3. /\ \A j \in Proc : c \notin owned'[j]
      /\ \A x \in Conn \ {c} : \A j \in Proc : x \in owned'[j] <=> x \in owned[j]
      /\ client'[c] = "closed" /\ broker'[c] = "closed"
  BY <1>1, <1>2 DEF TypeOK
<1>4. CASE d = c
  BY <1>1, <1>2, <1>3, <1>4 DEF Held, Paired, ServedNow
<1>5. CASE d # c
  <2>1. Untouched(d)
    BY <1>1, <1>3, <1>5 DEF Untouched, TypeOK
  <2> QED
    BY <1>1, <2>1, HeldUntouched
<1> QED
  BY <1>4, <1>5

\* Steps that leave every connection where it is.
LEMMA OtherHeld ==
    ASSUME IInv, NEW d \in Conn,
           \/ Wait \/ EventsDone \/ WritePtr \/ PipeFull \/ PipeDone
           \/ \E i \in Proc : OnPipe(i)
           \/ \E c \in Conn : Arrive(c) \/ Answer(c)
           \/ UNCHANGED vars
    PROVE  Held(d)' /\ (Untouched(d) \/ Arrive(d))
<1>1. TypeOK /\ Held(d)
  BY DEF IInv
<1>2. CASE Wait
  <2>1. <<"connect", d>> \in batch' => watch'[d] = "fired" /\ watch[d] = "armed"
    BY <1>1, <1>2 DEF Wait, Pending, ListenEvent, TypeOK
  <2>2. <<"connect", d>> \notin batch' => watch'[d] = watch[d]
    BY <1>1, <1>2 DEF Wait, TypeOK
  <2>3. UNCHANGED <<client, broker, pairOf, owned>>
    BY <1>2 DEF Wait
  <2>4. Untouched(d)
    BY <2>1, <2>2, <2>3 DEF Untouched
  <2> QED
    BY <1>1, <2>4, HeldUntouched
<1>3. CASE EventsDone \/ WritePtr \/ PipeFull \/ PipeDone \/ UNCHANGED vars
  <2>1. UNCHANGED <<client, broker, watch, pairOf, owned, batch>>
    BY <1>3 DEF EventsDone, WritePtr, PipeFull, PipeDone, vars, sockets, loop
  <2>2. Untouched(d)
    BY <2>1 DEF Untouched
  <2> QED
    BY <1>1, <2>2, HeldUntouched
<1>4. ASSUME NEW i \in Proc, OnPipe(i) PROVE Held(d)' /\ (Untouched(d) \/ Arrive(d))
  <2>1. Untouched(d)
    BY <1>1, <1>4 DEF Untouched, OnPipe, Handle, sockets
  <2> QED
    BY <1>1, <2>1, HeldUntouched
<1>5. ASSUME NEW c \in Conn, Answer(c) PROVE Held(d)' /\ (Untouched(d) \/ Arrive(d))
  <2>1. Untouched(d)
    BY <1>1, <1>5 DEF Untouched, Answer, loop
  <2> QED
    BY <1>1, <2>1, HeldUntouched
<1>6. ASSUME NEW c \in Conn, Arrive(c) PROVE Held(d)' /\ (Untouched(d) \/ Arrive(d))
  <2>1. /\ UNCHANGED <<broker, watch, pairOf, owned, batch>>
        /\ client[c] = "none" /\ client' = [client EXCEPT ![c] = "backlog"]
    BY <1>6 DEF Arrive, loop
  <2>2. CASE d = c
    <3>1. client'[d] = "backlog"
      BY <1>1, <2>1, <2>2 DEF TypeOK
    <3> QED
      BY <1>1, <1>6, <2>1, <2>2, <3>1 DEF Held, Paired, ServedNow
  <2>3. CASE d # c
    <3>1. Untouched(d)
      BY <1>1, <2>1, <2>3 DEF Untouched, TypeOK
    <3> QED
      BY <1>1, <3>1, HeldUntouched
  <2> QED
    BY <2>2, <2>3
<1> QED
  BY <1>2, <1>3, <1>4, <1>5, <1>6

LEMMA Step == IInv /\ [Next]_vars => IInv'
<1> SUFFICES ASSUME IInv, [Next]_vars PROVE IInv'
  OBVIOUS
<1>1. ASSUME NEW d \in Conn PROVE Held(d)'
  BY AcceptHeld, ConnectHeld, AdoptHeld, RetireHeld, OtherHeld DEF Next, Main
<1> QED
  BY <1>1, TypeStep, RoutedStep DEF IInv

LEMMA InitIInv == Init => IInv
BY Initial DEF Init, AddPipe

\* Every reachable state satisfies the inductive invariant.
THEOREM Invariance == Spec => []IInv
BY InitIInv, Step, PTL DEF Spec

-----------------------------------------------------------------------------
(***************************************************************************)
(* One holder.                                                             *)
(***************************************************************************)
\* The places of a pair on its way.
LEMMA WayCount ==
    ASSUME IInv, NEW c \in Conn
    PROVE  Cardinality(UNION {{i} \times {k \in DOMAIN OnTheWay(i) :
                                       pairOf[OnTheWay(i)[k]] = c} : i \in Proc})
           = IF Paired(c) THEN 1 ELSE 0
<1> DEFINE P(i) == {k \in DOMAIN OnTheWay(i) : pairOf[OnTheWay(i)[k]] = c}
           W == UNION {{i} \times P(i) : i \in Proc}
<1>1. Routed /\ Held(c) /\ NULL \notin Conn
  BY ProcFacts DEF IInv
<1>2. \A i \in Proc : \A k \in DOMAIN OnTheWay(i) : OnTheWay(i)[k] \in PairAddr
  BY WayElements
<1>3. \A i : \A k \in P(i) : k \in DOMAIN OnTheWay(i) /\ pairOf[OnTheWay(i)[k]] = c
  OBVIOUS
<1>4. \A i : \A k \in DOMAIN OnTheWay(i) : pairOf[OnTheWay(i)[k]] = c => k \in P(i)
  OBVIOUS
<1> HIDE DEF P
<1>5. ASSUME NEW x \in W PROVE \E i \in Proc : \E k \in P(i) : x = <<i, k>>
  <2>1. PICK i \in Proc : x \in {i} \times P(i)
    OBVIOUS
  <2>2. PICK j \in {i}, k \in P(i) : x = <<j, k>>
    BY <2>1
  <2> QED
    BY <2>2
<1>6. \A i \in Proc : \A k \in P(i) : <<i, k>> \in W
  OBVIOUS
<1> HIDE DEF W
<1>7. CASE ~Paired(c)
  <2>1. W = {}
    BY <1>2, <1>3, <1>5, <1>7 DEF Paired
  <2> QED
    BY <1>7, <2>1, FS_EmptySet DEF W, P
<1>8. CASE Paired(c)
  <2>1. PICK a \in PairAddr : pairOf[a] = c
    BY <1>8 DEF Paired
  <2>2. PICK k \in DOMAIN OnTheWay(Index(a)) : OnTheWay(Index(a))[k] = a
    BY <1>1, <2>1 DEF Routed
  <2>3. <<Index(a), k>> \in W
    BY <1>4, <1>6, <2>1, <2>2, IndexType
  <2>4. ASSUME NEW x \in W PROVE x = <<Index(a), k>>
    <3>0. PICK i \in Proc : \E l \in P(i) : x = <<i, l>>
      BY <1>5
    <3>1. PICK l \in P(i) : x = <<i, l>>
      BY <3>0
    <3>2. l \in DOMAIN OnTheWay(i) /\ OnTheWay(i)[l] = a
      BY <1>1, <1>2, <1>3, <2>1, <3>1 DEF Held
    <3>3. i = Index(a)
      BY <1>1, <3>2 DEF Routed
    <3>4. l = k
      BY <1>1, <2>2, <3>2, <3>3 DEF Routed
    <3> QED
      BY <3>1, <3>3, <3>4
  <2>5. W = {<<Index(a), k>>}
    BY <2>3, <2>4
  <2> QED
    BY <1>8, <2>5, FS_Singleton DEF W, P
<1> QED
  BY <1>7, <1>8

LEMMA OwnCount ==
    ASSUME IInv, NEW c \in Conn
    PROVE  Cardinality({i \in Proc : c \in owned[i]}) = IF ServedNow(c) THEN 1 ELSE 0
<1>1. CASE ~ServedNow(c)
  <2>1. {i \in Proc : c \in owned[i]} = {}
    BY <1>1 DEF ServedNow
  <2> QED
    BY <1>1, <2>1, FS_EmptySet
<1>2. CASE ServedNow(c)
  <2>1. PICK i \in Proc : c \in owned[i]
    BY <1>2 DEF ServedNow
  <2>2. \A j \in Proc : c \in owned[j] => j = i
    BY <2>1 DEF IInv, Held
  <2>3. {j \in Proc : c \in owned[j]} = {i}
    BY <2>1, <2>2
  <2> QED
    BY <1>2, <2>3, FS_Singleton
<1> QED
  BY <1>1, <1>2

\* If epoll_ctl adds what it is asked to add, whatever else fails, a connection
\* whose handles are allocated is in exactly one part of the program's hands.
THEOREM SpecOneHolder ==
    ASSUME "add" \notin Fault
    PROVE  Spec => []OneHolder
<1>1. IInv => OneHolder
  <2> SUFFICES ASSUME IInv, NEW c \in Conn
               PROVE  /\ Holders(c) = IF client[c] = "open" THEN 1 ELSE 0
                      /\ client[c] = "open" <=> broker[c] = "open"
    BY DEF OneHolder
  <2>1. Held(c)
    BY DEF IInv
  <2>2. Holders(c) = (IF watch[c] = "off" THEN 0 ELSE 1)
                     + (IF Paired(c) THEN 1 ELSE 0) + (IF ServedNow(c) THEN 1 ELSE 0)
    BY WayCount, OwnCount DEF Holders
  <2> QED
    BY <2>1, <2>2 DEF Held
<1> QED
  BY <1>1, Invariance, PTL

-----------------------------------------------------------------------------
(***************************************************************************)
(* A blocked pipe is registered.                                           *)
(***************************************************************************)
\* writeAllPipes has seen to the pipes before the one it is at.
Armed(i) == HasOut(i) => pipeReg[i] \in {"armed", "none"}
AllArmed ==
    /\ mpc = "wait" => \A i \in Proc : Armed(i)
    /\ mpc = "write" => \A i \in Proc : i < windex => Armed(i)

LEMMA ArmedKept ==
    ASSUME AllArmed, UNCHANGED <<mpc, windex, outQ, outSave, pipeReg>>
    PROVE  AllArmed'
BY DEF AllArmed, Armed, HasOut

LEMMA NextPipeArmed ==
    ASSUME IInv, AllArmed, NextPipe, mpc = "write", NEW j \in Proc, j = windex,
           \A i \in Proc : i # j => UNCHANGED <<outQ[i], outSave[i], pipeReg[i]>>,
           Armed(j)'
    PROVE  AllArmed'
<1>1. Proc = 0..NumProc-1 /\ NumProc \in Nat
  BY HandoffAssumption DEF Proc
<1>2. \A i \in Proc : i < j => Armed(i)'
  BY <1>1 DEF AllArmed, Armed, HasOut
<1>3. \A i \in Proc : i < j + 1 => Armed(i)'
  <2>1. \A i \in Proc : i < j + 1 => i < j \/ i = j
    BY <1>1
  <2> QED
    BY <1>2, <2>1
<1>4. CASE j + 1 = NumProc
  BY <1>1, <1>3, <1>4 DEF AllArmed, NextPipe
<1>5. CASE j + 1 # NumProc
  BY <1>3, <1>5 DEF AllArmed, NextPipe
<1> QED
  BY <1>4, <1>5

LEMMA ArmedStep == IInv /\ AllArmed /\ [Next]_vars => AllArmed'
<1> SUFFICES ASSUME IInv, AllArmed, [Next]_vars PROVE AllArmed'
  OBVIOUS
<1>1. TypeOK /\ windex \in Proc
  BY DEF IInv, TypeOK
<1>2. CASE mpc' = "events"
  BY <1>2 DEF AllArmed
<1>3. CASE EventsDone
  <2>1. mpc' = "write" /\ windex' = 0 /\ \A i \in Proc : ~(i < 0)
    BY <1>3, ProcFacts DEF EventsDone
  <2> QED
    BY <2>1 DEF AllArmed
<1>4. CASE WritePtr
  <2>1. /\ mpc' = mpc /\ mpc = "write" /\ windex' = windex /\ pipeReg' = pipeReg
        /\ \A i \in Proc : i # windex => UNCHANGED <<outQ[i], outSave[i]>>
    BY <1>1, <1>4 DEF WritePtr, loop, TypeOK
  <2>2. \A i \in Proc : i < windex => i # windex
    BY ProcFacts, <1>1
  <2> QED
    BY <2>1, <2>2 DEF AllArmed, Armed, HasOut
<1>5. CASE PipeFull
  <2>0. PICK j \in Proc : j = windex
    BY <1>1
  <2>1. /\ mpc = "write" /\ NextPipe
        /\ \A i \in Proc : i # j => UNCHANGED <<outQ[i], outSave[i], pipeReg[i]>>
        /\ pipeReg'[j] = IF pipeReg[j] = "none" THEN "none" ELSE "armed"
    BY <1>1, <1>5, <2>0 DEF PipeFull, Modify, TypeOK
  <2>2. Armed(j)'
    BY <2>1 DEF Armed
  <2> QED
    BY <2>0, <2>1, <2>2, NextPipeArmed
<1>6. CASE PipeDone
  <2>0. PICK j \in Proc : j = windex
    BY <1>1
  <2>1. mpc = "write" /\ NextPipe /\ UNCHANGED <<outQ, outSave, pipeReg>> /\ ~HasOut(j)
    BY <1>6, <2>0 DEF PipeDone, queues
  <2>2. Armed(j)'
    BY <2>1 DEF Armed, HasOut
  <2> QED
    BY <2>0, <2>1, <2>2, NextPipeArmed
<1>7. CASE Wait
  BY <1>2, <1>7 DEF Wait
<1>8. ASSUME NEW e, Handle(e) PROVE mpc' = "events"
  BY <1>8 DEF Handle
<1>9. ASSUME NEW c \in Conn, Accept(c) \/ Connect(c) PROVE AllArmed'
  BY <1>2, <1>8, <1>9
     DEF Accept, AcceptFailed, AcceptNoSocket, AcceptRefused, AcceptConnected,
         AcceptConnecting, Connect, OnConnected, OnConnectFailed
<1>10. ASSUME NEW i \in Proc, OnPipe(i) PROVE AllArmed'
  BY <1>2, <1>8, <1>10 DEF OnPipe
<1>11. ASSUME UNCHANGED <<mpc, windex, outQ, outSave, pipeReg>> PROVE AllArmed'
  BY <1>11, ArmedKept
<1>12. ASSUME NEW i \in Proc, Adopt(i) PROVE AllArmed'
  BY <1>11, <1>12 DEF Adopt, Take, TakeFailed, loop
<1>13. ASSUME NEW i \in Proc, NEW c \in Conn, Retire(i, c) PROVE AllArmed'
  BY <1>11, <1>13 DEF Retire, queues, loop
<1>14. ASSUME NEW c \in Conn, Arrive(c) \/ Answer(c) PROVE AllArmed'
  BY <1>11, <1>14 DEF Arrive, Answer, queues, loop
<1>15. CASE UNCHANGED vars
  BY <1>11, <1>15 DEF vars, queues, loop
<1> QED
  BY <1>3, <1>4, <1>5, <1>6, <1>7, <1>9, <1>10, <1>12, <1>13, <1>14, <1>15
     DEF Next, Main

\* While the loop waits, the pipe of an address that did not fit is registered,
\* if it could be registered at all.
THEOREM SpecBlockedPipeArmed == Spec => []BlockedPipeArmed
<1>1. Init => AllArmed
  BY DEF Init, Idle, AllArmed, Armed, HasOut
<1>2. AllArmed => BlockedPipeArmed
  BY DEF AllArmed, Armed, BlockedPipeArmed
<1> QED
  BY <1>1, <1>2, ArmedStep, Invariance, PTL DEF Spec

-----------------------------------------------------------------------------
(***************************************************************************)
(* Each pipe hands over what was queued for it, in order.                  *)
(***************************************************************************)
LEMMA AppendRight ==
    ASSUME NEW t \in Seq(Conn), NEW u \in Seq(Conn), NEW x \in Conn
    PROVE  Append(t \o u, x) = t \o Append(u, x)
<1>1. t \o u \in Seq(Conn) /\ <<x>> \in Seq(Conn)
  BY ConcatProperties
<1>2. Append(t \o u, x) = (t \o u) \o <<x>> /\ Append(u, x) = u \o <<x>>
  BY <1>1, AppendIsConcat
<1> QED
  BY <1>1, <1>2, ConcatAssociative

LEMMA MoveHead ==
    ASSUME NEW S, NEW t \in Seq(S), NEW u \in Seq(S), u # <<>>
    PROVE  t \o u = Append(t, Head(u)) \o Tail(u)
<1>1. Head(u) \in S /\ Tail(u) \in Seq(S) /\ <<Head(u)>> \in Seq(S)
  BY HeadTailProperties
<1>2. Append(t, Head(u)) = t \o <<Head(u)>> /\ <<Head(u)>> \o Tail(u) = u
  <2>1. <<>> \o <<Head(u)>> \o Tail(u) = <<>> \o <<>> \o u
    BY SaveThree
  <2> QED
    BY <1>1, <2>1, AppendIsConcat, ConcatEmptySeq, ConcatProperties
<1> QED
  BY <1>1, <1>2, ConcatAssociative

\* The connections on their way to processor i.
Carried(i) == [k \in DOMAIN OnTheWay(i) |-> pairOf[OnTheWay(i)[k]]]

LEMMA CarriedType ==
    ASSUME IInv, NEW i \in Proc
    PROVE  /\ Carried(i) \in Seq(Conn)
           /\ Len(Carried(i)) = Len(OnTheWay(i)) /\ Len(OnTheWay(i)) \in Nat
           /\ \A k \in 1..Len(OnTheWay(i)) : Carried(i)[k] = pairOf[OnTheWay(i)[k]]
           /\ OnTheWay(i) \in Seq(PairAddr) /\ DOMAIN OnTheWay(i) = 1..Len(OnTheWay(i))
<1>1. /\ OnTheWay(i) \in Seq(PairAddr) /\ Len(OnTheWay(i)) \in Nat
      /\ DOMAIN OnTheWay(i) = 1..Len(OnTheWay(i))
  BY WayType, LenProperties
<1>2. \A k \in DOMAIN OnTheWay(i) : pairOf[OnTheWay(i)[k]] \in Conn
  <2>1. \A k \in DOMAIN OnTheWay(i) : OnTheWay(i)[k] \in PairAddr
    BY WayElements
  <2> QED
    BY <2>1 DEF IInv, TypeOK, Routed
<1>3. Carried(i) \in [1..Len(OnTheWay(i)) -> Conn]
  BY <1>1, <1>2 DEF Carried
<1>4. Carried(i) \in Seq(Conn) /\ Len(Carried(i)) = Len(OnTheWay(i))
  BY <1>1, <1>3
<1> QED
  BY <1>1, <1>4 DEF Carried

LEMMA AddedCarried ==
    ASSUME IInv, NEW c \in Conn, NEW a \in PairAddr, Added(c, a), NEW i \in Proc
    PROVE  Carried(i)' = IF i = Index(a) THEN Append(Carried(i), c) ELSE Carried(i)
<1>1. /\ pairOf \in [PairAddr -> Conn \cup {NULL}]
      /\ pairOf[a] = NULL /\ pairOf' = [pairOf EXCEPT ![a] = c]
  BY DEF Added, IInv, TypeOK
<1>2. \A k \in DOMAIN OnTheWay(i) :
          /\ OnTheWay(i)[k] \in PairAddr \ {a}
          /\ pairOf'[OnTheWay(i)[k]] = pairOf[OnTheWay(i)[k]]
  <2>1. \A k \in DOMAIN OnTheWay(i) : OnTheWay(i)[k] \in PairAddr
    BY WayElements
  <2> QED
    BY <1>1, <2>1 DEF IInv, Routed
<1>3. CASE i # Index(a)
  <2>1. OnTheWay(i)' = OnTheWay(i)
    BY <1>3 DEF Added
  <2> QED
    BY <1>2, <1>3, <2>1 DEF Carried
<1>4. CASE i = Index(a)
  <2>1. OnTheWay(i)' = Append(OnTheWay(i), a)
    BY <1>4 DEF Added
  <2> DEFINE n == Len(OnTheWay(i))
  <2>2. /\ Carried(i) \in Seq(Conn) /\ Len(Carried(i)) = n /\ n \in Nat
        /\ \A k \in 1..n : Carried(i)[k] = pairOf[OnTheWay(i)[k]]
        /\ DOMAIN OnTheWay(i) = 1..n /\ OnTheWay(i) \in Seq(PairAddr)
    BY CarriedType
  <2>3. /\ DOMAIN OnTheWay(i)' = 1..n+1
        /\ \A k \in 1..n : OnTheWay(i)'[k] = OnTheWay(i)[k]
        /\ OnTheWay(i)'[n+1] = a
    BY <2>1, <2>2, AppendElements
  <2>4. Carried(i)' = [k \in DOMAIN OnTheWay(i)' |-> pairOf'[OnTheWay(i)'[k]]]
    BY DEF Carried
  <2> HIDE DEF n
  <2>5. /\ Append(Carried(i), c) \in Seq(Conn) /\ DOMAIN Append(Carried(i), c) = 1..n+1
        /\ \A k \in 1..n : Append(Carried(i), c)[k] = Carried(i)[k]
        /\ Append(Carried(i), c)[n+1] = c
    <3>1. /\ Append(Carried(i), c) \in Seq(Conn) /\ Len(Append(Carried(i), c)) = n + 1
          /\ \A k \in 1..n : Append(Carried(i), c)[k] = Carried(i)[k]
          /\ Append(Carried(i), c)[n+1] = c
      BY <2>2, AppendProperties
    <3> QED
      BY <3>1, LenProperties
  <2>6. Append(Carried(i), c) = [k \in 1..n+1 |-> Append(Carried(i), c)[k]]
    BY <2>5, LenProperties
  <2>7. \A k \in 1..n+1 : pairOf'[OnTheWay(i)'[k]] = Append(Carried(i), c)[k]
    <3>1. \A k \in 1..n+1 : k \in 1..n \/ k = n + 1
      BY <2>2
    <3>2. pairOf'[a] = c
      BY <1>1
    <3> QED
      BY <1>2, <2>2, <2>3, <2>5, <3>1, <3>2
  <2> QED
    BY <1>4, <2>3, <2>4, <2>6, <2>7
<1> QED
  BY <1>3, <1>4

LEMMA TakenCarried ==
    ASSUME IInv, NEW j \in Proc, TakenOff(j), NEW i \in Proc
    PROVE  /\ Carried(j) # <<>> /\ Head(Carried(j)) = pairOf[Head(OnTheWay(j))]
           /\ Carried(i)' = IF i = j THEN Tail(Carried(i)) ELSE Carried(i)
<1> DEFINE w == OnTheWay(j)
           n == Len(w)
<1>1. /\ Carried(j) \in Seq(Conn) /\ Len(Carried(j)) = n /\ n \in Nat
      /\ \A k \in 1..n : Carried(j)[k] = pairOf[w[k]]
      /\ w \in Seq(PairAddr) /\ w # <<>>
      /\ pairOf \in [PairAddr -> Conn \cup {NULL}]
  BY CarriedType DEF TakenOff, IInv, TypeOK
<1>2. /\ DOMAIN w = 1..n /\ 1 \in DOMAIN w
      /\ DOMAIN Tail(w) = 1..n-1
      /\ \A k \in 1..n-1 : Tail(w)[k] = w[k+1]
      /\ Head(w) = w[1] /\ Head(w) \in PairAddr
  BY <1>1, TailElements
<1>3. /\ OnTheWay(j)' = Tail(w)
      /\ \A x \in Proc : x # j => OnTheWay(x)' = OnTheWay(x)
      /\ pairOf' = [pairOf EXCEPT ![w[1]] = NULL]
  BY <1>2 DEF TakenOff
<1>4. Carried(j) # <<>> /\ Head(Carried(j)) = pairOf[Head(w)]
  BY <1>1, <1>2
<1>5. \A x \in Proc : \A k \in DOMAIN OnTheWay(x) : OnTheWay(x)[k] \in PairAddr
  BY WayElements
<1>6. CASE i # j
  <2>1. \A k \in DOMAIN OnTheWay(i) : OnTheWay(i)[k] # w[1]
    BY <1>2, <1>6 DEF IInv, Routed
  <2>2. \A k \in DOMAIN OnTheWay(i) : pairOf'[OnTheWay(i)[k]] = pairOf[OnTheWay(i)[k]]
    BY <1>1, <1>3, <1>5, <2>1
  <2> QED
    BY <1>3, <1>4, <1>6, <2>2 DEF Carried
<1>7. CASE i = j
  <2>1. /\ Tail(Carried(j)) \in Seq(Conn) /\ Len(Tail(Carried(j))) = n - 1
        /\ \A k \in 1..n-1 : Tail(Carried(j))[k] = Carried(j)[k+1]
    BY <1>1, <1>4, HeadTailProperties
  <2>2. Tail(Carried(j)) = [k \in 1..n-1 |-> Tail(Carried(j))[k]]
    BY <2>1, LenProperties
  <2>3. Carried(j)' = [k \in DOMAIN OnTheWay(j)' |-> pairOf'[OnTheWay(j)'[k]]]
    BY DEF Carried
  <2>4. ASSUME NEW k \in 1..n-1
        PROVE  pairOf'[Tail(w)[k]] = Tail(Carried(j))[k]
    <3>1. k + 1 \in 1..n /\ k + 1 # 1
      BY <1>1
    <3>2. w[k+1] # w[1] /\ w[k+1] \in PairAddr
      BY <1>2, <1>5, <3>1 DEF IInv, Routed
    <3> QED
      BY <1>1, <1>2, <1>3, <2>1, <3>1, <3>2
  <2> QED
    BY <1>2, <1>3, <1>4, <1>7, <2>2, <2>3, <2>4
<1> QED
  BY <1>6, <1>7

LEMMA FifoStep == IInv /\ FifoExact /\ [Next]_vars => FifoExact'
<1> SUFFICES ASSUME IInv, FifoExact, [Next]_vars, NEW i \in Proc
             PROVE  queued'[i] = taken'[i] \o Carried(i)'
  BY DEF FifoExact, Carried
<1>1. /\ queued[i] = taken[i] \o Carried(i)
      /\ taken[i] \in Seq(Conn) /\ Carried(i) \in Seq(Conn)
      /\ queued \in [Proc -> Seq(Conn)] /\ taken \in [Proc -> Seq(Conn)]
  <2>1. queued[i] = taken[i] \o Carried(i)
    BY DEF FifoExact, Carried
  <2>2. queued \in [Proc -> Seq(Conn)] /\ taken \in [Proc -> Seq(Conn)]
    BY DEF IInv, TypeOK
  <2> QED
    BY <2>1, <2>2, CarriedType
<1>2. CASE Kept
  BY <1>1, <1>2 DEF Kept, Carried
<1>3. ASSUME NEW c \in Conn, NEW a \in PairAddr, Added(c, a)
      PROVE  queued'[i] = taken'[i] \o Carried(i)'
  <2>1. Carried(i)' = IF i = Index(a) THEN Append(Carried(i), c) ELSE Carried(i)
    BY <1>3, AddedCarried
  <2>2. taken' = taken /\ queued'[i] = IF i = Index(a) THEN Append(queued[i], c) ELSE queued[i]
    BY <1>1, <1>3, IndexType DEF Added
  <2>3. Append(taken[i] \o Carried(i), c) = taken[i] \o Append(Carried(i), c)
    BY <1>1, AppendRight
  <2> QED
    BY <1>1, <2>1, <2>2, <2>3
<1>4. ASSUME NEW j \in Proc, TakenOff(j)
      PROVE  queued'[i] = taken'[i] \o Carried(i)'
  <2>1. /\ Carried(j) # <<>> /\ Head(Carried(j)) = pairOf[Head(OnTheWay(j))]
        /\ Carried(i)' = IF i = j THEN Tail(Carried(i)) ELSE Carried(i)
    BY <1>4, TakenCarried
  <2>2. /\ queued' = queued
        /\ taken'[i] = IF i = j THEN Append(taken[i], Head(Carried(i))) ELSE taken[i]
    BY <1>1, <1>4, <2>1 DEF TakenOff
  <2>3. CASE i = j
    <3>1. taken[i] \o Carried(i) = Append(taken[i], Head(Carried(i))) \o Tail(Carried(i))
      BY <1>1, <2>1, <2>3, MoveHead
    <3> QED
      BY <1>1, <2>1, <2>2, <2>3, <3>1
  <2> QED
    BY <1>1, <2>1, <2>2, <2>3
<1> QED
  BY <1>2, <1>3, <1>4, WayStep

\* Whatever is written, saved, blocked and read when, and whichever addresses
\* are used again, a pipe hands over exactly what was queued for it, in order.
THEOREM SpecFifoExact == Spec => []FifoExact
<1>1. Init => FifoExact
  <2> SUFFICES ASSUME Init, NEW i \in Proc
               PROVE  queued[i] = taken[i] \o [k \in DOMAIN OnTheWay(i) |->
                                                  pairOf[OnTheWay(i)[k]]]
    BY DEF FifoExact
  <2>1. /\ queued[i] = <<>> /\ taken[i] = <<>>
        /\ pipe[i] = <<>> /\ outSave[i] = NULL /\ outQ[i] = <<>>
    BY DEF Init, Idle
  <2>2. OnTheWay(i) = <<>>
    BY <2>1 DEF OnTheWay
  <2>3. [k \in DOMAIN OnTheWay(i) |-> pairOf[OnTheWay(i)[k]]] = <<>>
    BY <2>2
  <2> QED
    BY <2>1, <2>3
<1> QED
  BY <1>1, FifoStep, Invariance, PTL DEF Spec

=============================================================================
