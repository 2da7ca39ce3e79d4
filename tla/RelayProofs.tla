---------------------------- MODULE RelayProofs ----------------------------
(***************************************************************************)
(* Proofs about the control of Relay, for any number of connections,       *)
(* addresses and events per epoll_wait: the inductive invariant IInv       *)
(* (types, pairing of handles, containment of buffers and registrations),  *)
(* that a connection is closed only for a cause of its own, how the data   *)
(* agrees with the registrations and the events under way (ArmedInv, from  *)
(* which OutputArmed), and that one event per epoll_wait would be safe.    *)
(* What the data itself is, is proved in RelayDataProofs.                  *)
(***************************************************************************)
EXTENDS Relay, TLAPS, SequenceTheorems, FiniteSetTheorems

\* The four variables of the main thread are taken one by one throughout.
USE DEF main

-----------------------------------------------------------------------------
(***************************************************************************)
(* Sequences.                                                              *)
(***************************************************************************)
LEMMA HeadTail ==
    ASSUME NEW S, NEW w \in Seq(S), w # <<>>
    PROVE  Head(w) \in S /\ Tail(w) \in Seq(S) /\ Len(Tail(w)) <= Len(w)
OBVIOUS

LEMMA AppendType ==
    ASSUME NEW S, NEW w \in Seq(S), NEW x \in S
    PROVE  Append(w, x) \in Seq(S) /\ Append(w, x) # <<>>
           /\ Len(Append(w, x)) = Len(w) + 1
BY AppendProperties

LEMMA AppendNonEmpty ==
    ASSUME NEW S, NEW w \in Seq(S), NEW f
    PROVE  Append(w, f) # <<>>
<1>1. w \in Seq(S \cup {f})
  OBVIOUS
<1> QED
  BY <1>1, AppendType

LEMMA EmptyType ==
    ASSUME NEW S
    PROVE  <<>> \in Seq(S) /\ Len(<<>>) = 0
OBVIOUS

-----------------------------------------------------------------------------
(***************************************************************************)
(* Types of the parts of a step.                                           *)
(***************************************************************************)
LEMMA SockFacts ==
    /\ NULL \notin Sock
    /\ NULL \notin Handle
    /\ \A s \in Sock : Other(s) \in Sock /\ Other(Other(s)) = s /\ Other(s) # s
BY RelayAssumption DEF Sock, Side, Other

LEMMA ChunkFacts ==
    ASSUME NEW s \in Sock, NEW j \in 1..Len(Script[s])
    PROVE  <<s, j>> \in Chunk
BY DEF Chunk

\* The frame DoWrite works on is a frame, and what it leaves is a queue.
LEMMA FrameFacts ==
    ASSUME TypeOK, NEW h \in Handle, HasOut(h)
    PROVE  /\ Frame(h) \in Seq(Chunk) /\ Frame(h) # <<>>
           /\ RestQ(h) \in Seq(Seq(Chunk) \ {<<>>})
<1> DEFINE F == Seq(Chunk) \ {<<>>}
<1>1. outSave[h] \in Seq(Chunk) /\ outQ[h] \in Seq(F)
  BY DEF TypeOK
<1>2. CASE outSave[h] # <<>>
  BY <1>1, <1>2 DEF Frame, RestQ
<1>3. CASE outSave[h] = <<>>
  <2>1. outQ[h] # <<>>
    BY <1>3 DEF HasOut
  <2>2. Head(outQ[h]) \in F /\ Tail(outQ[h]) \in Seq(F)
    BY <1>1, <2>1, HeadTail
  <2> QED
    BY <1>3, <2>2 DEF Frame, RestQ
<1> QED
  BY <1>2, <1>3

\* Deleting handles keeps the types of everything it touches.
LEMMA DeleteType ==
    ASSUME TypeOK, NEW H \in SUBSET Handle, Delete(H)
    PROVE  /\ fd' \in [Handle -> Sock \cup {NULL}]
           /\ partner' \in [Handle -> Handle \cup {NULL}]
           /\ inSave' \in [Handle -> Seq(Chunk)]
           /\ outSave' \in [Handle -> Seq(Chunk)]
           /\ outQ' \in [Handle -> Seq(Seq(Chunk) \ {<<>>})]
           /\ interest' \in [Sock -> {{}, {"IN"}, {"IN", "OUT"}}]
           /\ rcv' \in [Sock -> Seq(Chunk)]
           /\ snd' \in [Sock -> Seq(Chunk)]
           /\ \A s \in Sock : Len(snd'[s]) <= SndCap
<1>1. <<>> \in Seq(Chunk) /\ <<>> \in Seq(Seq(Chunk) \ {<<>>})
  BY EmptyType
<1>2. fd' \in [Handle -> Sock \cup {NULL}]
      /\ partner' \in [Handle -> Handle \cup {NULL}]
  BY DEF TypeOK, Delete
<1>3. inSave' \in [Handle -> Seq(Chunk)]
  BY <1>1 DEF TypeOK, Delete
<1>4. outSave' \in [Handle -> Seq(Chunk)]
  BY <1>1 DEF TypeOK, Delete
<1>5. outQ' \in [Handle -> Seq(Seq(Chunk) \ {<<>>})]
  BY <1>1 DEF TypeOK, Delete
<1>6. interest' \in [Sock -> {{}, {"IN"}, {"IN", "OUT"}}]
  BY DEF TypeOK, Delete
<1>7. rcv' \in [Sock -> Seq(Chunk)]
  BY <1>1 DEF TypeOK, Delete
<1>8. snd' \in [Sock -> Seq(Chunk)]
  BY <1>1 DEF TypeOK, Delete
<1>9. ASSUME NEW s \in Sock PROVE Len(snd'[s]) <= SndCap
  <2>1. snd'[s] = <<>> \/ snd'[s] = snd[s]
    BY DEF Delete
  <2>2. Len(snd[s]) <= SndCap /\ SndCap \in Nat
    BY RelayAssumption DEF TypeOK
  <2> QED
    BY <2>1, <2>2, EmptyType
<1> QED
  BY <1>2, <1>3, <1>4, <1>5, <1>6, <1>7, <1>8, <1>9

\* A handle at work and its partner are two allocated handles that hold the
\* two sockets of a connection.
LEMMA PairFacts ==
    ASSUME TypeOK, Paired, NEW h \in Handle, Live(h)
    PROVE  /\ fd[h] \in Sock
           /\ partner[h] \in Handle /\ partner[h] # h /\ Live(partner[h])
           /\ partner[partner[h]] = h
           /\ fd[partner[h]] \in Sock /\ fd[partner[h]] = Other(fd[h])
           /\ \A g \in Handle : fd[g] = fd[h] => g = h
BY DEF TypeOK, Paired, Live

-----------------------------------------------------------------------------
(***************************************************************************)
(* Types are kept by every step.                                           *)
(***************************************************************************)
LEMMA PipeHead ==
    ASSUME TypeOK, pipe # <<>>
    PROVE  /\ Head(pipe) \in Handle \X Handle /\ Head(pipe) = pipe[1]
           /\ 1 \in DOMAIN pipe
<1>1. pipe \in Seq(Handle \X Handle)
  BY DEF TypeOK
<1>2. Len(pipe) \in Nat /\ Len(pipe) # 0 /\ DOMAIN pipe = 1..Len(pipe)
  BY <1>1
<1> QED
  BY <1>1, <1>2, HeadTail

LEMMA InitType == Init => TypeOK
<1> SUFFICES ASSUME Init PROVE TypeOK
  OBVIOUS
<1>1. <<>> \in Seq(Chunk) /\ <<>> \in Seq(Seq(Chunk) \ {<<>>}) /\ Len(<<>>) = 0
      /\ <<>> \in Seq(Handle \X Handle)
  BY EmptyType
<1>2. \A s \in Sock : Len(snd[s]) <= SndCap
  BY <1>1, RelayAssumption DEF Init
<1> QED
  BY <1>1, <1>2 DEF Init, TypeOK, Location

LEMMA SocketEvent ==
    ASSUME NEW h \in Handle, NEW s \in Sock, NEW E \in SUBSET {"IN", "OUT"}
    PROVE  [ptr |-> h, sock |-> s, ev |-> E] \in Event
BY Zenon DEF Event

LEMMA PendingType ==
    ASSUME TypeOK
    PROVE  Pending \subseteq Event
<1>1. ASSUME NEW h \in Handle, Live(h)
      PROVE  [ptr |-> h, sock |-> fd[h], ev |-> Ready(fd[h])] \in Event
  <2>1. fd[h] \in Sock
    BY <1>1 DEF TypeOK, Live
  <2>2. Ready(fd[h]) \in SUBSET {"IN", "OUT"}
    <3>1. interest[fd[h]] \in {{}, {"IN"}, {"IN", "OUT"}}
      BY <2>1 DEF TypeOK
    <3>2. Ready(fd[h]) \subseteq interest[fd[h]]
      BY DEF Ready
    <3> QED
      BY <3>1, <3>2
  <2> QED
    BY <2>1, <2>2, SocketEvent
<1> QED
  BY <1>1 DEF Pending, Event

\* The steps of the loop that only look at the batch.
LEMMA LoopType ==
    ASSUME TypeOK, Wait \/ DispatchPipe \/ PipeDrained
                   \/ \E e \in batch :
                         Dispatch(e) \/ DispatchFreed(e) \/ DispatchOther(e)
    PROVE  TypeOK'
<1>1. CASE Wait
  <2>1. batch' \subseteq Event
    BY <1>1, PendingType DEF Wait
  <2> QED
    BY <1>1, <2>1 DEF Wait, TypeOK, handles, remote
<1>2. CASE DispatchPipe \/ PipeDrained
  BY <1>2 DEF DispatchPipe, PipeDrained, TypeOK, handles, remote, Location
<1>3. ASSUME NEW e \in batch, Dispatch(e) PROVE TypeOK'
  <2>1. e \in [ptr : Handle, sock : Sock, ev : SUBSET {"IN", "OUT"}]
    BY <1>3 DEF Dispatch, TypeOK, Event
  <2>2. e.ptr \in Handle /\ e.ev \subseteq {"IN", "OUT"}
    BY <2>1
  <2>3. stale' \in BOOLEAN
    BY <1>3 DEF Dispatch
  <2>4. batch' \subseteq Event /\ cur' \in Handle /\ ev' \subseteq {"IN", "OUT"}
        /\ pc' \in Location
    BY <1>3, <2>2 DEF Dispatch, TypeOK, Location
  <2> QED
    BY <1>3, <2>3, <2>4 DEF Dispatch, TypeOK, handles, remote
<1>4. ASSUME NEW e \in batch, DispatchFreed(e) PROVE TypeOK'
  BY <1>4 DEF DispatchFreed, TypeOK, handles, remote, Location
<1>5. ASSUME NEW e \in batch, DispatchOther(e) PROVE TypeOK'
  BY <1>5 DEF DispatchOther, TypeOK, handles, remote
<1> QED
  BY <1>1, <1>2, <1>3, <1>4, <1>5

\* The steps that clear a pair clear the one of an allocated handle: that of
\* the event, or one that came out of the pipe.
LEMMA ClearFacts ==
    ASSUME IInv, ReadBad \/ ReadClosed \/ WriteErr \/ AdoptFailed
    PROVE  \E h \in Handle :
              /\ Live(h) /\ ClearFHPair(h)
              /\ h = cur \/ pc = "pipe"
<1>1. TypeOK /\ Contained
  BY DEF IInv
<1>2. CASE ReadBad \/ ReadClosed \/ WriteErr
  BY <1>1, <1>2 DEF ReadBad, ReadClosed, WriteErr, Contained
<1>3. CASE AdoptFailed
  <2>1. Head(pipe) \in Handle \X Handle
    BY <1>1, <1>3, HeadTail DEF AdoptFailed, TypeOK
  <2> QED
    BY <1>3, <2>1 DEF AdoptFailed
<1> QED
  BY <1>2, <1>3

LEMMA ClearType ==
    ASSUME IInv, ReadBad \/ ReadClosed \/ WriteErr \/ AdoptFailed
    PROVE  TypeOK'
<1>1. TypeOK /\ Paired
  BY DEF IInv
<1>2. PICK h \in Handle : Live(h) /\ ClearFHPair(h)
  BY ClearFacts
<1>3. {h, partner[h]} \in SUBSET Handle /\ Delete({h, partner[h]})
  BY <1>1, <1>2, PairFacts DEF ClearFHPair
<1>4. UNCHANGED <<remote, main, batch, stale>>
  BY DEF ReadBad, ReadClosed, WriteErr, AdoptFailed
<1>5. pipe' \in Seq(Handle \X Handle)
  <2>1. CASE pipe' = pipe
    BY <1>1, <2>1 DEF TypeOK
  <2>2. CASE pipe # <<>> /\ pipe' = Tail(pipe)
    BY <1>1, <2>2, HeadTail DEF TypeOK
  <2> QED
    BY <2>1, <2>2 DEF ReadBad, ReadClosed, WriteErr, AdoptFailed
<1>6. pc' \in Location /\ cur' \in Handle \cup {NULL} /\ ev' \subseteq {"IN", "OUT"}
  BY <1>1 DEF ReadBad, ReadClosed, WriteErr, AdoptFailed, Continue, TypeOK, Location
<1> QED
  BY <1>1, <1>3, <1>4, <1>5, <1>6, DeleteType DEF TypeOK, remote

LEMMA ReadType ==
    ASSUME IInv, ReadPart \/ ReadFrame \/ ReadBlocked
    PROVE  TypeOK'
<1>1. TypeOK /\ cur \in Handle /\ Live(cur)
  BY DEF IInv, Contained, ReadPart, ReadFrame, ReadBlocked
<1>2. fd[cur] \in Sock /\ partner[cur] \in Handle
  BY <1>1, PairFacts DEF IInv
<1>3. CASE ReadBlocked
  BY <1>1, <1>3 DEF ReadBlocked, TypeOK, handles, remote, Location
<1>4. ASSUME rcv[fd[cur]] # <<>>
      PROVE  /\ Append(inSave[cur], Head(rcv[fd[cur]])) \in Seq(Chunk) \ {<<>>}
             /\ [rcv EXCEPT ![fd[cur]] = Tail(@)] \in [Sock -> Seq(Chunk)]
  <2>1. rcv[fd[cur]] \in Seq(Chunk) /\ inSave[cur] \in Seq(Chunk)
    BY <1>1, <1>2 DEF TypeOK
  <2>2. Head(rcv[fd[cur]]) \in Chunk /\ Tail(rcv[fd[cur]]) \in Seq(Chunk)
    BY <1>4, <2>1, HeadTail
  <2>3. Append(inSave[cur], Head(rcv[fd[cur]])) \in Seq(Chunk) \ {<<>>}
    BY <2>1, <2>2, AppendType
  <2> QED
    BY <1>1, <1>2, <2>2, <2>3 DEF TypeOK
<1>5. CASE ReadPart
  <2>1. rcv' \in [Sock -> Seq(Chunk)] /\ inSave' \in [Handle -> Seq(Chunk)]
    BY <1>1, <1>4, <1>5 DEF ReadPart, Extends, TypeOK
  <2> QED
    BY <1>1, <1>5, <2>1 DEF ReadPart, TypeOK, remote
<1>6. CASE ReadFrame
  <2> DEFINE f == Append(inSave[cur], Head(rcv[fd[cur]]))
  <2>1. f \in Seq(Chunk) \ {<<>>} /\ rcv' \in [Sock -> Seq(Chunk)]
    BY <1>4, <1>6 DEF ReadFrame, Completes
  <2>2. outQ[partner[cur]] \in Seq(Seq(Chunk) \ {<<>>})
    BY <1>1, <1>2 DEF TypeOK
  <2>3. Append(outQ[partner[cur]], f) \in Seq(Seq(Chunk) \ {<<>>})
    BY <2>1, <2>2, AppendType
  <2>4. outQ' = [outQ EXCEPT ![partner[cur]] = Append(@, f)]
        /\ inSave' = [inSave EXCEPT ![cur] = <<>>]
    BY <1>6 DEF ReadFrame
  <2>5. outQ' \in [Handle -> Seq(Seq(Chunk) \ {<<>>})]
    BY <1>1, <2>3, <2>4 DEF TypeOK
  <2>6. inSave' \in [Handle -> Seq(Chunk)]
    BY <1>1, <2>4, EmptyType DEF TypeOK
  <2> QED
    BY <1>1, <1>6, <2>1, <2>5, <2>6 DEF ReadFrame, TypeOK, remote
<1> QED
  BY <1>3, <1>5, <1>6

LEMMA WriteType ==
    ASSUME IInv, Arm \/ WriteChunk \/ WriteBlocked \/ WriteDone \/ WriteSigpipe
    PROVE  TypeOK'
<1>1. TypeOK /\ cur \in Handle /\ Live(cur)
  BY DEF IInv, Contained, Arm, WriteChunk, WriteBlocked, WriteDone, WriteSigpipe
<1>2. fd[cur] \in Sock /\ partner[cur] \in Handle /\ fd[partner[cur]] \in Sock
  BY <1>1, PairFacts DEF IInv
<1>3. CASE Arm
  <2>1. interest' \in [Sock -> {{}, {"IN"}, {"IN", "OUT"}}]
    BY <1>1, <1>2, <1>3 DEF Arm, TypeOK
  <2>2. pc' \in Location /\ cur' \in Handle \cup {NULL} /\ ev' \subseteq {"IN", "OUT"}
    BY <1>1, <1>3 DEF Arm, Continue, Location, TypeOK
  <2> QED
    BY <1>1, <1>3, <2>1, <2>2 DEF Arm, TypeOK, handles, remote
<1>4. CASE WriteDone
  <2>1. interest' \in [Sock -> {{}, {"IN"}, {"IN", "OUT"}}]
    BY <1>1, <1>2, <1>4 DEF WriteDone, TypeOK
  <2> QED
    BY <1>1, <1>4, <2>1 DEF WriteDone, Continue, Location, TypeOK, handles, remote
<1>5. CASE WriteSigpipe
  BY <1>1, <1>5 DEF WriteSigpipe, TypeOK, handles, remote, Location
<1>6. ASSUME HasOut(cur)
      PROVE  /\ Frame(cur) \in Seq(Chunk) /\ Frame(cur) # <<>>
             /\ [outQ EXCEPT ![cur] = RestQ(cur)] \in [Handle -> Seq(Seq(Chunk) \ {<<>>})]
  <2>1. Frame(cur) \in Seq(Chunk) /\ Frame(cur) # <<>>
        /\ RestQ(cur) \in Seq(Seq(Chunk) \ {<<>>})
    BY <1>1, <1>6, FrameFacts
  <2> QED
    BY <1>1, <2>1 DEF TypeOK
<1>7. CASE WriteBlocked
  <2>1. outSave' \in [Handle -> Seq(Chunk)]
        /\ outQ' \in [Handle -> Seq(Seq(Chunk) \ {<<>>})]
    BY <1>1, <1>6, <1>7 DEF WriteBlocked, Blocked, TypeOK
  <2> QED
    BY <1>1, <1>7, <2>1 DEF WriteBlocked, Continue, Location, TypeOK, remote
<1>8. CASE WriteChunk
  <2>1. Head(Frame(cur)) \in Chunk /\ Tail(Frame(cur)) \in Seq(Chunk)
    BY <1>6, <1>8, HeadTail DEF WriteChunk
  <2>2. outSave' \in [Handle -> Seq(Chunk)]
        /\ outQ' \in [Handle -> Seq(Seq(Chunk) \ {<<>>})]
    BY <1>1, <1>6, <1>8, <2>1 DEF WriteChunk, Written, TypeOK
  <2>3. snd[fd[cur]] \in Seq(Chunk) /\ Len(snd[fd[cur]]) < SndCap
    BY <1>1, <1>2, <1>8 DEF WriteChunk, TypeOK, Room
  <2>4. Append(snd[fd[cur]], Head(Frame(cur))) \in Seq(Chunk)
        /\ Len(Append(snd[fd[cur]], Head(Frame(cur)))) = Len(snd[fd[cur]]) + 1
    BY <2>1, <2>3, AppendType
  <2>5. snd' = [snd EXCEPT ![fd[cur]] = Append(@, Head(Frame(cur)))]
    BY <1>8 DEF WriteChunk
  <2>6. snd' \in [Sock -> Seq(Chunk)]
    BY <1>1, <2>4, <2>5 DEF TypeOK
  <2>7. Len(snd[fd[cur]]) \in Nat /\ SndCap \in Nat
    BY <2>3, RelayAssumption
  <2>8. \A s \in Sock : Len(snd'[s]) <= SndCap
    BY <1>1, <2>3, <2>4, <2>5, <2>7 DEF TypeOK
  <2> QED
    BY <1>1, <1>8, <2>2, <2>6, <2>8 DEF WriteChunk, TypeOK, remote
<1> QED
  BY <1>3, <1>4, <1>5, <1>7, <1>8

LEMMA AdoptType ==
    ASSUME TypeOK, Adopt \/ AdoptFreed
    PROVE  TypeOK'
<1>1. pipe \in Seq(Handle \X Handle) /\ pipe # <<>>
  BY DEF TypeOK, Adopt, AdoptFreed
<1>2. Head(pipe) \in Handle \X Handle /\ Tail(pipe) \in Seq(Handle \X Handle)
  BY <1>1, HeadTail
<1>3. CASE Adopt
  <2>1. fd[Head(pipe)[1]] \in Sock /\ fd[Head(pipe)[2]] \in Sock
    BY <1>2, <1>3 DEF Adopt, TypeOK, Live
  <2>2. interest' \in [Sock -> {{}, {"IN"}, {"IN", "OUT"}}]
    BY <1>3, <2>1 DEF Adopt, TypeOK
  <2> QED
    BY <1>2, <1>3, <2>2 DEF Adopt, TypeOK, handles, remote
<1>4. CASE AdoptFreed
  BY <1>2, <1>4 DEF AdoptFreed, TypeOK, handles, remote, Location
<1> QED
  BY <1>3, <1>4

\* What the main thread does when it makes two handles partners: they are two
\* that it has allocated and nobody knows yet.
LEMMA HandoverFacts ==
    ASSUME TypeOK, Apart, Handover
    PROVE  \E c \in Pair, hs \in Handle, hc \in Handle :
              /\ hs # hc /\ ~Live(hs) /\ ~Live(hc)
              /\ c \notin started /\ started' = started \cup {c}
              /\ fd' = [fd EXCEPT ![hs] = <<c, "S">>, ![hc] = <<c, "C">>]
              /\ partner' = [partner EXCEPT ![hs] = hc, ![hc] = hs]
              /\ \/ pipe' = Append(pipe, <<hs, hc>>) /\ UNCHANGED connecting
                 \/ connecting' = connecting \cup {c} /\ UNCHANGED pipe
              /\ accepting' = NULL /\ half' = [d \in Side |-> NULL]
              /\ UNCHANGED <<inSave, outSave, outQ, interest, rcv, snd, remote,
                             batch, pc, cur, ev, stale>>
<1>1. "S" \in Side /\ "C" \in Side
  BY DEF Side
<1>2. half["C"] # NULL /\ accepting # NULL /\ half["S"] # NULL
  BY <1>1 DEF Apart, Handover
<1>3. accepting \in Pair /\ half["S"] \in Handle /\ half["C"] \in Handle
  BY <1>1, <1>2 DEF TypeOK
<1>4. /\ half["S"] # half["C"] /\ ~Live(half["S"]) /\ ~Live(half["C"])
      /\ accepting \notin started
  BY <1>1, <1>2 DEF Apart
<1> QED
  BY <1>3, <1>4 DEF Handover, SetUp

\* The steps of the main thread that change nothing but what it keeps itself.
Prepares == NoBroker \/ NewBroker \/ \E c \in Pair : NewClient(c)

LEMMA PrepareFacts ==
    ASSUME TypeOK, Apart, Prepares
    PROVE  /\ Apart' /\ started \subseteq started' /\ connecting' = connecting
           /\ started' \subseteq Pair /\ accepting' \in Pair \cup {NULL}
           /\ half' \in [Side -> Handle \cup {NULL}]
           /\ UNCHANGED <<handles, interest, rcv, snd, remote, pipe, batch, pc,
                          cur, ev, stale>>
<1>1. "S" \in Side /\ "C" \in Side /\ Side = {"S", "C"}
  BY DEF Side
<1>2. half \in [Side -> Handle \cup {NULL}] /\ NULL \notin Handle /\ NULL \notin Pair
  BY SockFacts, RelayAssumption DEF TypeOK
<1>3. CASE NoBroker
  <2>1. accepting \in Pair
    BY <1>3 DEF NoBroker, TypeOK
  <2> QED
    BY <1>1, <1>2, <1>3, <2>1 DEF NoBroker, SetUp, Apart, TypeOK
<1>4. CASE NewBroker
  <2>1. PICK h \in Handle : Free(h) /\ half' = [half EXCEPT !["C"] = h]
    BY <1>4 DEF NewBroker
  <2>2. /\ half'["C"] = h /\ half'["S"] = half["S"] /\ half["S"] # h /\ ~Live(h)
        /\ half' \in [Side -> Handle \cup {NULL}]
    BY <1>1, <1>2, <2>1 DEF Free, Half
  <2>3. UNCHANGED <<handles, interest, rcv, snd, remote, started, accepting,
                    connecting, pipe, batch, pc, cur, ev, stale>>
        /\ accepting # NULL
    BY <1>4 DEF NewBroker
  <2>4. Apart'
    BY <1>1, <1>2, <2>2, <2>3 DEF Apart, Live, handles
  <2> QED
    BY <2>2, <2>3, <2>4 DEF TypeOK
<1>5. ASSUME NEW c \in Pair, NewClient(c)
      PROVE  /\ Apart' /\ half' \in [Side -> Handle \cup {NULL}] /\ accepting' = c
             /\ UNCHANGED <<handles, interest, rcv, snd, remote, started,
                            connecting, pipe, batch, pc, cur, ev, stale>>
  <2>1. PICK h \in Handle : Free(h) /\ half' = [half EXCEPT !["S"] = h]
    BY <1>5 DEF NewClient
  <2>2. accepting = NULL /\ half["C"] = NULL
    BY <1>1, <1>5 DEF NewClient, Apart
  <2>3. /\ half'["S"] = h /\ half'["C"] = NULL /\ ~Live(h)
        /\ half' \in [Side -> Handle \cup {NULL}]
    BY <1>1, <1>2, <2>1, <2>2 DEF Free
  <2>4. UNCHANGED <<handles, interest, rcv, snd, remote, started,
                    connecting, pipe, batch, pc, cur, ev, stale>>
        /\ accepting' = c /\ c \notin started
    BY <1>5 DEF NewClient
  <2>5. Apart'
    BY <1>1, <1>2, <2>3, <2>4 DEF Apart, Live, handles
  <2> QED
    BY <2>3, <2>4, <2>5
<1> QED
  BY <1>3, <1>4, <1>5 DEF Prepares, TypeOK

\* The pair whose connection to the broker is established.
LEMMA ConnectedFacts ==
    ASSUME TypeOK, Paired, NEW c \in Pair, OnConnected(c)
    PROVE  \E hs \in Handle, hc \in Handle :
              /\ Live(hs) /\ Live(hc) /\ hs = partner[hc] /\ partner[hs] = hc
              /\ fd[hc] = <<c, "C">> /\ fd[hs] = <<c, "S">>
              /\ pipe' = Append(pipe, <<hs, hc>>)
<1>1. PICK h \in Handle : fd[h] = <<c, "C">> /\ pipe' = Append(pipe, <<partner[h], h>>)
  BY DEF OnConnected
<1>2. <<c, "C">> \in Sock /\ Other(<<c, "C">>) = <<c, "S">>
  BY DEF Sock, Side, Other
<1>3. Live(h)
  BY <1>1, <1>2, SockFacts DEF Live
<1>4. PICK g \in Handle : g = partner[h] /\ partner[g] = h /\ Live(g)
                          /\ fd[g] = Other(fd[h])
  BY <1>3, PairFacts
<1> QED
  BY <1>1, <1>2, <1>3, <1>4

\* The pair whose connection to the broker failed: the thread is not at work on
\* either handle.
LEMMA ConnectFailedFacts ==
    ASSUME TypeOK, Paired, NEW c \in Pair, OnConnectFailed(c)
    PROVE  \E h \in Handle :
              /\ Live(h) /\ fd[h] = <<c, "C">> /\ ClearFHPair(h)
              /\ pc \in {"read", "arm", "write"} => cur \notin {h, partner[h]}
<1>1. PICK h \in Handle : fd[h] = <<c, "C">> /\ ~AtWork(h) /\ ClearFHPair(h)
  BY DEF OnConnectFailed
<1>2. <<c, "C">> \in Sock
  BY DEF Sock, Side
<1>3. Live(h)
  BY <1>1, <1>2, SockFacts DEF Live
<1> QED
  BY <1>1, <1>3 DEF AtWork

LEMMA MainType ==
    ASSUME IInv, Main
    PROVE  TypeOK'
<1>1. TypeOK /\ Paired /\ Apart
  BY DEF IInv
<1>2. CASE Handover
  <2>1. PICK c \in Pair, hs \in Handle, hc \in Handle :
          /\ started' = started \cup {c}
          /\ fd' = [fd EXCEPT ![hs] = <<c, "S">>, ![hc] = <<c, "C">>]
          /\ partner' = [partner EXCEPT ![hs] = hc, ![hc] = hs]
          /\ \/ pipe' = Append(pipe, <<hs, hc>>) /\ UNCHANGED connecting
             \/ connecting' = connecting \cup {c} /\ UNCHANGED pipe
          /\ accepting' = NULL /\ half' = [d \in Side |-> NULL]
          /\ UNCHANGED <<inSave, outSave, outQ, interest, rcv, snd, remote,
                         batch, pc, cur, ev, stale>>
    BY <1>1, <1>2, HandoverFacts
  <2>2. <<c, "S">> \in Sock /\ <<c, "C">> \in Sock /\ <<hs, hc>> \in Handle \X Handle
    BY DEF Sock, Side
  <2>3. pipe' \in Seq(Handle \X Handle)
    <3>1. pipe \in Seq(Handle \X Handle)
      BY <1>1 DEF TypeOK
    <3>2. Append(pipe, <<hs, hc>>) \in Seq(Handle \X Handle)
      BY <2>2, <3>1, AppendType
    <3> QED
      BY <2>1, <3>1, <3>2
  <2>4. fd' \in [Handle -> Sock \cup {NULL}] /\ partner' \in [Handle -> Handle \cup {NULL}]
    BY <1>1, <2>1, <2>2 DEF TypeOK
  <2>5. /\ started' \subseteq Pair /\ connecting' \subseteq Pair
        /\ accepting' \in Pair \cup {NULL} /\ half' \in [Side -> Handle \cup {NULL}]
    BY <1>1, <2>1 DEF TypeOK
  <2> QED
    BY <1>1, <2>1, <2>3, <2>4, <2>5 DEF TypeOK, remote
<1>3. CASE Prepares
  <2>1. /\ started' \subseteq Pair /\ connecting' = connecting
        /\ accepting' \in Pair \cup {NULL} /\ half' \in [Side -> Handle \cup {NULL}]
        /\ UNCHANGED <<handles, interest, rcv, snd, remote, pipe, batch, pc,
                       cur, ev, stale>>
    BY <1>1, <1>3, PrepareFacts
  <2> QED
    BY <1>1, <2>1 DEF TypeOK, handles, remote
<1>4. ASSUME NEW c \in Pair, OnConnected(c) PROVE TypeOK'
  <2>1. PICK hs \in Handle, hc \in Handle : pipe' = Append(pipe, <<hs, hc>>)
    BY <1>1, <1>4, ConnectedFacts
  <2>2. pipe' \in Seq(Handle \X Handle)
    BY <1>1, <2>1, AppendType DEF TypeOK
  <2>3. /\ connecting' \subseteq connecting
        /\ UNCHANGED <<handles, interest, rcv, snd, remote, started, accepting,
                       half, batch, pc, cur, ev, stale>>
    BY <1>4 DEF OnConnected
  <2> QED
    BY <1>1, <2>2, <2>3 DEF TypeOK, handles, remote
<1>5. ASSUME NEW c \in Pair, OnConnectFailed(c) PROVE TypeOK'
  <2>1. PICK h \in Handle : Live(h) /\ ClearFHPair(h)
    BY <1>1, <1>5, ConnectFailedFacts
  <2>2. {h, partner[h]} \in SUBSET Handle /\ Delete({h, partner[h]})
    BY <1>1, <2>1, PairFacts DEF ClearFHPair
  <2>3. /\ connecting' \subseteq connecting
        /\ UNCHANGED <<remote, started, accepting, half, pipe, batch, pc, cur, ev,
                       stale>>
    BY <1>5 DEF OnConnectFailed
  <2> QED
    BY <1>1, <2>2, <2>3, DeleteType DEF TypeOK, remote
<1>6. ASSUME NEW c \in Pair, ConnectFreed(c) PROVE TypeOK'
  BY <1>1, <1>6 DEF ConnectFreed, TypeOK, handles, remote, Location
<1> QED
  BY <1>2, <1>3, <1>4, <1>5, <1>6 DEF Main, Loop, Connect, Prepares

LEMMA RemoteType ==
    ASSUME TypeOK, NEW s \in Sock,
           PeerSend(s) \/ PeerRecv(s) \/ PeerFin(s) \/ PeerReset(s)
    PROVE  TypeOK'
<1>1. CASE PeerSend(s)
  <2>1. sentN[s] \in Nat /\ sentN[s] < Len(Script[s]) /\ Len(Script[s]) \in Nat
    BY <1>1, RelayAssumption DEF PeerSend, TypeOK
  <2>2. <<s, sentN[s] + 1>> \in Chunk
    BY <2>1, ChunkFacts
  <2>3. Append(rcv[s], <<s, sentN[s] + 1>>) \in Seq(Chunk)
    <3>1. rcv[s] \in Seq(Chunk)
      BY DEF TypeOK
    <3> QED
      BY <2>2, <3>1, AppendType
  <2>4. rcv' \in [Sock -> Seq(Chunk)] /\ sentN' \in [Sock -> Nat]
    BY <1>1, <2>1, <2>3 DEF PeerSend, TypeOK
  <2> QED
    BY <1>1, <2>4 DEF PeerSend, TypeOK, handles
<1>2. CASE PeerRecv(s)
  <2>1. snd[s] \in Seq(Chunk) /\ snd[s] # <<>> /\ got[s] \in Seq(Chunk)
        /\ Len(snd[s]) <= SndCap
    BY <1>2 DEF PeerRecv, TypeOK
  <2>2. Head(snd[s]) \in Chunk /\ Tail(snd[s]) \in Seq(Chunk)
        /\ Len(Tail(snd[s])) <= Len(snd[s])
    BY <2>1, HeadTail
  <2>3. Append(got[s], Head(snd[s])) \in Seq(Chunk)
    BY <2>1, <2>2, AppendType
  <2>4. snd' = [snd EXCEPT ![s] = Tail(@)]
        /\ got' = [got EXCEPT ![s] = Append(@, Head(snd[s]))]
    BY <1>2 DEF PeerRecv
  <2>5. snd' \in [Sock -> Seq(Chunk)] /\ got' \in [Sock -> Seq(Chunk)]
    BY <2>2, <2>3, <2>4 DEF TypeOK
  <2>6. Len(Tail(snd[s])) \in Nat /\ Len(snd[s]) \in Nat /\ SndCap \in Nat
    BY <2>1, <2>2, RelayAssumption
  <2>7. Len(Tail(snd[s])) <= SndCap
    BY <2>1, <2>2, <2>6
  <2>8. \A t \in Sock : Len(snd'[t]) <= SndCap
    BY <2>4, <2>7 DEF TypeOK
  <2> QED
    BY <1>2, <2>5, <2>8 DEF PeerRecv, TypeOK, handles
<1>3. CASE PeerFin(s)
  BY <1>3 DEF PeerFin, TypeOK, handles
<1>4. CASE PeerReset(s)
  <2>1. snd' \in [Sock -> Seq(Chunk)] /\ \A t \in Sock : Len(snd'[t]) <= SndCap
    BY <1>4, EmptyType, RelayAssumption DEF PeerReset, TypeOK
  <2> QED
    BY <1>4, <2>1 DEF PeerReset, TypeOK, handles
<1> QED
  BY <1>1, <1>2, <1>3, <1>4

LEMMA StepType == IInv /\ [Next]_vars => TypeOK'
<1> SUFFICES ASSUME IInv, [Next]_vars PROVE TypeOK'
  OBVIOUS
<1>1. TypeOK
  BY DEF IInv
<1>2. CASE Thread
  <2>1. CASE Wait \/ DispatchPipe \/ PipeDrained
             \/ \E e \in batch :
                   Dispatch(e) \/ DispatchFreed(e) \/ DispatchOther(e)
    BY <1>1, <2>1, LoopType
  <2>2. CASE ReadBad \/ ReadClosed \/ WriteErr \/ AdoptFailed
    BY <2>2, ClearType
  <2>3. CASE ReadPart \/ ReadFrame \/ ReadBlocked
    BY <2>3, ReadType
  <2>4. CASE Arm \/ WriteChunk \/ WriteBlocked \/ WriteDone \/ WriteSigpipe
    BY <2>4, WriteType
  <2>5. CASE Adopt \/ AdoptFreed
    BY <1>1, <2>5, AdoptType
  <2> QED
    BY <1>2, <2>1, <2>2, <2>3, <2>4, <2>5 DEF Thread, Read, Write, Pipe
<1>3. CASE Main
  BY <1>3, MainType
<1>4. CASE Remote
  BY <1>1, <1>4, RemoteType DEF Remote
<1>5. CASE UNCHANGED vars
  BY <1>1, <1>5 DEF vars, handles, remote, TypeOK
<1> QED
  BY <1>2, <1>3, <1>4, <1>5 DEF Next

-----------------------------------------------------------------------------
(***************************************************************************)
(* Pairing and containment are kept by every step.                         *)
(***************************************************************************)
\* Clearing one pair leaves every other pair whole.
LEMMA ClearPaired ==
    ASSUME TypeOK, Paired, NEW h \in Handle, Live(h), ClearFHPair(h)
    PROVE  Paired'
<1> DEFINE H == {h, partner[h]}
<1>1. /\ fd' = [x \in Handle |-> IF x \in H THEN NULL ELSE fd[x]]
      /\ partner' = [x \in Handle |-> IF x \in H THEN NULL ELSE partner[x]]
  BY DEF ClearFHPair, Delete
<1>2. SUFFICES ASSUME NEW g \in Handle, fd'[g] # NULL
               PROVE  /\ partner'[g] \in Handle /\ partner'[g] # g
                      /\ fd'[partner'[g]] # NULL
                      /\ partner'[partner'[g]] = g
                      /\ fd'[partner'[g]] = Other(fd'[g])
                      /\ \A k \in Handle : fd'[k] = fd'[g] => k = g
  BY DEF Paired, Live
<1>3. g \notin H /\ fd'[g] = fd[g] /\ partner'[g] = partner[g] /\ Live(g)
  BY <1>1, <1>2 DEF Live
<1>4. /\ partner[g] \in Handle /\ partner[g] # g /\ Live(partner[g])
      /\ partner[partner[g]] = g /\ fd[partner[g]] = Other(fd[g])
      /\ \A k \in Handle : fd[k] = fd[g] => k = g
  BY <1>3, PairFacts
<1>5. partner[h] \in Handle /\ partner[partner[h]] = h
  BY PairFacts
<1>6. partner[g] \notin H
  BY <1>3, <1>4, <1>5
<1>7. /\ fd'[partner[g]] = fd[partner[g]]
      /\ partner'[partner[g]] = partner[partner[g]]
  BY <1>1, <1>4, <1>6
<1>8. ASSUME NEW k \in Handle, fd'[k] = fd'[g] PROVE k = g
  <2>1. fd'[k] = fd[k]
    BY <1>1, <1>2, <1>8
  <2> QED
    BY <1>3, <1>4, <1>8, <2>1
<1> QED
  BY <1>3, <1>4, <1>7, <1>8 DEF Live

LEMMA ClearContained ==
    ASSUME TypeOK, Paired, Contained, NEW h \in Handle, Live(h), ClearFHPair(h),
           pc' \in {"read", "arm", "write"} =>
              pc' = pc /\ cur' = cur /\ cur \notin {h, partner[h]},
           UNCHANGED started
    PROVE  Contained'
<1> DEFINE H == {h, partner[h]}
<1>1. Delete(H) /\ H \subseteq Handle
  BY PairFacts DEF ClearFHPair
<1>2. ASSUME NEW s \in Sock, interest'[s] # {}
      PROVE  \E g \in Handle : fd'[g] = s
  <2>1. interest[s] # {} /\ \A x \in H : fd[x] # s
    BY <1>1, <1>2 DEF Delete
  <2>2. PICK g \in Handle : fd[g] = s
    BY <2>1 DEF Contained, Open
  <2>3. g \notin H
    BY <2>1, <2>2
  <2> QED
    BY <1>1, <2>2, <2>3 DEF Delete
<1>3. ASSUME NEW g \in Handle, fd'[g] = NULL
      PROVE  inSave'[g] = <<>> /\ outSave'[g] = <<>> /\ outQ'[g] = <<>>
  <2>1. CASE g \in H
    BY <1>1, <2>1 DEF Delete
  <2>2. CASE g \notin H
    BY <1>1, <1>3, <2>2 DEF Delete, Contained, Live, HasOut
  <2> QED
    BY <2>1, <2>2
<1>4. ASSUME NEW g \in Handle, fd'[g] # NULL
      PROVE  fd'[g][1] \in started
  BY <1>1, <1>4 DEF Delete, Contained, Live
<1>5. ASSUME pc' \in {"read", "arm", "write"} PROVE cur' \in Handle /\ fd'[cur'] # NULL
  <2>1. cur \in Handle /\ fd[cur] # NULL
    BY <1>5 DEF Contained, Live
  <2> QED
    BY <1>1, <1>5, <2>1 DEF Delete
<1> QED
  BY <1>2, <1>3, <1>4, <1>5 DEF Contained, Open, Live, HasOut

\* The handles that are not paired yet stay apart from the pairs in every step
\* that makes no pair and leaves the main thread's own state alone.
LEMMA KeepApart ==
    ASSUME TypeOK, Apart, UNCHANGED <<started, accepting, half>>,
           connecting' \subseteq connecting,
           \A h \in Handle : ~Live(h) => fd'[h] = NULL
    PROVE  Apart'
<1>1. \A d \in Side : half[d] \in Handle \cup {NULL}
  BY DEF TypeOK
<1> QED
  BY <1>1 DEF Apart, Live

\* A hand-over makes a pair of two addresses that were free.
LEMMA HandoverInv ==
    ASSUME TypeOK, Paired, Contained, Apart, Handover
    PROVE  Paired' /\ Contained' /\ Apart'
<1>1. PICK c \in Pair, hs \in Handle, hc \in Handle :
        /\ hs # hc /\ ~Live(hs) /\ ~Live(hc)
        /\ c \notin started /\ started' = started \cup {c}
        /\ fd' = [fd EXCEPT ![hs] = <<c, "S">>, ![hc] = <<c, "C">>]
        /\ partner' = [partner EXCEPT ![hs] = hc, ![hc] = hs]
        /\ \/ pipe' = Append(pipe, <<hs, hc>>) /\ UNCHANGED connecting
           \/ connecting' = connecting \cup {c} /\ UNCHANGED pipe
        /\ accepting' = NULL /\ half' = [d \in Side |-> NULL]
        /\ UNCHANGED <<inSave, outSave, outQ, interest, rcv, snd, remote,
                       batch, pc, cur, ev, stale>>
  BY HandoverFacts
<1>2. /\ fd'[hs] = <<c, "S">> /\ fd'[hc] = <<c, "C">>
      /\ partner'[hs] = hc /\ partner'[hc] = hs
      /\ \A g \in Handle \ {hs, hc} : fd'[g] = fd[g] /\ partner'[g] = partner[g]
  BY <1>1 DEF TypeOK
<1>3. <<c, "S">> \in Sock /\ <<c, "C">> \in Sock
      /\ Other(<<c, "S">>) = <<c, "C">> /\ Other(<<c, "C">>) = <<c, "S">>
      /\ <<c, "S">> # <<c, "C">>
  BY DEF Sock, Side, Other
<1>4. \A g \in Handle : Live(g) => fd[g] # <<c, "S">> /\ fd[g] # <<c, "C">>
  BY <1>1 DEF Contained
<1>5. NULL \notin {<<c, "S">>, <<c, "C">>}
  BY <1>3, SockFacts
<1>6. ASSUME NEW g \in Handle \ {hs, hc}, Live(g)
      PROVE  /\ partner[g] \in Handle \ {hs, hc} /\ partner[g] # g
             /\ Live(partner[g]) /\ partner[partner[g]] = g
             /\ fd[partner[g]] = Other(fd[g])
             /\ \A k \in Handle : fd[k] = fd[g] => k = g
  BY <1>1, <1>6, PairFacts
<1>7. ASSUME NEW g \in Handle, fd'[g] # NULL
      PROVE  /\ partner'[g] \in Handle /\ partner'[g] # g
             /\ fd'[partner'[g]] # NULL
             /\ partner'[partner'[g]] = g
             /\ fd'[partner'[g]] = Other(fd'[g])
             /\ \A k \in Handle : fd'[k] = fd'[g] => k = g
  <2>1. CASE g = hs
    <3>1. \A k \in Handle : fd'[k] = fd'[g] => k = g
      BY <1>2, <1>3, <1>4, <1>5, <2>1 DEF Live
    <3> QED
      BY <1>1, <1>2, <1>3, <1>5, <2>1, <3>1
  <2>2. CASE g = hc
    <3>1. \A k \in Handle : fd'[k] = fd'[g] => k = g
      BY <1>2, <1>3, <1>4, <1>5, <2>2 DEF Live
    <3> QED
      BY <1>1, <1>2, <1>3, <1>5, <2>2, <3>1
  <2>3. CASE g \notin {hs, hc}
    <3>1. Live(g) /\ fd'[g] = fd[g] /\ partner'[g] = partner[g]
      BY <1>2, <1>7, <2>3 DEF Live
    <3>2. /\ partner[g] \in Handle \ {hs, hc} /\ partner[g] # g
          /\ Live(partner[g]) /\ partner[partner[g]] = g
          /\ fd[partner[g]] = Other(fd[g])
          /\ \A k \in Handle : fd[k] = fd[g] => k = g
      BY <1>6, <2>3, <3>1
    <3>3. fd'[partner[g]] = fd[partner[g]] /\ partner'[partner[g]] = g
      BY <1>2, <3>2
    <3>4. ASSUME NEW k \in Handle, fd'[k] = fd'[g] PROVE k = g
      BY <1>2, <1>4, <3>1, <3>2, <3>4
    <3> QED
      BY <3>1, <3>2, <3>3, <3>4 DEF Live
  <2> QED
    BY <2>1, <2>2, <2>3
<1>8. Paired'
  BY <1>7 DEF Paired, Live
<1>9. UNCHANGED <<inSave, outSave, outQ, interest, pc, cur>>
      /\ started' = started \cup {c}
  BY <1>1
<1>10. ASSUME NEW g \in Handle, Live(g) PROVE fd'[g] = fd[g]
  BY <1>1, <1>2, <1>10
<1>11. \A s \in Sock : interest'[s] # {} => Open(s)'
  <2> SUFFICES ASSUME NEW s \in Sock, interest[s] # {} PROVE Open(s)'
    BY <1>9
  <2>1. PICK g \in Handle : fd[g] = s
    BY DEF Contained, Open
  <2>2. Live(g)
    BY <2>1, SockFacts DEF Live
  <2> QED
    BY <1>10, <2>1, <2>2 DEF Open
<1>12. ASSUME pc' \in {"read", "arm", "write"} PROVE cur' \in Handle /\ Live(cur)'
  <2>1. cur \in Handle /\ Live(cur)
    BY <1>9, <1>12 DEF Contained
  <2> QED
    BY <1>9, <1>10, <2>1 DEF Live
<1>13. ASSUME NEW g \in Handle, fd'[g] # NULL PROVE fd'[g][1] \in started'
  BY <1>2, <1>9, <1>13 DEF Contained, Live
<1>14. ASSUME NEW g \in Handle, fd'[g] = NULL
       PROVE  inSave'[g] = <<>> /\ ~HasOut(g)'
  <2>1. ~Live(g)
    BY <1>10, <1>14 DEF Live
  <2> QED
    BY <1>9, <2>1 DEF Contained, HasOut
<1>15. Apart'
  BY <1>1 DEF Apart, Side
<1> QED
  BY <1>8, <1>11, <1>12, <1>13, <1>14, <1>15 DEF Contained, Live

\* What else the main thread does leaves the pairs whole, or clears one.
LEMMA MainInv ==
    ASSUME IInv, Main, ~Handover
    PROVE  Paired' /\ Contained' /\ Apart'
<1>1. TypeOK /\ Paired /\ Contained /\ Apart
  BY DEF IInv
<1>2. CASE Prepares
  <2>1. Apart' /\ started \subseteq started' /\ UNCHANGED <<handles, interest, pc, cur>>
    BY <1>1, <1>2, PrepareFacts
  <2>2. Contained'
    BY <1>1, <2>1 DEF Contained, Live, Open, HasOut, handles
  <2> QED
    BY <1>1, <2>1, <2>2 DEF Paired, Live, handles
<1>3. ASSUME NEW c \in Pair, OnConnected(c) \/ ConnectFreed(c)
      PROVE  Paired' /\ Contained' /\ Apart'
  <2>1. /\ connecting' \subseteq connecting
        /\ UNCHANGED <<handles, interest, started, accepting, half, cur>>
        /\ pc' = pc \/ pc' = "dead"
    BY <1>3 DEF OnConnected, ConnectFreed
  <2>2. Contained'
    BY <1>1, <2>1 DEF Contained, Live, Open, HasOut, handles
  <2>3. Apart'
    BY <1>1, <2>1, KeepApart DEF handles, Live
  <2> QED
    BY <1>1, <2>1, <2>2, <2>3 DEF Paired, Live, handles
<1>4. ASSUME NEW c \in Pair, OnConnectFailed(c) PROVE Paired' /\ Contained' /\ Apart'
  <2>1. PICK h \in Handle :
          /\ Live(h) /\ ClearFHPair(h)
          /\ pc \in {"read", "arm", "write"} => cur \notin {h, partner[h]}
    BY <1>1, <1>4, ConnectFailedFacts
  <2>2. connecting' \subseteq connecting /\ UNCHANGED <<started, accepting, half, pc, cur>>
    BY <1>4 DEF OnConnectFailed
  <2>3. Paired' /\ Contained'
    BY <1>1, <2>1, <2>2, ClearPaired, ClearContained
  <2>4. \A g \in Handle : ~Live(g) => fd'[g] = NULL
    BY <2>1 DEF ClearFHPair, Delete, Live
  <2> QED
    BY <1>1, <2>2, <2>3, <2>4, KeepApart
<1> QED
  BY <1>2, <1>3, <1>4 DEF Main, Loop, Connect, Prepares

\* Every other step leaves the handles' sockets and partners alone.
LEMMA KeepPaired ==
    ASSUME TypeOK, Paired, Apart, UNCHANGED <<fd, partner, main>>
    PROVE  Paired' /\ Apart'
<1>1. Paired'
  BY DEF Paired, Live
<1>2. Apart'
  BY KeepApart DEF Live
<1> QED
  BY <1>1, <1>2

LEMMA ThreadContained ==
    ASSUME TypeOK, Paired, Contained,
           \/ ReadPart \/ ReadFrame \/ ReadBlocked
           \/ Arm \/ WriteChunk \/ WriteBlocked \/ WriteDone \/ WriteSigpipe
    PROVE  Contained' /\ UNCHANGED <<fd, partner, main>>
<1>1. cur \in Handle /\ Live(cur) /\ UNCHANGED <<fd, partner, main>>
  BY DEF Contained, ReadPart, ReadFrame, ReadBlocked, Arm, WriteChunk,
         WriteBlocked, WriteDone, WriteSigpipe, handles
<1>2. partner[cur] \in Handle /\ Live(partner[cur])
      /\ fd[cur] \in Sock /\ fd[partner[cur]] \in Sock
  BY <1>1, PairFacts
<1>3. pc' \in {"read", "arm", "write"} => cur' = cur
  BY DEF ReadPart, ReadFrame, ReadBlocked, Arm, WriteChunk,
         WriteBlocked, WriteDone, WriteSigpipe, Continue
<1>4. ASSUME NEW g \in Handle, ~Live(g)
      PROVE  inSave'[g] = <<>> /\ ~HasOut(g)'
  <2>1. g # cur /\ g # partner[cur]
    BY <1>1, <1>2, <1>4
  <2>2. inSave'[g] = inSave[g] /\ outSave'[g] = outSave[g] /\ outQ'[g] = outQ[g]
    BY <1>1, <1>2, <2>1 DEF ReadPart, ReadFrame, ReadBlocked, Arm, WriteChunk,
           WriteBlocked, WriteDone, WriteSigpipe, handles, TypeOK
  <2> QED
    BY <1>4, <2>2 DEF Contained, HasOut
<1>5. ASSUME NEW s \in Sock, interest'[s] # {} PROVE interest[s] # {}
  BY <1>2, <1>5 DEF ReadPart, ReadFrame, ReadBlocked, Arm, WriteChunk,
         WriteBlocked, WriteDone, WriteSigpipe, TypeOK
<1> QED
  BY <1>1, <1>3, <1>4, <1>5 DEF Contained, Live, Open

LEMMA LoopContained ==
    ASSUME TypeOK, Contained,
           \/ Wait \/ DispatchPipe \/ PipeDrained \/ Adopt \/ AdoptFreed
           \/ \E e \in batch : Dispatch(e) \/ DispatchFreed(e) \/ DispatchOther(e)
    PROVE  Contained' /\ UNCHANGED <<fd, partner, main>>
<1>1. UNCHANGED <<handles, main>>
  BY DEF Wait, DispatchPipe, PipeDrained, Adopt, AdoptFreed, Dispatch, DispatchFreed,
         DispatchOther
<1>2. ASSUME pc' \in {"read", "arm", "write"} PROVE cur' \in Handle /\ Live(cur')
  BY <1>2 DEF Wait, DispatchPipe, PipeDrained, Adopt, AdoptFreed, Dispatch,
         DispatchFreed, DispatchOther, TypeOK, Event
<1>3. ASSUME NEW s \in Sock, interest'[s] # {} PROVE Open(s)
  <2>1. CASE interest[s] # {}
    BY <2>1 DEF Contained
  <2>2. CASE interest[s] = {}
    <3>1. Adopt
      BY <1>3, <2>2 DEF Wait, DispatchPipe, PipeDrained, AdoptFreed, Dispatch,
             DispatchFreed, DispatchOther
    <3>2. Head(pipe) \in Handle \X Handle
      BY <3>1, HeadTail DEF Adopt, TypeOK
    <3>3. s = fd[Head(pipe)[1]] \/ s = fd[Head(pipe)[2]]
      BY <1>3, <2>2, <3>1 DEF Adopt, TypeOK
    <3> QED
      BY <3>2, <3>3 DEF Open
  <2> QED
    BY <2>1, <2>2
<1> QED
  BY <1>1, <1>2, <1>3 DEF Contained, Live, Open, HasOut, handles

LEMMA RemoteContained ==
    ASSUME Contained, Remote \/ UNCHANGED vars
    PROVE  Contained' /\ UNCHANGED <<fd, partner, main>>
<1>1. UNCHANGED <<handles, interest, main, pc, cur>>
  BY DEF Remote, PeerSend, PeerRecv, PeerFin, PeerReset, vars
<1> QED
  BY <1>1 DEF Contained, Live, Open, HasOut, handles

-----------------------------------------------------------------------------
(***************************************************************************)
(* The invariant.                                                          *)
(***************************************************************************)
LEMMA InitInv == Init => IInv
<1> SUFFICES ASSUME Init PROVE IInv
  OBVIOUS
<1>1. \A h \in Handle : ~Live(h) /\ inSave[h] = <<>> /\ ~HasOut(h)
  BY DEF Init, Live, HasOut
<1>2. pc = "loop" /\ \A s \in Sock : interest[s] = {}
  BY DEF Init
<1>3. Apart
  BY DEF Init, Apart, Side
<1> QED
  BY <1>1, <1>2, <1>3, InitType DEF IInv, Paired, Contained

LEMMA StepInv == IInv /\ [Next]_vars => IInv'
<1> SUFFICES ASSUME IInv, [Next]_vars PROVE Paired' /\ Contained' /\ Apart'
  BY StepType DEF IInv
<1>1. TypeOK /\ Paired /\ Contained /\ Apart
  BY DEF IInv
<1>2. CASE ReadBad \/ ReadClosed \/ WriteErr \/ AdoptFailed
  <2>1. PICK h \in Handle : Live(h) /\ ClearFHPair(h)
    BY <1>2, ClearFacts
  <2>2. pc' \notin {"read", "arm", "write"} /\ UNCHANGED main
    BY <1>2 DEF ReadBad, ReadClosed, WriteErr, AdoptFailed, Continue
  <2>3. \A g \in Handle : ~Live(g) => fd'[g] = NULL
    BY <2>1 DEF ClearFHPair, Delete, Live
  <2> QED
    BY <1>1, <2>1, <2>2, <2>3, ClearPaired, ClearContained, KeepApart
<1>3. CASE Main
  BY <1>1, <1>3, HandoverInv, MainInv
<1>4. CASE \/ ReadPart \/ ReadFrame \/ ReadBlocked
           \/ Arm \/ WriteChunk \/ WriteBlocked \/ WriteDone \/ WriteSigpipe
  BY <1>1, <1>4, ThreadContained, KeepPaired
<1>5. CASE \/ Wait \/ DispatchPipe \/ PipeDrained \/ Adopt \/ AdoptFreed
           \/ \E e \in batch : Dispatch(e) \/ DispatchFreed(e) \/ DispatchOther(e)
  BY <1>1, <1>5, LoopContained, KeepPaired
<1>6. CASE Remote \/ UNCHANGED vars
  BY <1>1, <1>6, RemoteContained, KeepPaired
<1> QED
  BY <1>2, <1>3, <1>4, <1>5, <1>6 DEF Next, Thread, Read, Write, Pipe

\* The types, the pairing of handles and the containment of buffers and
\* registrations hold in every state up to the first event that meets no handle
\* at all: ClearFHPair of an allocated handle (fdhandle.cpp:61-71) frees two
\* handles, each once, and never those of two connections, whatever addresses
\* the main thread uses again.
THEOREM Invariance == Spec => []IInv
BY InitInv, StepInv, PTL DEF Spec

\* A pair, once it is made, is whole until both of its handles are freed
\* together, and the handles the main thread is still setting up, which stand in
\* the model beside the pairs, belong to none: so clearing a pair never frees a
\* handle that is not paired yet.  What an event that meets such a handle does,
\* in DispatchFreed and DispatchOther, is another matter: it ends the process or
\* is passed over (fdhandle.cpp:61-71, proxy_handler.cpp:143-188).
THEOREM SpecPaired == Spec => [](Paired /\ Apart)
<1>1. IInv => Paired /\ Apart
  BY DEF IInv
<1> QED
  BY <1>1, Invariance, PTL

-----------------------------------------------------------------------------
(***************************************************************************)
(* A connection is closed for a cause of its own.                          *)
(***************************************************************************)
\* A step that closes a socket clears the pair it belongs to.
LEMMA CloseIsClear ==
    ASSUME IInv, [Next]_vars, NEW s \in Sock, Open(s), ~Open(s)'
    PROVE  \/ /\ ReadBad \/ ReadClosed \/ WriteErr \/ AdoptFailed
              /\ pc = "pipe" \/ fd[cur] \in {s, Other(s)}
           \/ s[1] \in connecting /\ OnConnectFailed(s[1])
<1>1. TypeOK /\ Paired /\ Contained /\ Apart
  BY DEF IInv
<1>2. PICK g \in Handle : fd[g] = s
  BY DEF Open
<1>3. Live(g) /\ fd'[g] # s
  BY <1>2, SockFacts DEF Live, Open
<1>4. ASSUME NEW h \in Handle, Live(h), ClearFHPair(h)
      PROVE  fd[h] \in {s, Other(s)}
  <2>1. g \in {h, partner[h]}
    BY <1>1, <1>2, <1>3, <1>4 DEF ClearFHPair, Delete
  <2>2. fd[partner[h]] = Other(fd[h]) /\ fd[h] \in Sock
    BY <1>1, <1>4, PairFacts
  <2> QED
    BY <1>2, <2>1, <2>2, SockFacts
<1>5. CASE ReadBad \/ ReadClosed \/ WriteErr \/ AdoptFailed
  <2>1. PICK h \in Handle : Live(h) /\ ClearFHPair(h) /\ (h = cur \/ pc = "pipe")
    BY <1>5, ClearFacts
  <2> QED
    BY <1>4, <1>5, <2>1
<1>6. ASSUME NEW c \in Pair, OnConnectFailed(c)
      PROVE  s[1] \in connecting /\ OnConnectFailed(s[1])
  <2>1. PICK h \in Handle : Live(h) /\ fd[h] = <<c, "C">> /\ ClearFHPair(h)
    BY <1>1, <1>6, ConnectFailedFacts
  <2>2. fd[h] = s \/ fd[h] = Other(s)
    BY <1>4, <2>1
  <2>3. s[1] = c
    BY <2>1, <2>2 DEF Sock, Other
  <2> QED
    BY <1>6, <2>3 DEF OnConnectFailed, Connecting
<1>7. ASSUME UNCHANGED <<fd, partner>> PROVE FALSE
  BY <1>2, <1>3, <1>7
<1>8. ~Handover
  <2> SUFFICES ASSUME Handover PROVE FALSE
    OBVIOUS
  <2>1. PICK c \in Pair, hs \in Handle, hc \in Handle :
          /\ ~Live(hs) /\ ~Live(hc)
          /\ fd' = [fd EXCEPT ![hs] = <<c, "S">>, ![hc] = <<c, "C">>]
    BY <1>1, HandoverFacts
  <2>2. g # hs /\ g # hc
    BY <1>3, <2>1
  <2> QED
    BY <1>1, <1>2, <1>3, <2>1, <2>2 DEF TypeOK
<1>9. ~Prepares /\ \A c \in Pair : ~OnConnected(c) /\ ~ConnectFreed(c)
  BY <1>1, <1>7, PrepareFacts DEF OnConnected, ConnectFreed, handles
<1>10. Main => \E c \in Pair : OnConnectFailed(c)
  BY <1>8, <1>9 DEF Main, Loop, Connect, Prepares
<1> QED
  BY <1>1, <1>5, <1>6, <1>7, <1>10, ThreadContained, LoopContained, RemoteContained
     DEF Next, Thread, Read, Write, Pipe

\* Only an end of its own that shut down, reset or sent a refused frame, a failed
\* adoption, or a connect() to the broker that failed closes a connection
\* (io_processor.cpp:44-53, 73-76, 108, proxy_handler.cpp:196-202).
THEOREM SpecCloseHasCause == Spec => CloseHasCause
<1> DEFINE Cause(s) ==
      Open(s) /\ ~Open(s)' =>
         \/ pc = "pipe" \/ s[1] \in connecting
         \/ \E t \in {s, Other(s)} : peer[t] # "open" \/ Rejects(rcv[t])
<1>1. ASSUME IInv, [Next]_vars, NEW s \in Sock PROVE Cause(s)
  <2> SUFFICES ASSUME Open(s), ~Open(s)', ~(s[1] \in connecting)
               PROVE  \/ pc = "pipe"
                      \/ \E t \in {s, Other(s)} : peer[t] # "open" \/ Rejects(rcv[t])
    OBVIOUS
  <2>1. ReadBad \/ ReadClosed \/ WriteErr \/ AdoptFailed
    BY <1>1, CloseIsClear
  <2>2. pc = "pipe" \/ fd[cur] \in {s, Other(s)}
    BY <1>1, CloseIsClear
  <2>3. pc = "pipe" \/ Rejects(rcv[fd[cur]]) \/ peer[fd[cur]] # "open"
    BY <2>1 DEF ReadBad, ReadClosed, Ended, WriteErr, AdoptFailed
  <2> QED
    BY <2>2, <2>3
<1>2. IInv /\ [Next]_vars => [\A s \in Sock : Cause(s)]_vars
  BY <1>1
<1>3. Spec => [][\A s \in Sock : Cause(s)]_vars
  BY <1>2, Invariance, PTL DEF Spec
<1> QED
  BY <1>3 DEF CloseHasCause

-----------------------------------------------------------------------------
(***************************************************************************)
(* Registration for EPOLLOUT.                                              *)
(***************************************************************************)
\* OutputArmed for one handle, and all that ArmedInv says while no event has
\* gone astray.
OutArm(h) ==
    Live(h) /\ Registered(h) /\ ~(pc = "write" /\ h = cur)
      /\ ~(pc \in {"read", "arm"} /\ h = partner[cur])
    => (HasOut(h) <=> "OUT" \in interest[fd[h]])

Arms ==
    /\ \A h \in Handle : OutArm(h)
    /\ PipeInv /\ PairInv /\ BatchInv /\ CurInv /\ ConnectInv

LEMMA ArmedParts == ArmedInv <=> IInv /\ (~stale /\ pc # "dead" => Arms)
BY DEF ArmedInv, OutputArmed, Arms, OutArm, Registered

LEMMA EventFacts ==
    ASSUME TypeOK, NEW e \in batch \ {PipeEvent}
    PROVE  e.ptr \in Handle /\ e.sock \in Sock /\ e.ev \subseteq {"IN", "OUT"}
<1>1. e \in [ptr : Handle, sock : Sock, ev : SUBSET {"IN", "OUT"}]
  BY DEF TypeOK, Event
<1> QED
  BY <1>1

\* A handle at work is allocated and registered, and so is its partner.
LEMMA CurFacts ==
    ASSUME IInv, Arms, pc \in {"read", "arm", "write"}
    PROVE  \E c \in Handle, p \in Handle :
              /\ c = cur /\ p = partner[c] /\ c = partner[p] /\ c # p
              /\ Live(c) /\ Live(p) /\ fd[c] \in Sock /\ fd[p] \in Sock
              /\ Registered(c) /\ Registered(p)
<1>1. TypeOK /\ Paired /\ cur \in Handle /\ Live(cur)
  BY DEF IInv, Contained
<1>2. /\ partner[cur] \in Handle /\ partner[partner[cur]] = cur
      /\ partner[cur] # cur /\ Live(partner[cur])
      /\ fd[cur] \in Sock /\ fd[partner[cur]] \in Sock
  BY <1>1, PairFacts
<1>3. Registered(cur) /\ Registered(partner[cur])
  BY <1>1 DEF Arms, CurInv, PairInv
<1> QED
  BY <1>1, <1>2, <1>3

\* epoll_wait returns an event for a registered handle, one for each, and tells
\* of what the handle waits for.
LEMMA WaitArms ==
    ASSUME IInv, Arms, Wait
    PROVE  Arms'
<1>1. TypeOK /\ Paired /\ Contained
  BY DEF IInv
<1>2. batch' \subseteq Pending
      /\ UNCHANGED <<handles, interest, main, pipe, pc, cur, ev, stale>>
      /\ pc = "loop"
  BY DEF Wait
<1>3. ASSUME NEW e \in batch' \ {PipeEvent}
      PROVE  \E h \in Handle :
                /\ Live(h) /\ Ready(fd[h]) # {}
                /\ e = [ptr |-> h, sock |-> fd[h], ev |-> Ready(fd[h])]
  BY <1>2, <1>3 DEF Pending
<1>4. BatchInv'
  <2> SUFFICES ASSUME NEW e \in batch' \ {PipeEvent}
               PROVE  /\ e.sock[1] \in started
                      /\ \A f \in batch' \ {PipeEvent} : f.ptr = e.ptr => f = e
                      /\ fd[e.ptr] = e.sock =>
                           /\ interest[fd[e.ptr]] # {}
                           /\ "OUT" \in e.ev => "OUT" \in interest[e.sock]
    BY <1>2 DEF BatchInv, Registered, handles
  <2>1. PICK h \in Handle :
          /\ Live(h) /\ Ready(fd[h]) # {}
          /\ e = [ptr |-> h, sock |-> fd[h], ev |-> Ready(fd[h])]
    BY <1>3
  <2>2. e.ptr = h /\ e.sock = fd[h] /\ e.ev = Ready(fd[h])
    BY <2>1
  <2>3. Ready(fd[h]) \subseteq interest[fd[h]]
    BY DEF Ready
  <2>4. ASSUME NEW f \in batch' \ {PipeEvent}, f.ptr = e.ptr PROVE f = e
    <3>1. PICK g \in Handle : f = [ptr |-> g, sock |-> fd[g], ev |-> Ready(fd[g])]
      BY <1>3
    <3>2. g = h
      BY <2>2, <2>4, <3>1
    <3> QED
      BY <2>1, <3>1, <3>2
  <2> QED
    BY <1>1, <2>1, <2>2, <2>3, <2>4 DEF Contained
<1>5. (\A h \in Handle : OutArm(h)') /\ PipeInv' /\ PairInv' /\ CurInv'
  BY <1>2 DEF Arms, OutArm, PipeInv, PairInv, CurInv, Live, Registered, HasOut, handles
<1>6. ConnectInv'
  BY <1>2 DEF Arms, ConnectInv, Live, Registered, handles
<1> QED
  BY <1>4, <1>5, <1>6 DEF Arms

\* An event that meets its handle is handled with nothing else in the batch for
\* this handle, whose registration is as it was when epoll_wait returned.
LEMMA DispatchArms ==
    ASSUME IInv, Arms, NEW e \in batch, Dispatch(e), ~stale'
    PROVE  Arms'
<1>1. TypeOK /\ Paired /\ Contained
  BY DEF IInv
<1>2. e \in batch \ {PipeEvent} /\ Live(e.ptr) /\ fd[e.ptr] = e.sock /\ pc = "loop"
      /\ batch' = batch \ {e} /\ cur' = e.ptr /\ ev' = e.ev /\ pc' \in {"read", "arm"}
      /\ UNCHANGED <<fd, partner, outSave, outQ, interest, main, pipe>>
  BY DEF Dispatch, handles
<1>3. PICK c \in Handle, p \in Handle : c = e.ptr /\ p = partner[c] /\ Live(c) /\ Live(p)
  BY <1>1, <1>2, EventFacts, PairFacts
<1>4. /\ Registered(c)
      /\ "OUT" \in e.ev => "OUT" \in interest[e.sock]
      /\ \A f \in batch \ {PipeEvent} : f.ptr = c => f = e
  BY <1>2, <1>3 DEF Arms, BatchInv
<1>5. Registered(p) /\ (HasOut(p) <=> "OUT" \in interest[fd[p]])
  <2>1. Registered(p)
    BY <1>3, <1>4 DEF Arms, PairInv
  <2>2. OutArm(p)
    BY <1>3 DEF Arms
  <2> QED
    BY <1>2, <1>3, <2>1, <2>2 DEF OutArm
<1>6. CurInv'
  <2>1. \A f \in batch' \ {PipeEvent} : f.ptr # cur'
    BY <1>2, <1>3, <1>4
  <2>2. Registered(cur)' /\ ("OUT" \in ev' => "OUT" \in interest'[fd'[cur']])
    BY <1>2, <1>3, <1>4 DEF Registered
  <2>3. /\ "OUT" \in interest'[fd'[partner'[cur']]] => HasOut(partner[cur])'
        /\ outSave'[partner'[cur']] # <<>> => "OUT" \in interest'[fd'[partner'[cur']]]
    BY <1>2, <1>3, <1>5 DEF HasOut
  <2> QED
    BY <1>2, <2>1, <2>2, <2>3 DEF CurInv
<1>7. BatchInv'
  BY <1>2 DEF Arms, BatchInv, Registered
<1>8. (\A h \in Handle : OutArm(h)') /\ PipeInv' /\ PairInv' /\ ConnectInv'
  BY <1>2 DEF Arms, OutArm, PipeInv, PairInv, ConnectInv, Live, Registered, HasOut
<1> QED
  BY <1>6, <1>7, <1>8 DEF Arms

\* A frame read makes the partner, which is registered, one that has something
\* to write: Modify, in loop(), comes next.
LEMMA ReadArms ==
    ASSUME IInv, Arms, ReadPart \/ ReadFrame \/ ReadBlocked
    PROVE  Arms'
<1>1. TypeOK /\ Paired /\ Contained
  BY DEF IInv
<1>2. /\ pc = "read" /\ pc' \in {"read", "arm"}
      /\ UNCHANGED <<fd, partner, outSave, interest, main, pipe, batch, cur, ev>>
  BY DEF ReadPart, ReadFrame, ReadBlocked, handles
<1>3. PICK c \in Handle, p \in Handle :
        /\ c = cur /\ p = partner[c] /\ c = partner[p] /\ c # p
        /\ Live(c) /\ Live(p) /\ fd[c] \in Sock /\ fd[p] \in Sock
        /\ Registered(c) /\ Registered(p)
  BY <1>2, CurFacts
<1>4. /\ \A h \in Handle \ {p} : outQ'[h] = outQ[h]
      /\ outQ'[p] = outQ[p] \/ outQ'[p] # <<>>
  <2>1. CASE ReadPart \/ ReadBlocked
    BY <2>1 DEF ReadPart, ReadBlocked, handles
  <2>2. CASE ReadFrame
    <3>1. /\ \A h \in Handle \ {p} : outQ'[h] = outQ[h]
          /\ \E f : outQ'[p] = Append(outQ[p], f)
      BY <1>1, <1>3, <2>2 DEF ReadFrame, TypeOK
    <3>2. outQ[p] \in Seq(Seq(Chunk) \ {<<>>})
      BY <1>1 DEF TypeOK
    <3> QED
      BY <3>1, <3>2, AppendNonEmpty
  <2> QED
    BY <2>1, <2>2
<1>5. /\ \A h \in Handle \ {p} : HasOut(h)' <=> HasOut(h)
      /\ HasOut(p) => HasOut(p)'
  BY <1>2, <1>4 DEF HasOut
<1>6. \A h \in Handle : OutArm(h)'
  BY <1>2, <1>3, <1>5 DEF Arms, OutArm, Live, Registered
<1>7. PairInv'
  BY <1>2, <1>3, <1>5 DEF Arms, PairInv, Live, Registered
<1>8. CurInv'
  BY <1>2, <1>3, <1>5 DEF Arms, CurInv, Registered
<1>9. PipeInv' /\ BatchInv' /\ ConnectInv'
  BY <1>2 DEF Arms, PipeInv, BatchInv, ConnectInv, Live, Registered
<1> QED
  BY <1>6, <1>7, <1>8, <1>9 DEF Arms

\* Modify makes good what the frames read have changed.
LEMMA ArmArms ==
    ASSUME IInv, Arms, Arm
    PROVE  Arms'
<1>1. TypeOK /\ Paired /\ Contained
  BY DEF IInv
<1>2. /\ pc = "arm" /\ UNCHANGED <<fd, partner, outSave, outQ, main, pipe, batch>>
      /\ \/ pc' = "loop"
         \/ pc' = "write" /\ "OUT" \in ev /\ UNCHANGED <<cur, ev>>
  BY DEF Arm, Continue, handles
<1>3. PICK c \in Handle, p \in Handle :
        /\ c = cur /\ p = partner[c] /\ c = partner[p] /\ c # p
        /\ Live(c) /\ Live(p) /\ fd[c] \in Sock /\ fd[p] \in Sock
        /\ Registered(c) /\ Registered(p)
  BY <1>2, CurFacts
<1>4. interest' = IF outQ[p] # <<>> THEN [interest EXCEPT ![fd[p]] = {"IN", "OUT"}]
                                    ELSE interest
  BY <1>3 DEF Arm, hasDataOut, Registered
<1>5. /\ \A s \in Sock \ {fd[p]} : interest'[s] = interest[s]
      /\ interest'[fd[p]] # {} /\ interest[fd[p]] # {}
      /\ "OUT" \in interest[fd[p]] => "OUT" \in interest'[fd[p]]
      /\ outQ[p] # <<>> => "OUT" \in interest'[fd[p]]
      /\ outQ[p] = <<>> => interest'[fd[p]] = interest[fd[p]]
  BY <1>1, <1>3, <1>4 DEF TypeOK, Registered
<1>6. \A h \in Handle \ {p} : Live(h) => fd[h] \in Sock \ {fd[p]}
  BY <1>1, <1>3, PairFacts
<1>7. /\ "OUT" \in interest[fd[p]] => HasOut(p)
      /\ outSave[p] # <<>> => "OUT" \in interest[fd[p]]
  BY <1>2, <1>3 DEF Arms, CurInv
<1>8. HasOut(p)' <=> "OUT" \in interest'[fd[p]]
  BY <1>2, <1>5, <1>7 DEF HasOut
<1>9. ASSUME NEW h \in Handle, Live(h)
      PROVE  /\ Registered(h)' <=> Registered(h)
             /\ "OUT" \in interest[fd[h]] => "OUT" \in interest'[fd[h]]
             /\ h # p => interest'[fd[h]] = interest[fd[h]]
  BY <1>2, <1>5, <1>6, <1>9 DEF Registered
<1>10. \A h \in Handle : OutArm(h)'
  BY <1>2, <1>3, <1>8, <1>9 DEF Arms, OutArm, Live, HasOut
<1>11. PairInv'
  BY <1>1, <1>2, <1>9, PairFacts DEF Arms, PairInv, Live, HasOut
<1>12. PipeInv'
  <2>1. \A k \in DOMAIN pipe : pipe[k][1] \in Handle
    BY <1>1 DEF TypeOK
  <2>2. \A k \in DOMAIN pipe : ~Registered(pipe[k][1])'
    <3> SUFFICES ASSUME NEW k \in DOMAIN pipe PROVE ~Registered(pipe[k][1])'
      OBVIOUS
    <3>1. PICK h \in Handle : h = pipe[k][1] /\ Live(h) /\ ~Registered(h)
      BY <2>1 DEF Arms, PipeInv
    <3>2. ~Registered(h)'
      BY <1>9, <3>1
    <3> QED
      BY <1>2, <3>1, <3>2 DEF Registered
  <2> QED
    BY <1>2, <2>2 DEF Arms, PipeInv, Live, Registered
<1>13. BatchInv'
  <2> SUFFICES ASSUME NEW e \in batch \ {PipeEvent}, fd[e.ptr] = e.sock
               PROVE  /\ Registered(e.ptr)'
                      /\ "OUT" \in e.ev => "OUT" \in interest'[e.sock]
    BY <1>2 DEF Arms, BatchInv
  <2>1. e.ptr \in Handle /\ Live(e.ptr)
    BY <1>1, EventFacts, SockFacts DEF Live
  <2> QED
    BY <1>2, <1>9, <2>1 DEF Arms, BatchInv
<1>14. CurInv'
  BY <1>2, <1>3, <1>9 DEF Arms, CurInv
<1>15. ConnectInv'
  BY <1>2, <1>9 DEF Arms, ConnectInv, Live
<1> QED
  BY <1>10, <1>11, <1>12, <1>13, <1>14, <1>15 DEF Arms

\* DoWrite leaves a frame in the packet only while it waits for EPOLLOUT, and
\* stops waiting when nothing is left.
LEMMA WriteArms ==
    ASSUME IInv, Arms, WriteChunk \/ WriteBlocked \/ WriteDone
    PROVE  Arms'
<1>1. TypeOK /\ Paired /\ Contained
  BY DEF IInv
<1>2. /\ pc = "write" /\ UNCHANGED <<fd, partner, main, pipe, batch>>
      /\ \/ pc' = "loop"
         \/ WriteChunk /\ UNCHANGED <<pc, cur, ev, interest>>
  BY DEF WriteChunk, WriteBlocked, WriteDone, Continue, handles
<1>3. PICK c \in Handle, p \in Handle :
        /\ c = cur /\ p = partner[c] /\ c = partner[p] /\ c # p
        /\ Live(c) /\ Live(p) /\ fd[c] \in Sock /\ fd[p] \in Sock
        /\ Registered(c) /\ Registered(p)
  BY <1>2, CurFacts
<1>4. "OUT" \in interest[fd[c]] /\ \A e \in batch \ {PipeEvent} : e.ptr # c
  BY <1>2, <1>3 DEF Arms, CurInv
<1>5. /\ \A s \in Sock \ {fd[c]} : interest'[s] = interest[s]
      /\ interest'[fd[c]] # {} /\ interest[fd[c]] # {}
      /\ WriteDone \/ interest' = interest
  <2>1. interest[fd[c]] # {}
    BY <1>3 DEF Registered
  <2>2. CASE WriteDone
    <3>1. interest' = [interest EXCEPT ![fd[c]] = IF @ = {} THEN {} ELSE {"IN"}]
      BY <1>3, <2>2 DEF WriteDone
    <3>2. interest'[fd[c]] = {"IN"} /\ \A s \in Sock \ {fd[c]} : interest'[s] = interest[s]
      BY <1>1, <1>3, <2>1, <3>1 DEF TypeOK
    <3> QED
      BY <2>1, <2>2, <3>2
  <2>3. CASE WriteChunk \/ WriteBlocked
    <3>1. interest' = interest
      BY <2>3 DEF WriteChunk, WriteBlocked
    <3> QED
      BY <2>1, <3>1
  <2> QED
    BY <2>2, <2>3
<1>6. \A h \in Handle \ {c} : Live(h) => fd[h] \in Sock \ {fd[c]}
  BY <1>1, <1>3, PairFacts
<1>7. \A h \in Handle \ {c} : outSave'[h] = outSave[h] /\ outQ'[h] = outQ[h]
  BY <1>1, <1>3 DEF WriteChunk, WriteBlocked, WriteDone, handles, TypeOK
<1>8. pc' = "loop" => (HasOut(c)' <=> "OUT" \in interest'[fd[c]])
  <2>1. CASE WriteDone
    BY <1>1, <1>3, <1>5, <2>1 DEF WriteDone, HasOut, handles, TypeOK, Registered
  <2>2. CASE WriteBlocked
    <3>1. Frame(c) # <<>>
      BY <1>1, <1>3, <2>2, FrameFacts DEF WriteBlocked
    <3>2. outSave'[c] = Frame(c) /\ interest' = interest
      BY <1>1, <1>3, <2>2 DEF WriteBlocked, Blocked, TypeOK
    <3> QED
      BY <1>4, <3>1, <3>2 DEF HasOut
  <2>3. CASE WriteChunk
    BY <2>3 DEF WriteChunk
  <2> QED
    BY <2>1, <2>2, <2>3
<1>9. ASSUME NEW h \in Handle, Live(h)
      PROVE  /\ Registered(h)' <=> Registered(h)
             /\ h # c => interest'[fd[h]] = interest[fd[h]]
  BY <1>2, <1>5, <1>6, <1>9 DEF Registered
<1>10. ASSUME NEW h \in Handle PROVE OutArm(h)'
  <2>1. CASE h = c
    BY <1>2, <1>3, <1>8, <2>1 DEF OutArm
  <2>2. CASE h # c
    <3>1. OutArm(h) /\ (HasOut(h)' <=> HasOut(h)) /\ (Live(h)' <=> Live(h))
      BY <1>2, <1>7, <2>2 DEF Arms, HasOut, Live
    <3>2. Live(h) => /\ Registered(h)' <=> Registered(h)
                     /\ interest'[fd'[h]] = interest[fd[h]]
      BY <1>2, <1>9, <2>2
    <3> QED
      BY <1>2, <1>3, <2>2, <3>1, <3>2 DEF OutArm
  <2> QED
    BY <2>1, <2>2
<1>11. PairInv'
  <2> SUFFICES ASSUME NEW h \in Handle, Live(h)
               PROVE  /\ Registered(h)' <=> Registered(partner[h])'
                      /\ HasOut(h)' => Registered(h)'
    BY <1>2 DEF PairInv, Live, Registered
  <2>1. partner[h] \in Handle /\ Live(partner[h])
    BY <1>1, PairFacts
  <2>2. PICK g \in Handle : g = partner[h] /\ Live(g)
    BY <2>1
  <2>3. (Registered(h)' <=> Registered(h)) /\ (Registered(g)' <=> Registered(g))
    BY <1>9, <2>2
  <2>4. (Registered(h) <=> Registered(g)) /\ (HasOut(h) => Registered(h))
    BY <2>2 DEF Arms, PairInv
  <2>5. HasOut(h)' => Registered(h)
    BY <1>3, <1>7, <2>4 DEF HasOut
  <2> QED
    BY <1>2, <2>2, <2>3, <2>4, <2>5 DEF Registered
<1>12. PipeInv'
  <2>1. \A k \in DOMAIN pipe : ~Registered(pipe[k][1])'
    <3> SUFFICES ASSUME NEW k \in DOMAIN pipe PROVE ~Registered(pipe[k][1])'
      OBVIOUS
    <3>1. pipe[k][1] \in Handle
      BY <1>1 DEF TypeOK
    <3>2. PICK h \in Handle : h = pipe[k][1] /\ Live(h) /\ ~Registered(h)
      BY <3>1 DEF Arms, PipeInv
    <3>3. ~Registered(h)'
      BY <1>9, <3>2
    <3> QED
      BY <1>2, <3>2, <3>3 DEF Registered
  <2> QED
    BY <1>2, <2>1 DEF Arms, PipeInv, Live, Registered
<1>13. BatchInv'
  <2> SUFFICES ASSUME NEW e \in batch \ {PipeEvent}, fd[e.ptr] = e.sock
               PROVE  /\ Registered(e.ptr)'
                      /\ "OUT" \in e.ev => "OUT" \in interest'[e.sock]
    BY <1>2 DEF Arms, BatchInv
  <2>1. e.ptr \in Handle \ {c} /\ Live(e.ptr)
    BY <1>1, <1>4, EventFacts, SockFacts DEF Live
  <2> QED
    BY <1>2, <1>9, <2>1 DEF Arms, BatchInv
<1>14. CurInv'
  <2>1. CASE pc' = "loop"
    BY <2>1 DEF CurInv
  <2>2. CASE WriteChunk /\ UNCHANGED <<pc, cur, ev, interest>>
    BY <1>2, <2>2 DEF Arms, CurInv, Registered
  <2> QED
    BY <1>2, <2>1, <2>2
<1>15. ConnectInv'
  BY <1>2, <1>9 DEF Arms, ConnectInv, Live
<1> QED
  BY <1>10, <1>11, <1>12, <1>13, <1>14, <1>15 DEF Arms

-----------------------------------------------------------------------------
\* Steps that read a pair from the pipe, or that free handles: what is left in
\* the pipe is as it was if they free and register nothing that is in it.
LEMMA KeepPipe ==
    ASSUME TypeOK, PipeInv, NEW H,
           \/ pipe' = pipe /\ \A k \in DOMAIN pipe : pipe[k][1] \notin H
           \/ /\ pipe # <<>> /\ pipe' = Tail(pipe)
              /\ H = {Head(pipe)[1], Head(pipe)[2]},
           \A h \in Handle \ H :
               Live(h) /\ ~Registered(h)
                   => fd'[h] = fd[h] /\ partner'[h] = partner[h] /\ interest'[fd'[h]] = {}
    PROVE  PipeInv'
<1>1. pipe \in Seq(Handle \X Handle)
  BY DEF TypeOK
<1>2. ASSUME NEW k \in DOMAIN pipe, pipe[k][1] \notin H
      PROVE  /\ fd'[pipe[k][1]] # NULL /\ partner'[pipe[k][1]] = pipe[k][2]
             /\ interest'[fd'[pipe[k][1]]] = {}
  <2>1. PICK h \in Handle : h = pipe[k][1]
    BY <1>1
  <2>2. Live(h) /\ partner[h] = pipe[k][2] /\ ~Registered(h)
    BY <2>1 DEF PipeInv
  <2>3. fd'[h] = fd[h] /\ partner'[h] = partner[h] /\ interest'[fd'[h]] = {}
    BY <1>2, <2>1, <2>2
  <2> QED
    BY <2>1, <2>2, <2>3 DEF Live
<1>3. CASE pipe' = pipe /\ \A k \in DOMAIN pipe : pipe[k][1] \notin H
  BY <1>2, <1>3 DEF PipeInv, Live, Registered
<1>4. CASE pipe # <<>> /\ pipe' = Tail(pipe) /\ H = {Head(pipe)[1], Head(pipe)[2]}
  <2>1. /\ 1 \in DOMAIN pipe /\ Head(pipe) = pipe[1]
        /\ \A k \in DOMAIN pipe' :
              /\ k + 1 \in DOMAIN pipe /\ k + 1 # 1
              /\ pipe'[k] = pipe[k + 1]
              /\ \A j \in DOMAIN pipe' \ {k} : j + 1 \in DOMAIN pipe \ {k + 1}
    BY <1>1, <1>4
  <2> SUFFICES ASSUME NEW k \in DOMAIN pipe'
               PROVE  /\ fd'[pipe'[k][1]] # NULL /\ partner'[pipe'[k][1]] = pipe'[k][2]
                      /\ interest'[fd'[pipe'[k][1]]] = {}
                      /\ \A j \in DOMAIN pipe' \ {k} :
                            pipe'[j][1] \notin {pipe'[k][1], pipe'[k][2]}
    BY DEF PipeInv, Live, Registered
  <2>2. /\ k + 1 \in DOMAIN pipe /\ pipe'[k] = pipe[k + 1]
        /\ \A j \in DOMAIN pipe \ {k + 1} :
              pipe[j][1] \notin {pipe[k + 1][1], pipe[k + 1][2]}
    BY <2>1 DEF PipeInv
  <2>3. \A j \in DOMAIN pipe' \ {k} : pipe'[j][1] \notin {pipe'[k][1], pipe'[k][2]}
    BY <2>1, <2>2
  <2>4. pipe[k + 1][1] \notin H
    BY <1>4, <2>1 DEF PipeInv
  <2> QED
    BY <1>2, <2>2, <2>3, <2>4
<1> QED
  BY <1>3, <1>4

\* A pair whose socket is being connected is neither registered nor in the pipe
\* after a step that registers none of those, adds none to the pipe and makes no
\* pair.
LEMMA KeepConnect ==
    ASSUME TypeOK, ConnectInv, connecting' \subseteq connecting,
           pipe' = pipe \/ (pipe # <<>> /\ pipe' = Tail(pipe)),
           \A h \in Handle : Live(h)' /\ fd'[h][1] \in connecting =>
              Live(h) /\ fd'[h] = fd[h] /\ (Registered(h)' => Registered(h))
    PROVE  ConnectInv'
<1>1. SUFFICES ASSUME NEW h \in Handle, Live(h)', fd'[h][1] \in connecting'
               PROVE  /\ ~Registered(h)'
                      /\ \A k \in DOMAIN pipe' : h \notin {pipe'[k][1], pipe'[k][2]}
  BY DEF ConnectInv
<1>2. /\ ~Registered(h)
      /\ \A k \in DOMAIN pipe : h \notin {pipe[k][1], pipe[k][2]}
  BY <1>1 DEF ConnectInv
<1>3. ASSUME NEW k \in DOMAIN pipe' PROVE \E j \in DOMAIN pipe : pipe'[k] = pipe[j]
  <2>1. CASE pipe # <<>> /\ pipe' = Tail(pipe)
    <3>1. pipe \in Seq(Handle \X Handle)
      BY DEF TypeOK
    <3>2. k + 1 \in DOMAIN pipe /\ pipe'[k] = pipe[k + 1]
      BY <1>3, <2>1, <3>1
    <3> QED
      BY <3>2
  <2> QED
    BY <1>3, <2>1
<1> QED
  BY <1>1, <1>2, <1>3

\* The pair that is cleared: two handles that are registered, or that were never
\* seen by the thread.
Cleared(g, p) ==
    /\ Live(g) /\ p = partner[g] /\ g = partner[p] /\ Delete({g, p})
    /\ \/ /\ pc \in {"read", "write"} /\ pc' = "loop" /\ g = cur
          /\ Registered(g) /\ Registered(p) /\ pipe' = pipe
       \/ /\ pc = "pipe" /\ pc' = "pipe" /\ pipe # <<>> /\ pipe' = Tail(pipe)
          /\ {g, p} = {Head(pipe)[1], Head(pipe)[2]}
       \/ /\ UNCHANGED <<pc, cur, ev, pipe>> /\ ~Registered(g) /\ ~Registered(p)
          /\ \A k \in DOMAIN pipe : pipe[k][1] \notin {g, p}

\* The steps that clear a pair.
Clears ==
    \/ ReadBad \/ ReadClosed \/ WriteErr \/ AdoptFailed
    \/ \E c \in Pair : OnConnectFailed(c)

LEMMA ClearedPair ==
    ASSUME IInv, Arms, Clears
    PROVE  \E g \in Handle, p \in Handle : Cleared(g, p)
<1>1. TypeOK /\ Paired /\ Contained
  BY DEF IInv
<1>2. CASE ReadBad \/ ReadClosed \/ WriteErr
  <2>1. ClearFHPair(cur) /\ pc \in {"read", "write"} /\ pc' = "loop" /\ pipe' = pipe
    BY <1>2 DEF ReadBad, ReadClosed, WriteErr, Continue
  <2>2. PICK c \in Handle, q \in Handle :
          /\ c = cur /\ q = partner[c] /\ c = partner[q] /\ Live(c)
          /\ Registered(c) /\ Registered(q)
    BY <2>1, CurFacts
  <2> QED
    BY <2>1, <2>2 DEF ClearFHPair, Cleared
<1>3. CASE AdoptFailed
  <2>1. Head(pipe) \in Handle \X Handle /\ Head(pipe) = pipe[1] /\ 1 \in DOMAIN pipe
    BY <1>1, <1>3, PipeHead DEF AdoptFailed
  <2>2. PICK c \in Handle, q \in Handle : Head(pipe) = <<c, q>> /\ c = Head(pipe)[1]
    BY <2>1
  <2>3. Live(c) /\ partner[c] = q
    BY <2>1, <2>2 DEF Arms, PipeInv
  <2>4. partner[q] = c
    BY <1>1, <2>3, PairFacts
  <2>5. Delete({c, q}) /\ pc = "pipe" /\ pc' = "pipe" /\ pipe # <<>> /\ pipe' = Tail(pipe)
    BY <1>3, <2>2, <2>3 DEF AdoptFailed, ClearFHPair
  <2>6. {c, q} = {Head(pipe)[1], Head(pipe)[2]}
    BY <2>2
  <2> QED
    BY <2>3, <2>4, <2>5, <2>6 DEF Cleared
<1>4. ASSUME NEW c \in Pair, OnConnectFailed(c)
      PROVE  \E g \in Handle, p \in Handle : Cleared(g, p)
  <2>1. PICK g \in Handle : Live(g) /\ fd[g] = <<c, "C">> /\ ClearFHPair(g)
    BY <1>1, <1>4, ConnectFailedFacts
  <2>2. PICK p \in Handle : /\ p = partner[g] /\ partner[p] = g /\ Live(p)
                            /\ fd[p] = Other(fd[g])
    BY <1>1, <2>1, PairFacts
  <2>3. fd[g][1] = c /\ fd[p][1] = c
    BY <2>1, <2>2 DEF Other
  <2>4. c \in connecting /\ UNCHANGED <<pc, cur, ev, pipe>>
    BY <1>4 DEF OnConnectFailed, Connecting
  <2>5. /\ ~Registered(g) /\ ~Registered(p)
        /\ \A k \in DOMAIN pipe : pipe[k][1] \notin {g, p}
    BY <2>1, <2>2, <2>3, <2>4 DEF Arms, ConnectInv
  <2> QED
    BY <2>1, <2>2, <2>4, <2>5 DEF Cleared, ClearFHPair
<1> QED
  BY <1>2, <1>3, <1>4 DEF Clears

\* Clearing a pair touches neither the others nor their registrations.
LEMMA ClearArms ==
    ASSUME IInv, Arms, Clears
    PROVE  Arms'
<1>1. TypeOK /\ Paired /\ Contained
  BY DEF IInv
<1>2. PICK g \in Handle, p \in Handle :
        /\ Live(g) /\ p = partner[g] /\ g = partner[p] /\ Delete({g, p})
        /\ \/ /\ pc \in {"read", "write"} /\ pc' = "loop" /\ g = cur
              /\ Registered(g) /\ Registered(p) /\ pipe' = pipe
           \/ /\ pc = "pipe" /\ pc' = "pipe" /\ pipe # <<>> /\ pipe' = Tail(pipe)
              /\ {g, p} = {Head(pipe)[1], Head(pipe)[2]}
           \/ /\ UNCHANGED <<pc, cur, ev, pipe>> /\ ~Registered(g) /\ ~Registered(p)
              /\ \A k \in DOMAIN pipe : pipe[k][1] \notin {g, p}
  BY ClearedPair DEF Cleared
<1>3. /\ batch' = batch /\ started' = started /\ connecting' \subseteq connecting
      /\ \A h \in {g, p} : fd'[h] = NULL
  BY <1>2 DEF Clears, ReadBad, ReadClosed, WriteErr, AdoptFailed, OnConnectFailed, Delete
<1>4. ASSUME NEW h \in Handle \ {g, p}
      PROVE  /\ fd'[h] = fd[h] /\ partner'[h] = partner[h]
             /\ HasOut(h)' <=> HasOut(h)
             /\ Live(h) => /\ interest'[fd[h]] = interest[fd[h]]
                           /\ partner[h] \in Handle \ {g, p}
  <2>1. /\ fd'[h] = fd[h] /\ partner'[h] = partner[h]
        /\ outSave'[h] = outSave[h] /\ outQ'[h] = outQ[h]
    BY <1>2 DEF Delete
  <2>2. ASSUME Live(h)
        PROVE  interest'[fd[h]] = interest[fd[h]] /\ partner[h] \in Handle \ {g, p}
    <3>1. /\ fd[h] \in Sock /\ fd[h] # fd[g] /\ fd[h] # fd[p]
          /\ partner[h] \in Handle /\ partner[partner[h]] = h
      BY <1>1, <1>2, <2>2, PairFacts
    <3>2. interest'[fd[h]] = interest[fd[h]]
      BY <1>2, <3>1 DEF Delete
    <3> QED
      BY <1>2, <3>1, <3>2
  <2> QED
    BY <2>1, <2>2 DEF HasOut
<1>5. ASSUME NEW h \in Handle, Live(h)'
      PROVE  h \in Handle \ {g, p} /\ Live(h) /\ (Registered(h)' <=> Registered(h))
  BY <1>3, <1>4, <1>5 DEF Live, Registered
<1>11. ASSUME pc' \in {"read", "arm", "write"}
       PROVE  /\ UNCHANGED <<pc, cur, ev>>
              /\ \E c \in Handle \ {g, p}, q \in Handle \ {g, p} :
                    c = cur /\ q = partner[c] /\ Live(c) /\ Live(q) /\ Registered(c)
  <2>1. UNCHANGED <<pc, cur, ev>> /\ ~Registered(g) /\ ~Registered(p)
    BY <1>2, <1>11
  <2>2. PICK c \in Handle, q \in Handle :
          c = cur /\ q = partner[c] /\ Live(c) /\ Live(q) /\ Registered(c) /\ Registered(q)
    BY <1>11, <2>1, CurFacts
  <2> QED
    BY <2>1, <2>2
<1>6. ASSUME NEW h \in Handle PROVE OutArm(h)'
  <2> SUFFICES ASSUME Live(h)', Registered(h)',
                      ~(pc' = "write" /\ h = cur'),
                      ~(pc' \in {"read", "arm"} /\ h = partner'[cur'])
               PROVE  HasOut(h)' <=> "OUT" \in interest'[fd'[h]]
    BY DEF OutArm
  <2>1. h \in Handle \ {g, p} /\ Live(h) /\ Registered(h)
    BY <1>5
  <2>2. ~(pc = "write" /\ h = cur) /\ ~(pc \in {"read", "arm"} /\ h = partner[cur])
    <3>1. CASE pc' \in {"read", "arm", "write"}
      <4>1. UNCHANGED <<pc, cur, ev>> /\ cur \in Handle \ {g, p}
        BY <1>11, <3>1
      <4>2. partner'[cur] = partner[cur]
        BY <1>4, <4>1
      <4> QED
        BY <4>1, <4>2
    <3>2. CASE pc' \notin {"read", "arm", "write"}
      <4>1. pc \notin {"read", "arm", "write"} \/ g = cur
        BY <1>2, <3>2
      <4> QED
        BY <1>2, <2>1, <4>1
    <3> QED
      BY <3>1, <3>2
  <2>3. HasOut(h) <=> "OUT" \in interest[fd[h]]
    BY <2>1, <2>2 DEF Arms, OutArm
  <2> QED
    BY <1>4, <2>1, <2>3
<1>7. PairInv'
  <2> SUFFICES ASSUME NEW h \in Handle, fd'[h] # NULL
               PROVE  /\ interest'[fd'[h]] # {} <=> interest'[fd'[partner'[h]]] # {}
                      /\ HasOut(h)' => interest'[fd'[h]] # {}
    BY DEF PairInv, Live, Registered
  <2>1. h \in Handle \ {g, p} /\ Live(h)
    BY <1>5 DEF Live
  <2>2. PICK k \in Handle \ {g, p} : k = partner[h] /\ Live(k)
    BY <1>1, <1>4, <2>1, PairFacts
  <2>3. /\ fd'[h] = fd[h] /\ partner'[h] = k /\ fd'[k] = fd[k]
        /\ interest'[fd[h]] = interest[fd[h]] /\ interest'[fd[k]] = interest[fd[k]]
        /\ HasOut(h)' <=> HasOut(h)
    BY <1>4, <2>1, <2>2
  <2>4. /\ interest[fd[h]] # {} <=> interest[fd[k]] # {}
        /\ HasOut(h) => interest[fd[h]] # {}
    BY <2>1, <2>2 DEF Arms, PairInv, Registered
  <2> QED
    BY <2>3, <2>4
<1>8. PipeInv'
  <2>1. \/ pipe' = pipe /\ \A k \in DOMAIN pipe : pipe[k][1] \notin {g, p}
        \/ pipe # <<>> /\ pipe' = Tail(pipe) /\ {g, p} = {Head(pipe)[1], Head(pipe)[2]}
    BY <1>2 DEF Arms, PipeInv
  <2>2. \A h \in Handle \ {g, p} :
            Live(h) /\ ~Registered(h)
                => fd'[h] = fd[h] /\ partner'[h] = partner[h] /\ interest'[fd'[h]] = {}
    BY <1>4 DEF Registered
  <2>3. PipeInv
    BY DEF Arms
  <2> QED
    BY <1>1, <2>1, <2>2, <2>3, KeepPipe
<1>9. BatchInv'
  <2> SUFFICES ASSUME NEW e \in batch \ {PipeEvent}, fd'[e.ptr] = e.sock
               PROVE  /\ interest'[fd'[e.ptr]] # {}
                      /\ "OUT" \in e.ev => "OUT" \in interest'[e.sock]
    BY <1>3 DEF Arms, BatchInv, Registered
  <2>1. e.ptr \in Handle \ {g, p} /\ e.sock # NULL
    BY <1>1, <1>3, EventFacts, SockFacts
  <2>2. fd[e.ptr] = e.sock /\ Live(e.ptr) /\ interest'[e.sock] = interest[e.sock]
    BY <1>4, <2>1 DEF Live
  <2> QED
    BY <2>2 DEF Arms, BatchInv, Registered
<1>10. CurInv'
  <2> SUFFICES ASSUME pc' \in {"read", "arm", "write"} PROVE CurInv'
    BY DEF CurInv
  <2>1. UNCHANGED <<pc, cur, ev>> /\ batch' = batch
    BY <1>3, <1>11
  <2>2. PICK c \in Handle \ {g, p}, q \in Handle \ {g, p} :
          c = cur /\ q = partner[c] /\ Live(c) /\ Live(q)
    BY <1>11
  <2>3. /\ fd'[c] = fd[c] /\ partner'[c] = q /\ fd'[q] = fd[q]
        /\ interest'[fd[c]] = interest[fd[c]] /\ interest'[fd[q]] = interest[fd[q]]
        /\ HasOut(q)' <=> HasOut(q)
    BY <1>4, <2>2
  <2>4. outSave'[q] = outSave[q]
    BY <1>2, <2>2 DEF Delete
  <2> QED
    BY <2>1, <2>2, <2>3, <2>4 DEF Arms, CurInv, Registered
<1>12. ConnectInv'
  <2>1. ConnectInv
    BY DEF Arms
  <2>2. pipe' = pipe \/ (pipe # <<>> /\ pipe' = Tail(pipe))
    BY <1>2
  <2>3. \A h \in Handle : Live(h)' =>
           Live(h) /\ fd'[h] = fd[h] /\ (Registered(h)' => Registered(h))
    BY <1>4, <1>5
  <2> QED
    BY <1>1, <1>3, <2>1, <2>2, <2>3, KeepConnect
<1> QED
  BY <1>6, <1>7, <1>8, <1>9, <1>10, <1>12 DEF Arms

\* A pair that is adopted had nothing to write and no event under way.
LEMMA AdoptArms ==
    ASSUME IInv, Arms, Adopt
    PROVE  Arms'
<1>1. TypeOK /\ Paired /\ Contained
  BY DEF IInv
<1>2. PICK g \in Handle, p \in Handle :
        /\ Head(pipe) = <<g, p>> /\ p = partner[g] /\ g = partner[p] /\ g # p
        /\ Live(g) /\ Live(p) /\ fd[g] \in Sock /\ fd[p] \in Sock
        /\ interest[fd[g]] = {} /\ interest[fd[p]] = {}
        /\ interest' = [interest EXCEPT ![fd[g]] = {"IN"}, ![fd[p]] = {"IN"}]
  <2>1. Head(pipe) \in Handle \X Handle /\ Head(pipe) = pipe[1] /\ 1 \in DOMAIN pipe
    BY <1>1, PipeHead DEF Adopt
  <2>2. PICK c \in Handle, q \in Handle : Head(pipe) = <<c, q>>
    BY <2>1
  <2>3. Live(c) /\ partner[c] = q
    BY <2>1, <2>2 DEF Arms, PipeInv
  <2>4. q # c /\ partner[q] = c /\ Live(q) /\ fd[c] \in Sock /\ fd[q] \in Sock
    BY <1>1, <2>3, PairFacts
  <2>5. /\ interest[fd[c]] = {} /\ interest[fd[q]] = {}
        /\ interest' = [interest EXCEPT ![fd[c]] = {"IN"}, ![fd[q]] = {"IN"}]
    <3>1. c = Head(pipe)[1] /\ q = Head(pipe)[2]
      BY <2>2
    <3> QED
      BY <3>1 DEF Adopt
  <2> QED
    BY <2>2, <2>3, <2>4, <2>5
<1>3. /\ pc = "pipe" /\ pipe # <<>> /\ pipe' = Tail(pipe)
      /\ UNCHANGED <<fd, partner, outSave, outQ, main, batch, pc>>
  BY DEF Adopt, handles
<1>4. /\ interest'[fd[g]] = {"IN"} /\ interest'[fd[p]] = {"IN"}
      /\ \A s \in Sock \ {fd[g], fd[p]} : interest'[s] = interest[s]
  BY <1>1, <1>2 DEF TypeOK
<1>5. \A h \in Handle \ {g, p} : Live(h) => interest'[fd[h]] = interest[fd[h]]
  <2>1. \A h \in Handle \ {g, p} : Live(h) => fd[h] \in Sock \ {fd[g], fd[p]}
    BY <1>1, <1>2, PairFacts
  <2> QED
    BY <1>4, <2>1
<1>6. ~HasOut(g) /\ ~HasOut(p)
  BY <1>2 DEF Arms, PairInv, Registered
<1>7. ASSUME NEW h \in Handle PROVE OutArm(h)'
  <2>1. CASE h \in {g, p}
    <3>1. fd'[h] = fd[h] /\ interest'[fd[h]] = {"IN"} /\ ~HasOut(h)'
      BY <1>3, <1>4, <1>6, <2>1 DEF HasOut
    <3> QED
      BY <3>1 DEF OutArm
  <2>2. CASE h \notin {g, p}
    <3>1. OutArm(h)
      BY DEF Arms
    <3>2. Live(h) => interest'[fd[h]] = interest[fd[h]]
      BY <1>5, <2>2
    <3> QED
      BY <1>3, <3>1, <3>2 DEF OutArm, HasOut, Live, Registered
  <2> QED
    BY <2>1, <2>2
<1>8. PairInv'
  <2> SUFFICES ASSUME NEW h \in Handle, Live(h)
               PROVE  /\ interest'[fd[h]] # {} <=> interest'[fd[partner[h]]] # {}
                      /\ HasOut(h) => interest'[fd[h]] # {}
    BY <1>3 DEF PairInv, Live, Registered, HasOut
  <2>1. CASE h \in {g, p}
    BY <1>2, <1>4, <2>1
  <2>2. CASE h \notin {g, p}
    <3>1. PICK k \in Handle : k = partner[h] /\ Live(k) /\ partner[k] = h
      BY <1>1, PairFacts
    <3>2. k \notin {g, p}
      BY <1>2, <2>2, <3>1
    <3>3. interest'[fd[h]] = interest[fd[h]] /\ interest'[fd[k]] = interest[fd[k]]
      BY <1>5, <2>2, <3>1, <3>2
    <3> QED
      BY <3>1, <3>3 DEF Arms, PairInv, Registered
  <2> QED
    BY <2>1, <2>2
<1>9. PipeInv'
  <2>1. {g, p} = {Head(pipe)[1], Head(pipe)[2]}
    <3>1. Head(pipe)[1] = g /\ Head(pipe)[2] = p
      BY <1>2
    <3> QED
      BY <3>1
  <2>2. \A h \in Handle \ {g, p} :
            Live(h) /\ ~Registered(h)
                => fd'[h] = fd[h] /\ partner'[h] = partner[h] /\ interest'[fd'[h]] = {}
    BY <1>3, <1>5 DEF Registered
  <2>3. PipeInv
    BY DEF Arms
  <2> QED
    BY <1>1, <1>3, <2>1, <2>2, <2>3, KeepPipe
<1>10. BatchInv'
  <2> SUFFICES ASSUME NEW e \in batch \ {PipeEvent}, fd[e.ptr] = e.sock
               PROVE  /\ interest'[fd[e.ptr]] # {}
                      /\ "OUT" \in e.ev => "OUT" \in interest'[e.sock]
    BY <1>3 DEF Arms, BatchInv, Registered
  <2>1. /\ interest[fd[e.ptr]] # {}
        /\ "OUT" \in e.ev => "OUT" \in interest[e.sock]
    BY DEF Arms, BatchInv, Registered
  <2>2. e.ptr \in Handle \ {g, p} /\ Live(e.ptr)
    BY <1>1, <1>2, <2>1, EventFacts, SockFacts DEF Live
  <2> QED
    BY <1>5, <2>1, <2>2
<1>11. CurInv'
  BY <1>3 DEF CurInv
<1>12. ConnectInv'
  <2>1. ConnectInv
    BY DEF Arms
  <2>2. ASSUME NEW h \in Handle, fd'[h] # NULL, fd'[h][1] \in connecting
        PROVE  Live(h) /\ fd'[h] = fd[h] /\ (Registered(h)' => Registered(h))
    <3>1. Live(h) /\ fd'[h] = fd[h]
      BY <1>3, <2>2 DEF Live
    <3>2. h \notin {g, p}
      <4>1. 1 \in DOMAIN pipe /\ pipe[1] = <<g, p>>
        BY <1>1, <1>2, <1>3, PipeHead
      <4> QED
        BY <2>1, <2>2, <3>1, <4>1 DEF ConnectInv
    <3> QED
      BY <1>5, <3>1, <3>2 DEF Registered
  <2> QED
    BY <1>1, <1>3, <2>1, <2>2, KeepConnect DEF Live
<1> QED
  BY <1>7, <1>8, <1>9, <1>10, <1>11, <1>12 DEF Arms

\* A pair put into the pipe behind those that are there.
LEMMA AppendEntries ==
    ASSUME NEW S, NEW w \in Seq(S), NEW x, NEW v, v = Append(w, x) \/ v = w
    PROVE  \A k \in DOMAIN v : (k \in DOMAIN w /\ v[k] = w[k]) \/ v[k] = x
<1>1. CASE v = w
  BY <1>1
<1>2. CASE v = Append(w, x)
  <2>1. w \in Seq(S \cup {x})
    OBVIOUS
  <2>2. DOMAIN w = 1..Len(w) /\ DOMAIN v = 1..(Len(w) + 1) /\ Len(w) \in Nat
    BY <1>2, <2>1
  <2>3. v[Len(w) + 1] = x /\ \A k \in 1..Len(w) : v[k] = w[k]
    BY <1>2, <2>1
  <2> QED
    BY <2>2, <2>3
<1> QED
  BY <1>1, <1>2

LEMMA GrowPipe ==
    ASSUME TypeOK, PipeInv, NEW hs \in Handle, NEW hc \in Handle,
           pipe' = Append(pipe, <<hs, hc>>), interest' = interest,
           fd'[hs] # NULL, partner'[hs] = hc, interest[fd'[hs]] = {},
           \A k \in DOMAIN pipe : pipe[k][1] \notin {hs, hc} /\ pipe[k][2] \notin {hs, hc},
           \A h \in Handle : Live(h) => fd'[h] = fd[h] /\ partner'[h] = partner[h]
    PROVE  PipeInv'
<1>1. /\ pipe \in Seq(Handle \X Handle)
      /\ DOMAIN pipe' = DOMAIN pipe \cup {Len(pipe) + 1}
      /\ Len(pipe) + 1 \notin DOMAIN pipe
      /\ pipe'[Len(pipe) + 1] = <<hs, hc>>
      /\ \A k \in DOMAIN pipe : pipe'[k] = pipe[k]
  <2>1. pipe \in Seq(Handle \X Handle) /\ <<hs, hc>> \in Handle \X Handle
    BY DEF TypeOK
  <2>2. /\ Len(pipe) \in Nat /\ DOMAIN pipe = 1..Len(pipe)
        /\ DOMAIN pipe' = 1..(Len(pipe) + 1)
        /\ pipe'[Len(pipe) + 1] = <<hs, hc>>
        /\ \A k \in 1..Len(pipe) : pipe'[k] = pipe[k]
    BY <2>1
  <2> QED
    BY <2>1, <2>2
<1>2. ASSUME NEW k \in DOMAIN pipe
      PROVE  /\ fd'[pipe[k][1]] # NULL /\ partner'[pipe[k][1]] = pipe[k][2]
             /\ interest[fd'[pipe[k][1]]] = {}
  <2>1. PICK h \in Handle : h = pipe[k][1]
    BY <1>1
  <2>2. Live(h) /\ partner[h] = pipe[k][2] /\ interest[fd[h]] = {}
    BY <2>1 DEF PipeInv, Registered
  <2> QED
    BY <2>1, <2>2 DEF Live
<1>3. ASSUME NEW k \in DOMAIN pipe, NEW j \in DOMAIN pipe', j # k
      PROVE  pipe'[j][1] \notin {pipe[k][1], pipe[k][2]}
  <2>1. CASE j \in DOMAIN pipe
    BY <1>1, <1>3, <2>1 DEF PipeInv
  <2>2. CASE j = Len(pipe) + 1
    BY <1>1, <2>2
  <2> QED
    BY <1>1, <2>1, <2>2
<1> SUFFICES ASSUME NEW k \in DOMAIN pipe'
             PROVE  /\ fd'[pipe'[k][1]] # NULL /\ partner'[pipe'[k][1]] = pipe'[k][2]
                    /\ interest[fd'[pipe'[k][1]]] = {}
                    /\ \A j \in DOMAIN pipe' \ {k} :
                          pipe'[j][1] \notin {pipe'[k][1], pipe'[k][2]}
  BY DEF PipeInv, Live, Registered
<1>4. CASE k \in DOMAIN pipe
  <2>1. pipe'[k] = pipe[k]
    BY <1>1, <1>4
  <2>2. \A j \in DOMAIN pipe' \ {k} : pipe'[j][1] \notin {pipe'[k][1], pipe'[k][2]}
    BY <1>3, <1>4, <2>1
  <2> QED
    BY <1>2, <1>4, <2>1, <2>2
<1>5. CASE k = Len(pipe) + 1
  <2>1. pipe'[k][1] = hs /\ pipe'[k][2] = hc
    BY <1>1, <1>5
  <2>2. \A j \in DOMAIN pipe' \ {k} : pipe'[j][1] \notin {hs, hc}
    BY <1>1, <1>5
  <2> QED
    BY <2>1, <2>2
<1> QED
  BY <1>1, <1>4, <1>5

\* A connection handed over gets handles that nothing under way refers to, and
\* is known to epoll only once it has been adopted.
LEMMA HandoverArms ==
    ASSUME IInv, Arms, Handover
    PROVE  Arms'
<1>1. TypeOK /\ Paired /\ Contained /\ Apart
  BY DEF IInv
<1>2. PICK c \in Pair, hs \in Handle, hc \in Handle :
        /\ hs # hc /\ ~Live(hs) /\ ~Live(hc)
        /\ c \notin started /\ started' = started \cup {c}
        /\ fd' = [fd EXCEPT ![hs] = <<c, "S">>, ![hc] = <<c, "C">>]
        /\ partner' = [partner EXCEPT ![hs] = hc, ![hc] = hs]
        /\ \/ pipe' = Append(pipe, <<hs, hc>>) /\ UNCHANGED connecting
           \/ connecting' = connecting \cup {c} /\ UNCHANGED pipe
        /\ accepting' = NULL /\ half' = [d \in Side |-> NULL]
        /\ UNCHANGED <<inSave, outSave, outQ, interest, rcv, snd, remote,
                       batch, pc, cur, ev, stale>>
  BY <1>1, HandoverFacts
<1>3. /\ fd'[hs] = <<c, "S">> /\ fd'[hc] = <<c, "C">>
      /\ partner'[hs] = hc /\ partner'[hc] = hs
      /\ \A g \in Handle \ {hs, hc} : fd'[g] = fd[g] /\ partner'[g] = partner[g]
  BY <1>1, <1>2 DEF TypeOK
<1>4. /\ c \notin started /\ started' = started \cup {c}
      /\ UNCHANGED <<outSave, outQ, interest, batch, pc, cur, ev>>
  BY <1>2
<1>5. /\ <<c, "S">> \in Sock /\ <<c, "C">> \in Sock
      /\ interest[<<c, "S">>] = {} /\ interest[<<c, "C">>] = {}
  <2>1. <<c, "S">> \in Sock /\ <<c, "C">> \in Sock
    BY DEF Sock, Side
  <2>2. \A h \in Handle : fd[h] # <<c, "S">> /\ fd[h] # <<c, "C">>
    BY <1>1, <1>4, <2>1, SockFacts DEF Contained, Live
  <2> QED
    BY <1>1, <2>1, <2>2 DEF Contained, Open
<1>6. ASSUME NEW h \in Handle, Live(h)
      PROVE  /\ h \in Handle \ {hs, hc} /\ fd'[h] = fd[h] /\ partner'[h] = partner[h]
             /\ partner[h] \in Handle \ {hs, hc} /\ fd'[partner[h]] = fd[partner[h]]
  <2>1. h \in Handle \ {hs, hc}
    BY <1>2, <1>6
  <2>2. partner[h] \in Handle /\ Live(partner[h])
    BY <1>1, <1>6, PairFacts
  <2>3. partner[h] \in Handle \ {hs, hc}
    BY <1>2, <2>2
  <2> QED
    BY <1>3, <2>1, <2>3
<1>7. ~HasOut(hs) /\ ~HasOut(hc)
  BY <1>1, <1>2 DEF Contained
<1>8. ASSUME pc \in {"read", "arm", "write"}
      PROVE  /\ cur \in Handle /\ Live(cur) /\ fd'[cur] = fd[cur]
             /\ partner'[cur] = partner[cur] /\ fd'[partner[cur]] = fd[partner[cur]]
  BY <1>1, <1>6, <1>8 DEF Contained
<1>9. ASSUME NEW h \in Handle PROVE OutArm(h)'
  <2>1. CASE h \in {hs, hc}
    BY <1>3, <1>4, <1>5, <2>1 DEF OutArm, Registered
  <2>2. CASE h \notin {hs, hc}
    <3>1. OutArm(h) /\ fd'[h] = fd[h]
      BY <1>3, <2>2 DEF Arms
    <3> QED
      BY <1>4, <1>8, <3>1 DEF OutArm, HasOut, Live, Registered
  <2> QED
    BY <2>1, <2>2
<1>10. PairInv'
  <2> SUFFICES ASSUME NEW h \in Handle, fd'[h] # NULL
               PROVE  /\ interest[fd'[h]] # {} <=> interest[fd'[partner'[h]]] # {}
                      /\ HasOut(h) => interest[fd'[h]] # {}
    BY <1>4 DEF PairInv, Live, Registered, HasOut
  <2>1. CASE h \in {hs, hc}
    BY <1>3, <1>5, <1>7, <2>1
  <2>2. CASE h \notin {hs, hc}
    <3>1. Live(h)
      BY <1>3, <2>2 DEF Live
    <3>2. fd'[h] = fd[h] /\ fd'[partner'[h]] = fd[partner[h]]
      BY <1>6, <3>1
    <3> QED
      BY <3>1, <3>2 DEF Arms, PairInv, Registered
  <2> QED
    BY <2>1, <2>2
<1>11. ASSUME NEW k \in DOMAIN pipe
       PROVE  pipe[k][1] \notin {hs, hc} /\ pipe[k][2] \notin {hs, hc}
  <2>4. pipe \in Seq(Handle \X Handle)
    BY <1>1 DEF TypeOK
  <2>1. PICK h \in Handle : h = pipe[k][1]
    BY <2>4
  <2>2. Live(h) /\ partner[h] = pipe[k][2]
    BY <2>1 DEF Arms, PipeInv
  <2> QED
    BY <1>6, <2>1, <2>2
<1>14. PipeInv'
  <2>1. PipeInv
    BY DEF Arms
  <2>2. \A h \in Handle : Live(h) => fd'[h] = fd[h] /\ partner'[h] = partner[h]
    BY <1>6
  <2>3. /\ fd'[hs] # NULL /\ partner'[hs] = hc /\ interest[fd'[hs]] = {}
    BY <1>3, <1>5, SockFacts
  <2>4. CASE pipe' = Append(pipe, <<hs, hc>>)
    BY <1>1, <1>4, <1>11, <2>1, <2>2, <2>3, <2>4, GrowPipe
  <2>5. CASE pipe' = pipe
    <3>1. \A h \in Handle \ {} : Live(h) /\ ~Registered(h)
             => fd'[h] = fd[h] /\ partner'[h] = partner[h] /\ interest'[fd'[h]] = {}
      BY <1>4, <2>2 DEF Registered
    <3>2. \A k \in DOMAIN pipe : pipe[k][1] \notin {}
      OBVIOUS
    <3> QED
      BY <1>1, <2>1, <2>5, <3>1, <3>2, KeepPipe
  <2> QED
    BY <1>2, <2>4, <2>5
<1>15. ConnectInv'
  <2> SUFFICES ASSUME NEW h \in Handle, fd'[h] # NULL, fd'[h][1] \in connecting'
               PROVE  /\ interest[fd'[h]] = {}
                      /\ \A k \in DOMAIN pipe' : h \notin {pipe'[k][1], pipe'[k][2]}
    BY <1>4 DEF ConnectInv, Live, Registered
  <2>1. CASE h \in {hs, hc}
    <3>1. fd'[h][1] = c
      BY <1>3, <2>1
    <3>2. pipe' = pipe
      BY <1>1, <1>2, <1>4, <3>1 DEF Apart
    <3> QED
      BY <1>3, <1>5, <1>11, <2>1, <3>2
  <2>2. CASE h \notin {hs, hc}
    <3>1. Live(h) /\ fd'[h] = fd[h]
      BY <1>3, <2>2 DEF Live
    <3>2. fd[h][1] # c
      BY <1>1, <1>4, <3>1 DEF Contained
    <3>3. fd[h][1] \in connecting
      BY <1>2, <3>1, <3>2
    <3>4. interest[fd[h]] = {} /\ \A k \in DOMAIN pipe : h \notin {pipe[k][1], pipe[k][2]}
      BY <3>1, <3>3 DEF Arms, ConnectInv, Registered
    <3>5. ASSUME NEW k \in DOMAIN pipe' PROVE h \notin {pipe'[k][1], pipe'[k][2]}
      <4>1. pipe \in Seq(Handle \X Handle)
        BY <1>1 DEF TypeOK
      <4>2. (k \in DOMAIN pipe /\ pipe'[k] = pipe[k]) \/ pipe'[k] = <<hs, hc>>
        <5>1. pipe' = Append(pipe, <<hs, hc>>) \/ pipe' = pipe
          BY <1>2
        <5> DEFINE x == <<hs, hc>>
        <5>2. pipe' = Append(pipe, x) \/ pipe' = pipe
          BY <5>1
        <5> HIDE DEF x
        <5>3. \A i \in DOMAIN pipe' : (i \in DOMAIN pipe /\ pipe'[i] = pipe[i]) \/ pipe'[i] = x
          BY <4>1, <5>2, AppendEntries
        <5> QED
          BY <3>5, <5>3 DEF x
      <4> QED
        BY <2>2, <3>4, <4>2
    <3> QED
      BY <3>1, <3>4, <3>5
  <2> QED
    BY <2>1, <2>2
<1>12. BatchInv'
  <2> SUFFICES ASSUME NEW e \in batch \ {PipeEvent}, fd'[e.ptr] = e.sock
               PROVE  fd[e.ptr] = e.sock
    BY <1>4 DEF Arms, BatchInv, Registered
  <2>1. e.ptr \in Handle /\ e.sock[1] # c
    BY <1>1, <1>4, EventFacts DEF Arms, BatchInv
  <2> QED
    BY <1>3, <2>1
<1>13. CurInv'
  BY <1>4, <1>8 DEF Arms, CurInv, Registered, HasOut
<1> QED
  BY <1>9, <1>10, <1>12, <1>13, <1>14, <1>15 DEF Arms

\* A pair whose connection is established goes into the pipe: it was neither
\* registered nor there.
LEMMA ConnectedArms ==
    ASSUME IInv, Arms, NEW c \in Pair, OnConnected(c)
    PROVE  Arms'
<1>1. TypeOK /\ Paired
  BY DEF IInv
<1>2. PICK hs \in Handle, hc \in Handle :
        /\ Live(hs) /\ Live(hc) /\ hs = partner[hc] /\ partner[hs] = hc
        /\ fd[hc] = <<c, "C">> /\ fd[hs] = <<c, "S">>
        /\ pipe' = Append(pipe, <<hs, hc>>)
  BY <1>1, ConnectedFacts
<1>3. /\ c \in connecting /\ connecting' = connecting \ {c}
      /\ UNCHANGED <<fd, partner, outSave, outQ, interest, started, batch, pc, cur, ev>>
  BY DEF OnConnected, Connecting, handles
<1>4. /\ ~Registered(hs) /\ ~Registered(hc)
      /\ \A k \in DOMAIN pipe : pipe[k][1] \notin {hs, hc} /\ pipe[k][2] \notin {hs, hc}
  BY <1>2, <1>3 DEF Arms, ConnectInv
<1>5. PipeInv'
  <2>1. fd'[hs] # NULL /\ partner'[hs] = hc /\ interest[fd'[hs]] = {}
    BY <1>2, <1>3, <1>4 DEF Live, Registered
  <2>2. PipeInv /\ \A h \in Handle : Live(h) => fd'[h] = fd[h] /\ partner'[h] = partner[h]
    BY <1>3 DEF Arms
  <2> QED
    BY <1>1, <1>2, <1>3, <1>4, <2>1, <2>2, GrowPipe
<1>6. ConnectInv'
  <2> SUFFICES ASSUME NEW h \in Handle, Live(h), fd[h][1] \in connecting, fd[h][1] # c
               PROVE  /\ ~Registered(h)
                      /\ \A k \in DOMAIN pipe' : h \notin {pipe'[k][1], pipe'[k][2]}
    BY <1>3 DEF ConnectInv, Live, Registered
  <2>1. /\ ~Registered(h)
        /\ \A k \in DOMAIN pipe : h \notin {pipe[k][1], pipe[k][2]}
    BY DEF Arms, ConnectInv
  <2>2. h # hs /\ h # hc
    BY <1>2
  <2>3. pipe \in Seq(Handle \X Handle)
    BY <1>1 DEF TypeOK
  <2>4. ASSUME NEW k \in DOMAIN pipe' PROVE h \notin {pipe'[k][1], pipe'[k][2]}
    <3>1. (k \in DOMAIN pipe /\ pipe'[k] = pipe[k]) \/ pipe'[k] = <<hs, hc>>
      BY <1>2, <2>3, <2>4, AppendEntries
    <3> QED
      BY <2>1, <2>2, <3>1
  <2> QED
    BY <2>1, <2>4
<1>7. (\A h \in Handle : OutArm(h)') /\ PairInv' /\ BatchInv' /\ CurInv'
  BY <1>3 DEF Arms, OutArm, PairInv, BatchInv, CurInv, Live, Registered, HasOut
<1> QED
  BY <1>5, <1>6, <1>7 DEF Arms

\* Going from one of the two loops to the other, and what the remote ends do,
\* changes nothing of this.
LEMMA QuietArms ==
    ASSUME Arms, UNCHANGED <<fd, partner, outSave, outQ, interest, connecting, pipe>>,
           started \subseteq started', batch' \subseteq batch,
           \/ pc' \in {"loop", "pipe"} /\ pc \in {"loop", "pipe"}
           \/ UNCHANGED <<pc, cur, ev>>
    PROVE  Arms'
<1>1. (\A h \in Handle : OutArm(h)') /\ PipeInv' /\ PairInv' /\ ConnectInv'
  BY DEF Arms, OutArm, PipeInv, PairInv, ConnectInv, Live, Registered, HasOut
<1>2. BatchInv'
  BY DEF Arms, BatchInv, Registered
<1>3. CurInv'
  BY DEF Arms, CurInv, Registered, HasOut
<1> QED
  BY <1>1, <1>2, <1>3 DEF Arms

LEMMA InitArmed == Init => ArmedInv
<1> SUFFICES ASSUME Init PROVE IInv /\ Arms
  BY ArmedParts
<1>1. IInv
  BY InitInv
<1>2. \A h \in Handle : ~Live(h)
  BY DEF Init, Live
<1>3. pipe = <<>> /\ batch = {} /\ pc = "loop"
  BY DEF Init
<1> QED
  BY <1>1, <1>2, <1>3 DEF Arms, OutArm, PipeInv, PairInv, BatchInv, CurInv, ConnectInv

LEMMA StepArmed == ArmedInv /\ [Next]_vars => ArmedInv'
<1> SUFFICES ASSUME ArmedInv, [Next]_vars PROVE ArmedInv'
  OBVIOUS
<1>1. IInv /\ (~stale /\ pc # "dead" => Arms)
  BY ArmedParts
<1>2. IInv'
  BY <1>1, StepInv
<1>3. (ArmedInv <=> IInv /\ (~stale /\ pc # "dead" => Arms))'
  BY ArmedParts, PTL
<1>4. SUFFICES ASSUME ~stale', pc' # "dead" PROVE Arms'
  BY <1>2, <1>3
<1>5. CASE Clears
  <2>1. ~stale /\ pc # "dead"
    BY <1>4, <1>5 DEF Clears, ReadBad, ReadClosed, WriteErr, AdoptFailed, OnConnectFailed
  <2> QED
    BY <1>1, <1>5, <2>1, ClearArms
<1>6. CASE ReadPart \/ ReadFrame \/ ReadBlocked
  <2>1. ~stale /\ pc # "dead"
    BY <1>4, <1>6 DEF ReadPart, ReadFrame, ReadBlocked
  <2> QED
    BY <1>1, <1>6, <2>1, ReadArms
<1>7. CASE WriteChunk \/ WriteBlocked \/ WriteDone
  <2>1. ~stale /\ pc # "dead"
    BY <1>4, <1>7 DEF WriteChunk, WriteBlocked, WriteDone
  <2> QED
    BY <1>1, <1>7, <2>1, WriteArms
<1>8. CASE Wait \/ Arm \/ Adopt
  <2>1. ~stale /\ pc # "dead"
    BY <1>4, <1>8 DEF Wait, Arm, Adopt
  <2> QED
    BY <1>1, <1>8, <2>1, WaitArms, ArmArms, AdoptArms
<1>9. ASSUME NEW e \in batch, Dispatch(e) PROVE Arms'
  <2>1. ~stale /\ pc # "dead"
    BY <1>4, <1>9 DEF Dispatch
  <2> QED
    BY <1>1, <1>4, <1>9, <2>1, DispatchArms
<1>10. CASE Handover
  <2>1. ~stale /\ pc # "dead"
    BY <1>4, <1>10 DEF Handover
  <2> QED
    BY <1>1, <1>10, <2>1, HandoverArms
<1>13. ASSUME NEW c \in Pair, OnConnected(c) PROVE Arms'
  <2>1. ~stale /\ pc # "dead"
    BY <1>4, <1>13 DEF OnConnected
  <2> QED
    BY <1>1, <1>13, <2>1, ConnectedArms
<1>14. CASE Prepares
  <2>1. /\ UNCHANGED <<fd, partner, outSave, outQ, interest, connecting, pipe, batch,
                       pc, cur, ev, stale>>
        /\ started \subseteq started'
    BY <1>1, <1>14, PrepareFacts DEF IInv, handles
  <2> QED
    BY <1>1, <1>4, <2>1, QuietArms
<1>11. CASE DispatchPipe \/ PipeDrained \/ Remote \/ UNCHANGED vars
  <2>1. /\ UNCHANGED <<fd, partner, outSave, outQ, interest, main, pipe, stale>>
        /\ batch' \subseteq batch
        /\ \/ pc' \in {"loop", "pipe"} /\ pc \in {"loop", "pipe"}
           \/ UNCHANGED <<pc, cur, ev>>
    BY <1>11 DEF DispatchPipe, PipeDrained, Remote, PeerSend, PeerRecv, PeerFin,
                 PeerReset, vars, handles
  <2>2. ~stale /\ pc # "dead"
    BY <1>4, <2>1
  <2> QED
    BY <1>1, <2>1, <2>2, QuietArms
<1>12. /\ ~WriteSigpipe /\ ~AdoptFreed /\ \A c \in Pair : ~ConnectFreed(c)
       /\ \A e \in batch : ~DispatchFreed(e) /\ ~DispatchOther(e)
  BY <1>4 DEF WriteSigpipe, AdoptFreed, DispatchFreed, DispatchOther, ConnectFreed
<1> QED
  BY <1>5, <1>6, <1>7, <1>8, <1>9, <1>10, <1>11, <1>12, <1>13, <1>14
     DEF Next, Thread, Read, Write, Pipe, Main, Loop, Connect, Prepares, Clears

\* While no event has gone astray, the registrations, the queues, the batch and
\* the pipe agree as ArmedInv says (io_processor.cpp:30-150).
THEOREM SpecArmedInv == Spec => []ArmedInv
BY InitArmed, StepArmed, PTL DEF Spec

\* Between two events a registered handle waits for EPOLLOUT exactly when it has
\* something to write: Modify, called at two places and from hasDataOut alone,
\* neither forgets output nor leaves a handle spinning (io_processor.cpp:78-117).
THEOREM SpecOutputArmed == Spec => []OutputArmed
<1>1. ArmedInv => OutputArmed
  BY DEF ArmedInv
<1> QED
  BY <1>1, SpecArmedInv, PTL

-----------------------------------------------------------------------------
(***************************************************************************)
(* Problem 1 of Readme.txt needs a batch of two events.                    *)
(***************************************************************************)
\* The only event of a batch meets its handle, and is gone when it is handled.
Lone ==
    /\ pc \notin {"loop", "dead"} => batch = {}
    /\ \A e, f \in batch : e = f
    /\ \A e \in batch \ {PipeEvent} : fd[e.ptr] = e.sock

LoneInv == ArmedInv /\ ~stale /\ Lone

LEMMA PendingFinite == IsFiniteSet(Handle) => IsFiniteSet(Pending)
<1> SUFFICES ASSUME IsFiniteSet(Handle) PROVE IsFiniteSet(Pending)
  OBVIOUS
<1> DEFINE H == {x \in Handle : Live(x) /\ Ready(fd[x]) # {}}
           E == {[ptr |-> h, sock |-> fd[h], ev |-> Ready(fd[h])] : h \in H}
           P == {e \in {PipeEvent} : pipe # <<>>}
<1>1. IsFiniteSet(H)
  <2>1. H \subseteq Handle
    OBVIOUS
  <2> QED
    BY <2>1, FS_Subset
<1>2. IsFiniteSet(E)
  <2> DEFINE f == [h \in H |-> [ptr |-> h, sock |-> fd[h], ev |-> Ready(fd[h])]]
  <2>1. f \in Surjection(H, E)
    BY DEF Surjection
  <2> HIDE DEF H, E, f
  <2> QED
    BY <1>1, <2>1, FS_Surjection
<1>3. IsFiniteSet(P)
  <2>1. P = {} \/ P = {PipeEvent}
    OBVIOUS
  <2> QED
    <3>1. IsFiniteSet({}) /\ IsFiniteSet({PipeEvent})
      BY FS_EmptySet, FS_Singleton
    <3> QED
      BY <2>1, <3>1
<1> QED
  BY <1>2, <1>3, FS_Union DEF Pending

LEMMA InitLone == Init => LoneInv
<1> SUFFICES ASSUME Init PROVE ~stale /\ Lone
  BY InitArmed DEF LoneInv
<1>1. ~stale /\ batch = {}
  BY DEF Init
<1> QED
  BY <1>1 DEF Lone

LEMMA StepLone ==
    ASSUME MAX_EV = 1, IsFiniteSet(Handle), LoneInv, [Next]_vars
    PROVE  LoneInv'
<1>1. ArmedInv' /\ ~stale /\ Lone /\ IInv /\ TypeOK /\ Paired /\ Contained
  BY StepArmed DEF LoneInv, ArmedInv, IInv
<1>2. SUFFICES ~stale' /\ Lone'
  BY <1>1 DEF LoneInv
<1>3. CASE Wait
  <2>1. /\ batch' \subseteq Pending /\ Cardinality(batch') <= 1
        /\ UNCHANGED <<fd, stale, pc>> /\ pc = "loop"
    BY <1>3 DEF Wait, handles
  <2>2. IsFiniteSet(batch')
    BY <2>1, PendingFinite, FS_Subset
  <2>3. \A e, f \in batch' : e = f
    <3>1. CASE batch' = {}
      BY <3>1
    <3>2. CASE batch' # {}
      <4>1. Cardinality(batch') = 1
        BY <2>1, <2>2, <3>2, FS_EmptySet, FS_CardinalityType
      <4>2. PICK x : batch' = {x}
        BY <2>2, <4>1, FS_Singleton
      <4> QED
        BY <4>2
    <3> QED
      BY <3>1, <3>2
  <2>4. ASSUME NEW e \in batch' \ {PipeEvent} PROVE fd[e.ptr] = e.sock
    <3>1. PICK h \in Handle : e = [ptr |-> h, sock |-> fd[h], ev |-> Ready(fd[h])]
      BY <2>1, <2>4 DEF Pending
    <3> QED
      BY <3>1
  <2> QED
    BY <1>1, <2>1, <2>3, <2>4 DEF Lone
<1>11. ASSUME NEW e \in batch \ {PipeEvent}, pc = "loop"
       PROVE  e.ptr \in Handle /\ Live(e.ptr) /\ Registered(e.ptr)
              /\ fd[e.ptr][1] \notin connecting
  <2>1. fd[e.ptr] = e.sock /\ e.sock \in Sock /\ e.ptr \in Handle
    BY <1>1, EventFacts DEF Lone
  <2>2. Live(e.ptr)
    BY <2>1, SockFacts DEF Live
  <2>3. BatchInv /\ ConnectInv
    BY <1>1, <1>11 DEF LoneInv, ArmedInv
  <2>4. Registered(e.ptr)
    BY <2>1, <2>3 DEF BatchInv
  <2> QED
    BY <2>1, <2>2, <2>3, <2>4 DEF ConnectInv
<1>4. ASSUME NEW e \in batch,
             DispatchPipe \/ Dispatch(e) \/ DispatchFreed(e) \/ DispatchOther(e)
      PROVE  ~stale' /\ Lone'
  <2>1. batch' = {}
    BY <1>1, <1>4 DEF DispatchPipe, Dispatch, DispatchFreed, DispatchOther, Lone
  <2>2. ~stale'
    <3>1. CASE DispatchPipe
      BY <1>1, <3>1 DEF DispatchPipe
    <3>2. CASE Dispatch(e)
      BY <1>1, <3>2 DEF Dispatch, Lone
    <3>3. ~DispatchFreed(e) /\ ~DispatchOther(e)
      BY <1>11 DEF DispatchFreed, DispatchOther, FT_Connecting
    <3> QED
      BY <1>4, <3>1, <3>2, <3>3
  <2> QED
    BY <2>1, <2>2 DEF Lone
<1>5. ASSUME pc \in {"read", "arm", "write", "pipe"},
             \/ Read \/ Arm \/ Write \/ Adopt \/ AdoptFailed \/ PipeDrained
      PROVE  ~stale' /\ Lone'
  <2>1. batch' = batch /\ stale' = stale
    BY <1>5 DEF Read, ReadPart, ReadFrame, ReadBad, ReadClosed, ReadBlocked, Arm,
           Write, WriteChunk, WriteBlocked, WriteDone, WriteErr, WriteSigpipe,
           Adopt, AdoptFailed, PipeDrained
  <2>2. batch = {}
    BY <1>1, <1>5 DEF Lone
  <2> QED
    BY <1>1, <2>1, <2>2 DEF Lone
<1>6. ~AdoptFreed
  <2> SUFFICES ASSUME AdoptFreed PROVE FALSE
    OBVIOUS
  <2>1. pc = "pipe" /\ pipe # <<>> /\ \E i \in 1..2 : ~Live(Head(pipe)[i])
    BY DEF AdoptFreed
  <2>2. PipeInv
    BY <1>1, <2>1 DEF LoneInv, ArmedInv
  <2>3. Head(pipe) \in Handle \X Handle /\ Head(pipe) = pipe[1] /\ 1 \in DOMAIN pipe
    BY <1>1, <2>1, PipeHead
  <2>4. PICK c \in Handle, q \in Handle : Head(pipe) = <<c, q>>
    BY <2>3
  <2>5. Live(c) /\ partner[c] = q
    BY <2>2, <2>3, <2>4 DEF PipeInv
  <2>6. Live(q)
    BY <1>1, <2>5, PairFacts
  <2> QED
    BY <2>1, <2>4, <2>5, <2>6
<1>7. CASE Handover
  <2>1. PICK c \in Pair, hs \in Handle, hc \in Handle :
          /\ ~Live(hs) /\ ~Live(hc)
          /\ fd' = [fd EXCEPT ![hs] = <<c, "S">>, ![hc] = <<c, "C">>]
    BY <1>1, <1>7, HandoverFacts DEF IInv
  <2>2. UNCHANGED <<pc, batch, stale>>
    BY <1>7 DEF Handover
  <2>3. ASSUME NEW e \in batch \ {PipeEvent} PROVE fd'[e.ptr] = e.sock
    <3>1. e.ptr \in Handle /\ e.sock \in Sock /\ fd[e.ptr] = e.sock
      BY <1>1, EventFacts DEF Lone
    <3>2. Live(e.ptr)
      BY <3>1, SockFacts DEF Live
    <3>3. e.ptr # hs /\ e.ptr # hc
      BY <2>1, <3>2
    <3> QED
      BY <1>1, <2>1, <3>1, <3>3 DEF TypeOK
  <2> QED
    BY <1>1, <2>2, <2>3 DEF Lone
<1>12. ASSUME NEW c \in Pair, OnConnectFailed(c) PROVE ~stale' /\ Lone'
  <2>1. PICK h \in Handle : Live(h) /\ fd[h] = <<c, "C">> /\ ClearFHPair(h)
    BY <1>1, <1>12, ConnectFailedFacts
  <2>2. c \in connecting /\ pc # "dead" /\ UNCHANGED <<pc, batch, stale>>
    BY <1>12 DEF OnConnectFailed, Connecting
  <2>3. ASSUME NEW e \in batch \ {PipeEvent} PROVE fd'[e.ptr] = e.sock
    <3>1. fd[e.ptr] = e.sock
      BY <1>1 DEF Lone
    <3>5. pc = "loop"
      BY <1>1, <2>2, <2>3 DEF Lone
    <3>2. e.ptr \in Handle /\ fd[e.ptr][1] \notin connecting
      BY <1>11, <2>3, <3>5
    <3>3. fd[partner[h]] = Other(fd[h])
      BY <1>1, <2>1, PairFacts
    <3>4. e.ptr \notin {h, partner[h]}
      BY <2>1, <2>2, <3>2, <3>3 DEF Other
    <3> QED
      BY <2>1, <3>1, <3>2, <3>4 DEF ClearFHPair, Delete
  <2> QED
    BY <1>1, <2>2, <2>3 DEF Lone
<1>13. ASSUME Prepares \/ \E c \in Pair : OnConnected(c) \/ ConnectFreed(c)
       PROVE  ~stale' /\ Lone'
  <2>1. UNCHANGED <<fd, batch, stale>> /\ (pc' = pc \/ pc' = "dead")
    BY <1>1, <1>13, PrepareFacts DEF IInv, OnConnected, ConnectFreed, Connecting, handles
  <2> QED
    BY <1>1, <2>1 DEF Lone
<1>8. CASE Remote \/ UNCHANGED vars
  <2>1. UNCHANGED <<fd, pc, batch, stale>>
    BY <1>8 DEF Remote, PeerSend, PeerRecv, PeerFin, PeerReset, vars, handles
  <2> QED
    BY <1>1, <2>1 DEF Lone
<1>9. DispatchPipe => \E e \in batch : DispatchPipe
  BY DEF DispatchPipe
<1>10. Read \/ Arm \/ Write \/ Adopt \/ AdoptFailed \/ PipeDrained
          => pc \in {"read", "arm", "write", "pipe"}
  BY DEF Read, ReadPart, ReadFrame, ReadBad, ReadClosed, ReadBlocked, Arm,
         Write, WriteChunk, WriteBlocked, WriteDone, WriteErr, WriteSigpipe,
         Adopt, AdoptFailed, PipeDrained
<1> QED
  BY <1>3, <1>4, <1>5, <1>6, <1>7, <1>8, <1>9, <1>10, <1>12, <1>13
     DEF Next, Thread, Pipe, Main, Loop, Connect, Prepares

\* If epoll_wait returned one event at a time, no event would ever meet a handle
\* that was freed, or that was allocated anew at the same address: Problem 1 of
\* Readme.txt is due to MAX_EV alone, and not to the pipe or to the reuse of
\* addresses (multiplexer.cpp, io_processor.cpp:54-117).
THEOREM NoStaleWithoutBatches ==
    ASSUME MAX_EV = 1, IsFiniteSet(Handle)
    PROVE  Spec => []NoStaleDispatch
<1>1. LoneInv /\ [Next]_vars => LoneInv'
  BY StepLone
<1>2. LoneInv => NoStaleDispatch
  BY DEF LoneInv, NoStaleDispatch
<1> QED
  BY <1>1, <1>2, InitLone, PTL DEF Spec
=============================================================================
