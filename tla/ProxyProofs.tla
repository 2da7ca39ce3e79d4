---------------------------- MODULE ProxyProofs ----------------------------
(***************************************************************************)
(* Proofs about Proxy, for any number of clients, processors, addresses    *)
(* and places in a pipe and whatever fails: that the first stale event of  *)
(* a thread is of a connection it has cleared itself, and that the threads *)
(* pass connections from hand to hand as Custody says, stale events that   *)
(* strike the connections of others included.                              *)
(***************************************************************************)
EXTENDS Proxy, HandoffProofs

\* The inductive invariant.
PInv == PTypeOK /\ IInv /\ StaleOnlyByOwn

\* A step of the processes that Handoff has: the main thread, the adoption of
\* a connection, clients and the broker.
Plain ==
    \/ Main \/ \E i \in Proc : Adopt(i)
    \/ \E c \in Conn : Arrive(c) \/ Answer(c)

LEMMA PlainNext == Plain => Next
BY DEF Plain, Next

-----------------------------------------------------------------------------
(***************************************************************************)
(* Types.                                                                  *)
(***************************************************************************)
LEMMA PInitInv == PInit => PInv
<1> SUFFICES ASSUME PInit PROVE PInv
  OBVIOUS
<1>1. IInv
  <2>1. pipeReg \in [Proc -> {"null", "none"}]
    BY DEF PInit
  <2> QED
    BY <2>1, Initial DEF PInit
<1>2. PTypeOK
  BY <1>1, ProcFacts DEF PInit, PTypeOK, Stage, IInv
<1>3. StaleOnlyByOwn
  <2>1. batch = {} /\ \A i \in Proc : events[i] = {}
    BY DEF PInit, Idle
  <2> QED
    BY <2>1 DEF StaleOnlyByOwn
<1> QED
  BY <1>1, <1>2, <1>3 DEF PInv

LEMMA RoundType ==
    ASSUME PTypeOK, NEW stage \in Stage, Round(stage)
    PROVE  boot' \in Stage /\ index' \in Proc
BY ProcFacts DEF PTypeOK, Round

\* The invariant of Handoff does not mind what registration AddPipe leaves.
LEMMA RegisteredInv ==
    ASSUME IInv, pipeReg' \in [Proc -> {"null", "armed", "off", "none"}],
           UNCHANGED <<sockets, pairOf, outQ, outSave, pipe, loop, owned, history>>
    PROVE  IInv'
<1>1. UNCHANGED <<client, broker, net, type, watch, mpc, batch, windex, queued, taken>>
  BY DEF sockets, loop, history
<1>2. TypeOK'
  BY <1>1 DEF IInv, TypeOK
<1>3. \A i : OnTheWay(i)' = OnTheWay(i)
  BY DEF OnTheWay
<1>4. Routed'
  BY <1>3 DEF IInv, Routed
<1>5. \A c \in Conn : Held(c)'
  <2> SUFFICES ASSUME NEW c \in Conn PROVE Held(c)'
    OBVIOUS
  <2>1. Untouched(c)
    BY <1>1 DEF Untouched
  <2> QED
    BY <2>1, HeldUntouched DEF IInv
<1> QED
  BY <1>2, <1>4, <1>5 DEF IInv

-----------------------------------------------------------------------------
(***************************************************************************)
(* A connection that a processor serves is touched by nobody else.         *)
(***************************************************************************)
LEMMA OwnedIsOpen ==
    ASSUME IInv, NEW i \in Proc, NEW c \in owned[i]
    PROVE  /\ c \in Conn /\ client[c] = "open" /\ watch[c] = "off"
           /\ \A a \in PairAddr : pairOf[a] # c
<1>1. c \in Conn
  BY DEF IInv, TypeOK
<1>2. Held(c) /\ ServedNow(c)
  BY <1>1 DEF IInv, ServedNow
<1> QED
  BY <1>1, <1>2 DEF Held, Paired

LEMMA OwnedStays ==
    ASSUME IInv, Plain, NEW i \in Proc, NEW c \in owned[i]
    PROVE  c \in owned'[i] /\ client'[c] = "open"
<1>1. /\ c \in Conn /\ client[c] = "open" /\ watch[c] = "off"
      /\ \A a \in PairAddr : pairOf[a] # c
  BY OwnedIsOpen
<1>2. ASSUME Untouched(c) PROVE c \in owned'[i] /\ client'[c] = "open"
  BY <1>1, <1>2 DEF Untouched
<1>3. ASSUME NEW d \in Conn, Accept(d) PROVE Untouched(c)
  <2>1. client[d] = "backlog"
    BY <1>3 DEF Accept, AcceptFailed, AcceptNoSocket, AcceptRefused, AcceptConnected,
                AcceptConnecting
  <2> QED
    BY <1>1, <1>3, <2>1, AcceptHeld
<1>4. ASSUME NEW d \in Conn, Connect(d) PROVE Untouched(c)
  <2>1. <<"connect", d>> \in batch
    BY <1>4 DEF Connect, OnConnected, OnConnectFailed, Handle
  <2>2. watch[d] = "fired"
    BY <2>1 DEF IInv, Held
  <2> QED
    BY <1>1, <1>4, <2>2, ConnectHeld
<1>5. ASSUME NEW j \in Proc, Adopt(j) PROVE Untouched(c)
  <2>1. pipe[j] # <<>>
    BY <1>5 DEF Adopt, Take, TakeFailed
  <2>2. pairOf[Head(pipe[j])] # c
    BY <1>1, <2>1, HeadType
  <2> QED
    BY <1>1, <1>5, <2>2, AdoptHeld
<1>6. ASSUME \/ Wait \/ EventsDone \/ WritePtr \/ PipeFull \/ PipeDone
             \/ \E j \in Proc : OnPipe(j)
             \/ \E d \in Conn : Arrive(d) \/ Answer(d)
      PROVE  Untouched(c)
  <2>1. ~Arrive(c)
    BY <1>1 DEF Arrive
  <2> QED
    BY <1>1, <1>6, <2>1, OtherHeld
<1> QED
  BY <1>2, <1>3, <1>4, <1>5, <1>6 DEF Plain, Main

\* Events of the main thread are of connections it has.
LEMMA BatchOwn ==
    ASSUME IInv, NEW c \in Conn, <<"connect", c>> \in batch
    PROVE  client[c] = "open" /\ \A i \in Proc : c \notin owned[i]
<1>1. Held(c)
  BY DEF IInv
<1> QED
  BY <1>1 DEF Held, ServedNow

\* What StaleOnlyByOwn says of the processors.
Own ==
    \A i \in Proc : \A e \in events[i] \cap SockEvent :
        \/ client[e[1]] = "open" /\ e[1] \in owned[i]
        \/ e[1] \in cleared[i] \cup struck

LEMMA OwnSuffices == IInv /\ Own => StaleOnlyByOwn
BY BatchOwn DEF Own, StaleOnlyByOwn

-----------------------------------------------------------------------------
(***************************************************************************)
(* The steps.                                                              *)
(***************************************************************************)
\* A processor's step, or one of main(), that leaves Handoff alone.
LEMMA SameInv ==
    ASSUME IInv, UNCHANGED vars
    PROVE  IInv'
BY Step

LEMMA CollectInv ==
    ASSUME PInv, NEW i \in Proc, Collect(i)
    PROVE  PInv'
<1>1. IInv'
  BY SameInv DEF Collect, PInv
<1>2. PICK S \in SUBSET {e \in SockEvent : e[1] \in owned[i]} :
          events' = [events EXCEPT ![i] =
              S \cup {e \in {PipeEvent} : thread[i] = "ready" /\ pipe[i] # <<>>}]
  BY DEF Collect
<1>3. /\ UNCHANGED <<boot, index, listening, stranded, thread, inPipe, since, struck>>
      /\ UNCHANGED <<client, owned>>
      /\ cleared' = [cleared EXCEPT ![i] = {}]
  BY DEF Collect, vars, sockets, starting, reuse
<1>4. /\ events \in [Proc -> SUBSET (SockEvent \cup {PipeEvent})]
      /\ cleared \in [Proc -> SUBSET Conn]
  BY DEF PInv, PTypeOK
<1>5. PTypeOK'
  BY <1>1, <1>2, <1>3, <1>4 DEF PInv, PTypeOK, IInv
<1>6. \A e \in SockEvent : e # PipeEvent
  BY DEF SockEvent, PipeEvent
<1>7. ASSUME NEW j \in Proc, NEW e \in events'[j] \cap SockEvent
      PROVE  \/ client'[e[1]] = "open" /\ e[1] \in owned'[j]
             \/ e[1] \in cleared'[j] \cup struck'
  <2>1. CASE j = i
    <3>1. e[1] \in owned[i]
      BY <1>2, <1>4, <1>6, <1>7, <2>1
    <3> QED
      BY <1>3, <2>1, <3>1, OwnedIsOpen DEF PInv
  <2>2. CASE j # i
    BY <1>2, <1>3, <1>4, <1>7, <2>2 DEF PInv, StaleOnlyByOwn
  <2> QED
    BY <2>1, <2>2
<1>8. Own'
  BY <1>7 DEF Own
<1>9. (IInv /\ Own)' => StaleOnlyByOwn'
  BY OwnSuffices, PTL
<1> QED
  BY <1>1, <1>5, <1>8, <1>9 DEF PInv

\* The other steps that leave Handoff alone, and the end of the process.
LEMMA QuietInv ==
    ASSUME PInv, UNCHANGED vars, UNCHANGED <<cleared, struck>>, PTypeOK',
           \A i \in Proc : events'[i] \subseteq events[i]
    PROVE  PInv'
<1>1. IInv'
  BY SameInv DEF PInv
<1>2. Own'
  <2>1. UNCHANGED <<client, owned>>
    BY DEF vars, sockets
  <2> QED
    BY <2>1 DEF PInv, StaleOnlyByOwn, Own
<1>3. (IInv /\ Own)' => StaleOnlyByOwn'
  BY OwnSuffices, PTL
<1> QED
  BY <1>1, <1>2, <1>3 DEF PInv

LEMMA HandledInv ==
    ASSUME PInv, NEW i \in Proc, NEW e, Handling(i, e)
    PROVE  /\ events' \in [Proc -> SUBSET (SockEvent \cup {PipeEvent})]
           /\ \A j \in Proc : events'[j] \subseteq events[j]
BY DEF PInv, PTypeOK, Handling

LEMMA MainQuiet ==
    ASSUME PInv, InitHandler \/ RunProcessor
    PROVE  PInv'
<1>1. PTypeOK /\ UNCHANGED vars /\ IInv
  BY DEF PInv, InitHandler, RunProcessor
<1>2. TypeOK' /\ UNCHANGED <<stranded, events, inPipe, cleared, since, struck>>
  BY <1>1, SameInv DEF InitHandler, RunProcessor, workers, reuse, IInv
<1>3. CASE InitHandler
  <2>1. boot' \in Stage /\ index' \in Proc /\ listening' \in BOOLEAN
    BY <1>1, <1>3, ProcFacts DEF InitHandler, Exit, Stage, PTypeOK
  <2>2. PTypeOK'
    BY <1>1, <1>2, <1>3, <2>1 DEF InitHandler, workers, PTypeOK
  <2> QED
    BY <1>1, <1>2, <2>2, QuietInv
<1>4. CASE RunProcessor
  <2>1. boot' \in Stage /\ index' \in Proc
    BY <1>1, <1>4, RoundType DEF RunProcessor, Stage
  <2>2. thread' \in [Proc -> {"none", "deaf", "ready"}]
    BY <1>1, <1>4 DEF RunProcessor, PTypeOK
  <2>3. PTypeOK'
    BY <1>1, <1>2, <1>4, <2>1, <2>2 DEF PTypeOK, RunProcessor
  <2> QED
    BY <1>1, <1>2, <2>3, QuietInv
<1> QED
  BY <1>3, <1>4

LEMMA WorkerQuiet ==
    ASSUME PInv, NEW i \in Proc,
           \/ OnPipeEvent(i) \/ PipeDrained(i)
           \/ \E e \in SockEvent : Relayed(i, e) \/ UseFreed(i, e) \/ PassedOver(i, e)
    PROVE  PInv'
<1>1. /\ PTypeOK /\ UNCHANGED vars /\ IInv
      /\ UNCHANGED <<index, listening, stranded, thread, cleared, since, struck>>
  BY DEF PInv, OnPipeEvent, PipeDrained, Relayed, UseFreed, PassedOver, Stale, starting, reuse
<1>2. TypeOK'
  BY <1>1, SameInv DEF IInv
<1>3. boot' \in Stage /\ inPipe' \in [Proc -> BOOLEAN]
  BY <1>1 DEF OnPipeEvent, PipeDrained, Relayed, UseFreed, PassedOver, starting, PTypeOK, Stage
<1>4. /\ events' \in [Proc -> SUBSET (SockEvent \cup {PipeEvent})]
      /\ \A j \in Proc : events'[j] \subseteq events[j]
  <2>1. CASE PipeDrained(i)
    BY <1>1, <2>1 DEF PipeDrained, PTypeOK
  <2> QED
    BY <2>1, HandledInv DEF OnPipeEvent, Relayed, UseFreed, PassedOver, Stale
<1>5. PTypeOK'
  BY <1>1, <1>2, <1>3, <1>4 DEF PTypeOK
<1> QED
  BY <1>1, <1>4, <1>5, QuietInv

LEMMA MakePipeInv ==
    ASSUME PInv, MakePipe
    PROVE  PInv'
<1>1. /\ PTypeOK /\ IInv /\ UNCHANGED <<listening, stranded, workers, reuse>>
      /\ UNCHANGED <<sockets, pairOf, outQ, outSave, pipe, loop, owned, history>>
  BY DEF PInv, MakePipe
<1>2. pipeReg' \in [Proc -> {"null", "armed", "off", "none"}]
  BY <1>1 DEF MakePipe, AddPipe, PTypeOK, TypeOK
<1>3. IInv'
  BY <1>1, <1>2, RegisteredInv
<1>4. boot' \in Stage /\ index' \in Proc
  BY <1>1, RoundType DEF MakePipe, Exit, Stage, PTypeOK
<1>5. PTypeOK'
  BY <1>1, <1>3, <1>4 DEF PTypeOK, workers, reuse, IInv
<1>6. Own'
  BY <1>1 DEF PInv, StaleOnlyByOwn, Own, workers, reuse, sockets
<1>7. (IInv /\ Own)' => StaleOnlyByOwn'
  BY OwnSuffices, PTL
<1> QED
  BY <1>3, <1>5, <1>6, <1>7 DEF PInv

LEMMA PlainInv ==
    ASSUME PInv, Plain, UNCHANGED <<starting, workers, struck>>,
           since' \in [Conn -> SUBSET Conn]
    PROVE  PInv'
<1>1. IInv'
  BY PlainNext, Step DEF PInv
<1>2. PTypeOK'
  BY <1>1 DEF PInv, PTypeOK, starting, workers, IInv
<1>3. Own'
  <2> SUFFICES ASSUME NEW i \in Proc, NEW e \in events[i] \cap SockEvent
               PROVE  \/ client'[e[1]] = "open" /\ e[1] \in owned'[i]
                      \/ e[1] \in cleared[i] \cup struck
    BY DEF Own, workers
  <2>1. CASE e[1] \in owned[i]
    BY <2>1, OwnedStays DEF PInv
  <2>2. CASE e[1] \notin owned[i]
    BY <2>2 DEF PInv, StaleOnlyByOwn
  <2> QED
    BY <2>1, <2>2
<1>4. (IInv /\ Own)' => StaleOnlyByOwn'
  BY OwnSuffices, PTL
<1> QED
  BY <1>1, <1>2, <1>3, <1>4 DEF PInv

\* Processor i handles an event that clears connection c of processor j, and
\* remembers it as cleared by itself or as struck.
LEMMA RetiredInv ==
    ASSUME PInv, NEW i \in Proc, NEW j \in Proc, NEW e \in SockEvent, NEW c \in Conn,
           Handling(i, e), Retire(j, c), UNCHANGED <<starting, thread, inPipe, since>>,
           cleared' = [cleared EXCEPT ![i] = @ \cup {x \in {c} : i = j}],
           struck' = struck \cup {x \in {c} : i # j}
    PROVE  PInv'
<1>1. /\ \A k \in Proc : events'[k] \subseteq events[k]
      /\ events' \in [Proc -> SUBSET (SockEvent \cup {PipeEvent})]
  BY HandledInv
<1>2. IInv'
  BY Step DEF PInv, Next
<1>3. /\ cleared \in [Proc -> SUBSET Conn] /\ owned \in [Proc -> SUBSET Conn]
      /\ client \in [Conn -> {"none", "backlog", "open", "closed"}]
      /\ struck \subseteq Conn
  BY DEF PInv, PTypeOK, TypeOK
<1>4. cleared' \in [Proc -> SUBSET Conn] /\ struck' \subseteq Conn
  BY <1>3
<1>5. PTypeOK'
  BY <1>1, <1>2, <1>4 DEF PInv, PTypeOK, starting, IInv
<1>6. Own'
  <2> SUFFICES ASSUME NEW k \in Proc, NEW f \in events'[k] \cap SockEvent
               PROVE  \/ client'[f[1]] = "open" /\ f[1] \in owned'[k]
                      \/ f[1] \in cleared'[k] \cup struck'
    BY DEF Own
  <2>1. /\ client' = [client EXCEPT ![c] = "closed"]
        /\ owned' = [owned EXCEPT ![j] = @ \ {c}] /\ c \in owned[j]
    BY DEF Retire, Disown
  <2>2. /\ f \in events[k] \cap SockEvent /\ f[1] \in Conn
        /\ \/ client[f[1]] = "open" /\ f[1] \in owned[k]
           \/ f[1] \in cleared[k] \cup struck
    BY <1>1 DEF PInv, StaleOnlyByOwn, SockEvent
  <2>3. f[1] \in cleared[k] \cup struck => f[1] \in cleared'[k] \cup struck'
    BY <1>3
  <2>4. CASE f[1] # c
    BY <1>3, <2>1, <2>2, <2>3, <2>4
  <2>5. CASE f[1] = c /\ i = j
    <3>1. k # j => c \notin owned[k]
      BY <2>1 DEF PInv, IInv, Held
    <3> QED
      BY <1>3, <2>2, <2>3, <2>5, <3>1
  <2>6. CASE f[1] = c /\ i # j
    BY <2>6
  <2> QED
    BY <2>4, <2>5, <2>6
<1>7. (IInv /\ Own)' => StaleOnlyByOwn'
  BY OwnSuffices, PTL
<1> QED
  BY <1>2, <1>5, <1>6, <1>7 DEF PInv

LEMMA ClearedInv ==
    ASSUME PInv, NEW i \in Proc, NEW e \in SockEvent, Cleared(i, e)
    PROVE  PInv'
<1>1. PICK c \in Conn : c = e[1]
  BY DEF SockEvent
<1>2. /\ Handling(i, e) /\ Retire(i, c) /\ UNCHANGED <<starting, thread, inPipe, since>>
      /\ cleared' = [cleared EXCEPT ![i] = @ \cup {c}] /\ struck' = struck
  BY <1>1 DEF Cleared, reuse
<1>3. {x \in {c} : i = i} = {c} /\ {x \in {c} : i # i} = {}
  OBVIOUS
<1>4. /\ cleared' = [cleared EXCEPT ![i] = @ \cup {x \in {c} : i = i}]
      /\ struck' = struck \cup {x \in {c} : i # i}
  BY <1>2, <1>3
<1> QED
  BY <1>2, <1>4, RetiredInv

LEMMA StrikesInv ==
    ASSUME PInv, NEW i \in Proc, NEW e \in SockEvent, NEW j \in Proc, NEW c \in Conn,
           Strikes(i, e, j, c)
    PROVE  PInv'
BY RetiredInv DEF Strikes, Stale

\* A client that nobody accepts.
LEMMA StrandedInv ==
    ASSUME PInv, NEW c \in Conn, ConnectedInVain(c)
    PROVE  PInv'
<1>1. PTypeOK /\ UNCHANGED vars /\ UNCHANGED <<boot, index, listening, workers, reuse>>
  BY DEF PInv, ConnectedInVain
<1>2. TypeOK'
  BY <1>1, SameInv DEF PInv, IInv
<1>3. PTypeOK'
  BY <1>1, <1>2 DEF PTypeOK, ConnectedInVain, workers, reuse
<1> QED
  BY <1>1, <1>3, QuietInv DEF workers, reuse

LEMMA PStep == PInv /\ [PNext]_pvars => PInv'
<1> SUFFICES ASSUME PInv, [PNext]_pvars PROVE PInv'
  OBVIOUS
<1>0. since \in [Conn -> SUBSET Conn]
  BY DEF PInv, PTypeOK
<1>1. ASSUME Loop PROVE PInv'
  <2>1. since' \in [Conn -> SUBSET Conn]
    BY <1>0, <1>1 DEF Loop, Closed
  <2> QED
    BY <1>1, <2>1, PlainInv DEF Loop, Plain
<1>2. ASSUME NEW i \in Proc, ReadPipe(i) PROVE PInv'
  BY <1>0, <1>2, PlainInv DEF ReadPipe, Plain, reuse
<1>3. ASSUME NEW c \in Conn, Connected(c) \/ ConnectedInVain(c) \/ Answered(c) PROVE PInv'
  BY <1>0, <1>3, PlainInv, StrandedInv DEF Connected, Answered, Plain, reuse
<1>4. CASE Start
  BY <1>4, MainQuiet, MakePipeInv DEF Start
<1>5. ASSUME NEW i \in Proc, Worker(i) PROVE PInv'
  BY <1>2, <1>5, CollectInv, WorkerQuiet, ClearedInv, StrikesInv DEF Worker
<1>6. CASE UNCHANGED pvars
  <2>1. /\ UNCHANGED vars /\ UNCHANGED <<boot, index, thread, events, inPipe, cleared>>
        /\ UNCHANGED <<listening, stranded, since, struck>>
    BY <1>6 DEF pvars, starting, workers, reuse
  <2>2. PTypeOK'
    BY <2>1, SameInv DEF PInv, PTypeOK, IInv
  <2> QED
    BY <2>1, <2>2, QuietInv
<1> QED
  BY <1>1, <1>3, <1>4, <1>5, <1>6 DEF PNext

LEMMA PInvariance == PSpec => []PInv
BY PInitInv, PStep, PTL DEF PSpec

\* Every variable of the process keeps to its type (main.cpp, processor.cpp).
THEOREM SpecTypeOK == PSpec => []PTypeOK
<1>1. PInv => PTypeOK
  BY DEF PInv
<1> QED
  BY <1>1, PInvariance, PTL

\* An event is of an open connection that the same thread has, unless that
\* processor cleared it since it last called epoll_wait or a stale event struck
\* it: nothing is freed under another thread until an event is stale.
THEOREM SpecStaleOnlyByOwn == PSpec => []StaleOnlyByOwn
<1>1. PInv => StaleOnlyByOwn
  BY DEF PInv
<1> QED
  BY <1>1, PInvariance, PTL

-----------------------------------------------------------------------------
(***************************************************************************)
(* The hands a connection is in.                                           *)
(***************************************************************************)
LEMMA SentIff ==
    ASSUME IInv, NEW c \in Conn, NEW i \in Proc
    PROVE  Sent(c, i) <=> \E a \in PairAddr : pairOf[a] = c /\ Index(a) = i
<1>1. Routed /\ c # NULL
  BY ProcFacts DEF IInv
<1>2. ASSUME Sent(c, i) PROVE \E a \in PairAddr : pairOf[a] = c /\ Index(a) = i
  <2>1. PICK k \in DOMAIN OnTheWay(i) : pairOf[OnTheWay(i)[k]] = c
    BY <1>2 DEF Sent
  <2>2. OnTheWay(i)[k] \in PairAddr /\ Index(OnTheWay(i)[k]) = i
    BY <1>1, <2>1, WayElements DEF Routed
  <2> QED
    BY <2>1, <2>2
<1>3. ASSUME NEW a \in PairAddr, pairOf[a] = c, Index(a) = i PROVE Sent(c, i)
  BY <1>1, <1>3 DEF Routed, Sent
<1> QED
  BY <1>2, <1>3

LEMMA HandsAre ==
    ASSUME IInv, NEW c \in Conn
    PROVE  /\ client[c] = "closed" => Hands(c) = {<<"gone">>}
           /\ watch[c] # "off" => Hands(c) = {<<"main">>}
           /\ \A a \in PairAddr : pairOf[a] = c => Hands(c) = {<<"way", Index(a)>>}
           /\ \A i \in Proc : c \in owned[i] => Hands(c) = {<<"with", i>>}
           /\ client[c] # "closed" /\ watch[c] = "off" /\ ~Paired(c) /\ ~ServedNow(c)
                => Hands(c) = {}
<1>1. Held(c)
  BY DEF IInv
<1> DEFINE M == {h \in {<<"main">>} : watch[c] # "off"}
           W == {<<"way", i>> : i \in {x \in Proc : Sent(c, x)}}
           S == {<<"with", i>> : i \in {x \in Proc : c \in owned[x]}}
           G == {h \in {<<"gone">>} : client[c] = "closed"}
<1>2. Hands(c) = M \cup W \cup S \cup G
  BY DEF Hands
<1>3. /\ watch[c] = "off" => M = {}
      /\ watch[c] # "off" => M = {<<"main">>}
      /\ client[c] # "closed" => G = {}
      /\ client[c] = "closed" => G = {<<"gone">>}
  OBVIOUS
<1>4. /\ ~Paired(c) => W = {}
      /\ \A a \in PairAddr : pairOf[a] = c => W = {<<"way", Index(a)>>}
  <2>1. \A x \in Proc : Sent(c, x) <=> \E a \in PairAddr : pairOf[a] = c /\ Index(a) = x
    BY SentIff
  <2>2. ~Paired(c) => W = {}
    BY <2>1 DEF Paired
  <2>3. ASSUME NEW a \in PairAddr, pairOf[a] = c PROVE W = {<<"way", Index(a)>>}
    <3>1. \A x \in Proc : Sent(c, x) <=> x = Index(a)
      BY <1>1, <2>1, <2>3 DEF Held
    <3> QED
      BY <3>1, IndexType
  <2> QED
    BY <2>2, <2>3
<1>5. /\ ~ServedNow(c) => S = {}
      /\ \A i \in Proc : c \in owned[i] => S = {<<"with", i>>}
  <2>1. ~ServedNow(c) => S = {}
    BY DEF ServedNow
  <2>2. ASSUME NEW i \in Proc, c \in owned[i] PROVE S = {<<"with", i>>}
    <3>1. \A x \in Proc : c \in owned[x] <=> x = i
      BY <1>1, <2>2 DEF Held
    <3> QED
      BY <3>1
  <2> QED
    BY <2>1, <2>2
<1> HIDE DEF M, W, S, G
<1>6. CASE client[c] = "closed"
  <2>1. watch[c] = "off" /\ ~Paired(c) /\ ~ServedNow(c)
    BY <1>1, <1>6 DEF Held
  <2>2. Hands(c) = {<<"gone">>}
    BY <1>2, <1>3, <1>4, <1>5, <1>6, <2>1
  <2> QED
    BY <1>6, <2>1, <2>2 DEF Paired, ServedNow
<1>7. CASE watch[c] # "off"
  <2>1. client[c] = "open" /\ ~Paired(c) /\ ~ServedNow(c)
    BY <1>1, <1>7 DEF Held
  <2>2. Hands(c) = {<<"main">>}
    BY <1>2, <1>3, <1>4, <1>5, <1>7, <2>1
  <2> QED
    BY <1>7, <2>1, <2>2 DEF Paired, ServedNow
<1>8. CASE Paired(c)
  <2>1. client[c] = "open" /\ watch[c] = "off" /\ ~ServedNow(c)
    BY <1>1, <1>8 DEF Held
  <2>2. Hands(c) = W
    BY <1>2, <1>3, <1>5, <2>1
  <2> QED
    BY <1>4, <1>8, <2>1, <2>2 DEF ServedNow
<1>9. CASE ServedNow(c)
  <2>1. client[c] = "open" /\ watch[c] = "off" /\ ~Paired(c)
    BY <1>1, <1>9 DEF Held
  <2>2. Hands(c) = S
    BY <1>2, <1>3, <1>4, <2>1
  <2> QED
    BY <1>5, <1>9, <2>1, <2>2 DEF Paired
<1>10. CASE client[c] # "closed" /\ watch[c] = "off" /\ ~Paired(c) /\ ~ServedNow(c)
  <2>1. Hands(c) = {}
    BY <1>2, <1>3, <1>4, <1>5, <1>10
  <2> QED
    BY <1>10, <2>1 DEF Paired, ServedNow
<1> QED
  BY <1>6, <1>7, <1>8, <1>9, <1>10

HandsForm ==
    \A c \in Conn :
        /\ client[c] = "closed" => Hands(c) = {<<"gone">>}
        /\ watch[c] # "off" => Hands(c) = {<<"main">>}
        /\ \A a \in PairAddr : pairOf[a] = c => Hands(c) = {<<"way", a % NumProc>>}
        /\ \A i \in Proc : c \in owned[i] => Hands(c) = {<<"with", i>>}
        /\ client[c] # "closed" /\ watch[c] = "off" /\ ~Paired(c) /\ ~ServedNow(c)
             => Hands(c) = {}

LEMMA HandsAll == IInv => HandsForm
<1> SUFFICES ASSUME IInv, NEW c \in Conn
             PROVE  /\ client[c] = "closed" => Hands(c) = {<<"gone">>}
                    /\ watch[c] # "off" => Hands(c) = {<<"main">>}
                    /\ \A a \in PairAddr : pairOf[a] = c => Hands(c) = {<<"way", a % NumProc>>}
                    /\ \A i \in Proc : c \in owned[i] => Hands(c) = {<<"with", i>>}
                    /\ client[c] # "closed" /\ watch[c] = "off" /\ ~Paired(c) /\ ~ServedNow(c)
                         => Hands(c) = {}
  BY DEF HandsForm
<1> QED
  BY HandsAre DEF Index

\* The same after a step.
LEMMA HandsNext ==
    ASSUME IInv', NEW c \in Conn
    PROVE  /\ client'[c] = "closed" => Hands(c)' = {<<"gone">>}
           /\ watch'[c] # "off" => Hands(c)' = {<<"main">>}
           /\ \A a \in PairAddr : pairOf'[a] = c => Hands(c)' = {<<"way", Index(a)>>}
           /\ \A i \in Proc : c \in owned'[i] => Hands(c)' = {<<"with", i>>}
           /\ client'[c] # "closed" /\ watch'[c] = "off" /\ ~Paired(c)' /\ ~ServedNow(c)'
                => Hands(c)' = {}
<1>1. (IInv => HandsForm)'
  BY HandsAll, PTL
<1>2. HandsForm'
  BY <1>1
<1> QED
  BY <1>2 DEF HandsForm, Index

SentAsPaired ==
    \A c \in Conn, i \in Proc :
        Sent(c, i) <=> \E a \in PairAddr : pairOf[a] = c /\ Index(a) = i

LEMMA SentAll == IInv => SentAsPaired
BY SentIff DEF SentAsPaired

LEMMA HandsUntouched ==
    ASSUME IInv, IInv', NEW d \in Conn, Untouched(d)
    PROVE  Hands(d)' = Hands(d)
<1>1. \A i \in Proc : Sent(d, i)' <=> Sent(d, i)
  <2>1. (IInv => SentAsPaired)'
    BY SentAll, PTL
  <2>2. SentAsPaired /\ SentAsPaired'
    BY <2>1, SentAll
  <2> QED
    BY <2>2 DEF SentAsPaired, Untouched, Index
<1> QED
  BY <1>1 DEF Hands, Untouched

-----------------------------------------------------------------------------
(***************************************************************************)
(* Every step passes at most one connection on.                            *)
(***************************************************************************)
AllHands == [c \in Conn |-> Hands(c)]

LEMMA PassStep ==
    ASSUME NEW c \in Conn, NEW F, NEW T, Hands(c) = F, Hands(c)' = T,
           \A d \in Conn \ {c} : Hands(d)' = Hands(d)
    PROVE  Custody!Pass(c, F, T)
BY DEF Custody!Pass

LEMMA EndStep ==
    ASSUME NEW c \in Conn, Hands(c)' = {<<"gone">>},
           \/ Hands(c) = {} \/ Hands(c) = {<<"main">>}
           \/ \E i \in Proc : Hands(c) = {<<"way", i>>} \/ Hands(c) = {<<"with", i>>},
           \A d \in Conn \ {c} : Hands(d)' = Hands(d)
    PROVE  Custody!End(c)
<1>1. Hands(c) # {<<"gone">>}
  <2>1. "main" # "gone" /\ "way" # "gone" /\ "with" # "gone"
    OBVIOUS
  <2>2. <<"main">> # <<"gone">> /\ \A i \in Proc : <<"way", i>> # <<"gone">> /\ <<"with", i>> # <<"gone">>
    BY <2>1
  <2> QED
    BY <2>2
<1> QED
  BY <1>1 DEF Custody!End, Custody!Gone

LEMMA AcceptCustody ==
    ASSUME IInv, IInv', NEW c \in Conn, Accept(c)
    PROVE  [Custody!Next]_AllHands
<1>1. \A d \in Conn \ {c} : Hands(d)' = Hands(d)
  BY AcceptHeld, HandsUntouched
<1>2. client[c] = "backlog" /\ TypeOK /\ Held(c) /\ UNCHANGED owned
  BY DEF IInv, Accept, AcceptFailed, AcceptNoSocket, AcceptRefused, AcceptConnected,
         AcceptConnecting, Handle
<1>3. watch[c] = "off" /\ ~Paired(c) /\ ~ServedNow(c) /\ Hands(c) = {}
  BY <1>2, HandsAre DEF Held
<1>4. CASE client'[c] = "closed"
  <2>1. Hands(c)' = {<<"gone">>}
    BY <1>4, HandsNext
  <2>2. Custody!End(c)
    BY <1>1, <1>3, <2>1, EndStep
  <2> QED
    BY <2>2 DEF Custody!Next
<1>5. CASE AcceptConnected(c)
  <2>1. PICK a \in PairAddr : pairOf' = [pairOf EXCEPT ![a] = c]
    BY <1>5 DEF AcceptConnected, AddInPipeQue
  <2>2. pairOf'[a] = c
    BY <1>2, <2>1 DEF TypeOK
  <2>3. Hands(c)' = {<<"way", Index(a)>>}
    BY <2>2, HandsNext DEF Index
  <2>4. Custody!Send(c, Index(a)) /\ Index(a) \in Proc
    BY <1>1, <1>3, <2>3, PassStep, IndexType DEF Custody!Send, Custody!Way
  <2> QED
    BY <2>4 DEF Custody!Next
<1>6. CASE AcceptConnecting(c)
  <2>1. pairOf' = pairOf /\ client'[c] = "open"
    BY <1>2, <1>6 DEF AcceptConnecting, TypeOK
  <2>2. ~Paired(c)' /\ ~ServedNow(c)'
    BY <1>2, <1>3, <2>1 DEF Paired, ServedNow
  <2>3. CASE watch'[c] = "off"
    <3>1. Hands(c)' = {}
      BY <2>1, <2>2, <2>3, HandsNext
    <3> QED
      BY <1>1, <1>3, <3>1 DEF AllHands
  <2>4. CASE watch'[c] # "off"
    <3>1. Hands(c)' = {<<"main">>}
      BY <2>4, HandsNext
    <3>2. Custody!Begin(c)
      BY <1>1, <1>3, <3>1, PassStep DEF Custody!Begin, Custody!Main
    <3> QED
      BY <3>2 DEF Custody!Next
  <2> QED
    BY <2>3, <2>4
<1>7. CASE AcceptFailed(c) /\ client'[c] = "backlog"
  <2>1. client'[c] # "closed" /\ UNCHANGED <<watch, pairOf>>
    BY <1>7 DEF AcceptFailed
  <2>2. Hands(c)' = {}
    BY <1>2, <1>3, <2>1, HandsNext DEF Paired, ServedNow
  <2> QED
    BY <1>1, <1>3, <2>2 DEF AllHands
<1> QED
  BY <1>2, <1>4, <1>5, <1>6, <1>7
     DEF Accept, AcceptFailed, AcceptNoSocket, AcceptRefused, TypeOK

LEMMA ConnectCustody ==
    ASSUME IInv, IInv', NEW c \in Conn, Connect(c)
    PROVE  [Custody!Next]_AllHands
<1>1. \A d \in Conn \ {c} : Hands(d)' = Hands(d)
  BY ConnectHeld, HandsUntouched
<1>2. TypeOK /\ Held(c) /\ <<"connect", c>> \in batch
  BY DEF IInv, Connect, OnConnected, OnConnectFailed, Handle
<1>3. Hands(c) = {<<"main">>}
  BY <1>2, HandsAre DEF Held
<1>4. CASE OnConnected(c)
  <2>1. PICK a \in PairAddr : pairOf' = [pairOf EXCEPT ![a] = c]
    BY <1>4 DEF OnConnected, AddInPipeQue
  <2>2. pairOf'[a] = c
    BY <1>2, <2>1 DEF TypeOK
  <2>3. Hands(c)' = {<<"way", Index(a)>>}
    BY <2>2, HandsNext DEF Index
  <2>4. Custody!Send(c, Index(a)) /\ Index(a) \in Proc
    BY <1>1, <1>3, <2>3, PassStep, IndexType DEF Custody!Send, Custody!Way, Custody!Main
  <2> QED
    BY <2>4 DEF Custody!Next
<1>5. CASE OnConnectFailed(c)
  <2>1. client'[c] = "closed"
    BY <1>2, <1>5 DEF OnConnectFailed, TypeOK
  <2>2. Hands(c)' = {<<"gone">>}
    BY <2>1, HandsNext
  <2>3. Custody!End(c)
    BY <1>1, <1>3, <2>2, EndStep
  <2> QED
    BY <2>3 DEF Custody!Next
<1> QED
  BY <1>4, <1>5 DEF Connect

LEMMA AdoptCustody ==
    ASSUME IInv, IInv', NEW i \in Proc, Adopt(i)
    PROVE  [Custody!Next]_AllHands
<1>1. pipe[i] # <<>>
  BY DEF Adopt, Take, TakeFailed
<1>2. PICK a \in PairAddr, c \in Conn : a = Head(pipe[i]) /\ c = pairOf[a]
  BY <1>1, HeadType
<1>3. \A d \in Conn \ {c} : Hands(d)' = Hands(d)
  BY <1>2, AdoptHeld, HandsUntouched
<1>4. Index(a) = i
  <2>1. OnTheWay(i) \in Seq(PairAddr) /\ OnTheWay(i) # <<>> /\ Head(OnTheWay(i)) = a
    BY <1>1, <1>2, HeadType
  <2>2. 1 \in DOMAIN OnTheWay(i) /\ OnTheWay(i)[1] = a
    BY <2>1, TailElements
  <2> QED
    BY <2>2 DEF IInv, Routed
<1>5. Hands(c) = {<<"way", i>>}
  BY <1>2, <1>4, HandsAre
<1>6. CASE Take(i)
  <2>1. c \in owned'[i]
    BY <1>2, <1>6 DEF Take, IInv, TypeOK
  <2>2. Hands(c)' = {<<"with", i>>}
    BY <2>1, HandsNext
  <2>3. Custody!Take(c, i)
    BY <1>3, <1>5, <2>2, PassStep DEF Custody!Take, Custody!Way, Custody!With
  <2> QED
    BY <2>3 DEF Custody!Next
<1>7. CASE TakeFailed(i)
  <2>1. client'[c] = "closed"
    BY <1>2, <1>7 DEF TakeFailed, IInv, TypeOK
  <2>2. Hands(c)' = {<<"gone">>}
    BY <2>1, HandsNext
  <2>3. Custody!End(c)
    BY <1>3, <1>5, <2>2, EndStep
  <2> QED
    BY <2>3 DEF Custody!Next
<1> QED
  BY <1>6, <1>7 DEF Adopt

LEMMA RetireCustody ==
    ASSUME IInv, IInv', NEW i \in Proc, NEW c \in Conn, Retire(i, c)
    PROVE  [Custody!Next]_AllHands
<1>1. \A d \in Conn \ {c} : Hands(d)' = Hands(d)
  BY RetireHeld, HandsUntouched
<1>2. Hands(c) = {<<"with", i>>}
  BY HandsAre DEF Retire
<1>3. client'[c] = "closed"
  BY DEF Retire, IInv, TypeOK
<1>4. Hands(c)' = {<<"gone">>}
  BY <1>3, HandsNext
<1>5. Custody!End(c)
  BY <1>1, <1>2, <1>4, EndStep
<1> QED
  BY <1>5 DEF Custody!Next

\* Steps that pass nothing on.
LEMMA OtherCustody ==
    ASSUME IInv, IInv',
           \/ Wait \/ EventsDone \/ WritePtr \/ PipeFull \/ PipeDone
           \/ \E i \in Proc : OnPipe(i)
           \/ \E c \in Conn : Arrive(c) \/ Answer(c)
           \/ UNCHANGED vars
    PROVE  UNCHANGED AllHands
<1>1. ASSUME NEW d \in Conn PROVE Hands(d)' = Hands(d)
  <2>1. CASE Untouched(d)
    BY <2>1, HandsUntouched
  <2>2. CASE Arrive(d)
    <3>1. /\ client[d] = "none" /\ client'[d] = "backlog"
          /\ UNCHANGED <<watch, pairOf, owned>>
      BY <2>2 DEF Arrive, IInv, TypeOK
    <3>2. watch[d] = "off" /\ ~Paired(d) /\ ~ServedNow(d)
      BY <3>1 DEF IInv, Held
    <3>3. ~Paired(d)' /\ ~ServedNow(d)' /\ watch'[d] = "off"
      BY <3>1, <3>2 DEF Paired, ServedNow
    <3>4. Hands(d) = {}
      BY <3>1, <3>2, HandsAre
    <3>5. Hands(d)' = {}
      BY <3>1, <3>3, HandsNext
    <3> QED
      BY <3>4, <3>5
  <2> QED
    BY <2>1, <2>2, OtherHeld
<1> QED
  BY <1>1 DEF AllHands

LEMMA PlainCustody ==
    ASSUME IInv, IInv', Plain
    PROVE  [Custody!Next]_AllHands
BY AcceptCustody, ConnectCustody, AdoptCustody, OtherCustody DEF Plain, Main

LEMMA MakePipeCustody ==
    ASSUME IInv, IInv', MakePipe
    PROVE  UNCHANGED AllHands
<1>1. UNCHANGED <<client, broker, watch, batch, pairOf, owned>>
  BY DEF MakePipe, sockets, loop
<1>2. ASSUME NEW d \in Conn PROVE Hands(d)' = Hands(d)
  <2>1. Untouched(d)
    BY <1>1 DEF Untouched
  <2> QED
    BY <2>1, HandsUntouched
<1> QED
  BY <1>2 DEF AllHands

LEMMA CustodyStep ==
    ASSUME PInv, PInv', [PNext]_pvars
    PROVE  [Custody!Next]_AllHands
<1>1. IInv /\ IInv'
  BY DEF PInv
<1>2. ASSUME UNCHANGED vars PROVE UNCHANGED AllHands
  BY <1>1, <1>2, OtherCustody
<1>3. CASE Start
  BY <1>1, <1>2, <1>3, MakePipeCustody DEF Start, InitHandler, RunProcessor
<1>4. CASE Loop
  BY <1>1, <1>4, PlainCustody DEF Loop, Plain
<1>5. ASSUME NEW i \in Proc, Worker(i) PROVE [Custody!Next]_AllHands
  <2>1. CASE ReadPipe(i)
    BY <1>1, <2>1, PlainCustody DEF ReadPipe, Plain
  <2>2. ASSUME NEW e \in SockEvent, Cleared(i, e) PROVE [Custody!Next]_AllHands
    BY <1>1, <2>2, RetireCustody DEF Cleared, SockEvent
  <2>3. ASSUME \/ Collect(i) \/ OnPipeEvent(i) \/ PipeDrained(i)
               \/ \E e \in SockEvent : Relayed(i, e) \/ UseFreed(i, e) \/ PassedOver(i, e)
        PROVE  UNCHANGED AllHands
    BY <1>2, <2>3 DEF Collect, OnPipeEvent, PipeDrained, Relayed, UseFreed, PassedOver
  <2>4. ASSUME NEW e \in SockEvent, NEW j \in Proc, NEW c \in Conn, Strikes(i, e, j, c)
        PROVE  [Custody!Next]_AllHands
    BY <1>1, <2>4, RetireCustody DEF Strikes
  <2> QED
    BY <1>5, <2>1, <2>2, <2>3, <2>4 DEF Worker
<1>6. ASSUME NEW c \in Conn, Connected(c) \/ ConnectedInVain(c) \/ Answered(c)
      PROVE  [Custody!Next]_AllHands
  BY <1>1, <1>2, <1>6, PlainCustody DEF Connected, ConnectedInVain, Answered, Plain
<1>7. CASE UNCHANGED pvars
  BY <1>2, <1>7 DEF pvars
<1> QED
  BY <1>3, <1>4, <1>5, <1>6, <1>7 DEF PNext

LEMMA CustodyInit == PInit => Custody!Init
<1> SUFFICES ASSUME PInit, NEW c \in Conn PROVE Hands(c) = {}
  BY DEF Custody!Init
<1>1. IInv
  BY PInitInv DEF PInv
<1>2. /\ client[c] # "closed" /\ watch[c] = "off" /\ c # NULL
      /\ \A a \in PairAddr : pairOf[a] = NULL
      /\ \A i \in Proc : owned[i] = {}
  BY ProcFacts DEF PInit, Idle
<1>3. ~Paired(c) /\ ~ServedNow(c)
  BY <1>2 DEF Paired, ServedNow
<1> QED
  BY <1>1, <1>2, <1>3, HandsAre

\* Whatever fails, a connection is passed from the main thread over one pipe to
\* one processor and away, and no two of them ever have it at once: the process
\* does what Custody promises.
THEOREM SpecImplementsCustody == PSpec => ImplementsCustody
<1>1. PInv /\ PInv' /\ [PNext]_pvars => [Custody!Next]_AllHands
  BY CustodyStep
<1> QED
  BY <1>1, PInvariance, CustodyInit, PTL DEF PSpec, ImplementsCustody, Custody!Spec, AllHands

=============================================================================
