-------------------------------- MODULE Proxy --------------------------------
(***************************************************************************)
(* The whole process of mq-proxy2: main() and its start-up (main.cpp), the *)
(* main thread and the pipes of Handoff, and the thread of each I/O        *)
(* processor with the batch of events it works through.                    *)
(*                                                                         *)
(* Of the work of a processor only what concerns the others is kept: which *)
(* connections it has registered, which events it still has to handle,     *)
(* when it adopts or clears a connection, and what a stale event may do to *)
(* a connection whose handles have got the address of freed ones.  What a  *)
(* processor reads and writes is in Relay; what becomes of the bytes of a  *)
(* handle that two threads use at once is in no module.                    *)
(***************************************************************************)
EXTENDS Handoff

CONSTANTS
    StartFault, \* start-up calls that may fail: see StartAssumption
    Frail       \* bound: the processors for which AddPipe, Add and
                \* pthread_create may

ASSUME StartAssumption ==
    /\ StartFault \subseteq {"init", "listen", "pipe", "addread", "thread"}
    /\ Frail \subseteq Proc

VARIABLES
    boot,    \* where main() is: see Stage
    index,   \* i of its two for loops
    listening, \* the listening socket is registered with the main thread's epoll
    stranded,  \* clients in the backlog of one that is not
    thread,  \* "none": processor not running; "deaf": its pipe is not
             \* registered; "ready"
    events,  \* events a processor's epoll_wait returned and are not yet handled
    inPipe,  \* the processor is in the while loop of its pipe event
    cleared, \* connections it has cleared since its last epoll_wait
    since,   \* history: connections freed when the handles of each were allocated
    struck   \* history: connections cleared by another processor's stale event

starting == <<boot, index, listening, stranded>>
workers  == <<thread, events, inPipe, cleared>>
reuse    == <<since, struck>>
pvars    == <<vars, starting, workers, reuse>>

\* "gone": exit() was called, or memory was used after it had been freed.
Stage == {"init", "pipes", "run", "loop", "gone"}

\* The event of one socket of a connection.
SockEvent == Conn \X {"S", "C"}
PipeEvent == <<"pipe">>

PInit ==
    /\ Idle
    /\ pipeReg = [i \in Proc |-> "none"]
    /\ boot = "init"
    /\ index = 0
    /\ listening = FALSE
    /\ stranded = {}
    /\ thread = [i \in Proc |-> "none"]
    /\ events = [i \in Proc |-> {}]
    /\ inPipe = [i \in Proc |-> FALSE]
    /\ cleared = [i \in Proc |-> {}]
    /\ since = [c \in Conn |-> {}]
    /\ struck = {}

-----------------------------------------------------------------------------
(***************************************************************************)
(* main().                                                                 *)
(***************************************************************************)
Exit(call) == call \in StartFault /\ boot' = "gone" /\ index' = index

\* One round of a for loop: the next one, or the stage after the loop.  The
\* mutant has a round too many.
RoundMore(stage) ==
    IF index = NumProc THEN boot' = stage /\ index' = 0
    ELSE boot' = boot /\ index' = index + 1

Round(stage) ==
    IF index + 1 = NumProc THEN boot' = stage /\ index' = 0
    ELSE boot' = boot /\ index' = index + 1

\* ProxyHandler::Init: from here on the kernel accepts clients.  Add returns
\* ERR_ERRNO, which is positive, and CHECK_ERRNO tests for a negative result:
\* main() goes on although the listening socket is not registered.
InitHandler ==
    /\ boot = "init"
    /\ \/ Exit("init") /\ UNCHANGED listening
       \/ /\ boot' = "pipes" /\ index' = 0
          /\ listening' \in {TRUE} \cup {x \in {FALSE} : "listen" \in StartFault}
    /\ UNCHANGED <<vars, stranded, workers, reuse>>

\* A call for one processor.
MayFail(call) == call \in StartFault /\ index \in Frail

\* pipe() and ProxyHandler::AddPipe.
MakePipe ==
    /\ boot = "pipes"
    /\ \/ Exit("pipe") /\ UNCHANGED pipeReg
       \/ /\ \E r \in {x \in AddPipe : x = "null" \/ index \in Frail} :
                pipeReg' = [pipeReg EXCEPT ![index] = r]
          /\ Round("run")
    /\ UNCHANGED <<sockets, pairOf, outQ, outSave, pipe, loop, owned, history,
                   listening, stranded, workers, reuse>>

\* Processor::Run.  Nobody looks at the result of Add, of pthread_create or of
\* Run itself.
RunProcessor ==
    /\ boot = "run"
    /\ \E t \in {"ready"} \cup {x \in {"deaf"} : MayFail("addread")}
                          \cup {x \in {"none"} : MayFail("thread")} :
          thread' = [thread EXCEPT ![index] = t]
    /\ Round("loop")
    /\ UNCHANGED <<vars, listening, stranded, events, inPipe, cleared, reuse>>

Closed == {c \in Conn : client[c] = "closed"}

\* ProxyHandler::Loop.  The handles it allocates for a connection may get the
\* addresses of any that have been freed.
Loop ==
    /\ boot = "loop"
    /\ Main
    /\ since' = [c \in Conn |-> IF client[c] = "backlog" /\ client'[c] = "open"
                                 THEN Closed ELSE since[c]]
    /\ UNCHANGED <<starting, workers, struck>>

-----------------------------------------------------------------------------
(***************************************************************************)
(* IOProcessor::loop in the thread of processor i.                         *)
(***************************************************************************)
Running(i) == boot # "gone" /\ thread[i] # "none"
Handling(i, e) ==
    /\ Running(i) /\ ~inPipe[i] /\ e \in events[i]
    /\ events' = [events EXCEPT ![i] = @ \ {e}]

\* multiplexer_.Wait returns the event of the pipe if there is something in it,
\* and any events of the sockets that are registered.
Collect(i) ==
    /\ Running(i) /\ ~inPipe[i] /\ events[i] = {}
    /\ \E S \in SUBSET {e \in SockEvent : e[1] \in owned[i]} :
          LET E == S \cup {e \in {PipeEvent} : thread[i] = "ready" /\ pipe[i] # <<>>}
          IN  E # {} /\ events' = [events EXCEPT ![i] = E]
    /\ cleared' = [cleared EXCEPT ![i] = {}]
    /\ UNCHANGED <<vars, starting, thread, inPipe, reuse>>

OnPipeEvent(i) ==
    /\ Handling(i, PipeEvent)
    /\ inPipe' = [inPipe EXCEPT ![i] = TRUE]
    /\ UNCHANGED <<vars, starting, thread, cleared, reuse>>

\* The while loop reads an address at a time until DoRead returns IO_Again.
ReadPipe(i) ==
    /\ Running(i) /\ inPipe[i]
    /\ Adopt(i)
    /\ UNCHANGED <<starting, workers, reuse>>

PipeDrained(i) ==
    /\ Running(i) /\ inPipe[i] /\ pipe[i] = <<>>
    /\ inPipe' = [inPipe EXCEPT ![i] = FALSE]
    /\ UNCHANGED <<vars, starting, thread, events, cleared, reuse>>

\* The event of a socket is handled and the connection goes on.
Relayed(i, e) ==
    /\ Handling(i, e) /\ e \in SockEvent /\ client[e[1]] = "open"
    /\ UNCHANGED <<vars, starting, thread, inPipe, cleared, reuse>>

\* It ends in ClearFHPair.
Cleared(i, e) ==
    /\ Handling(i, e) /\ e \in SockEvent /\ client[e[1]] = "open"
    /\ Retire(i, e[1])
    /\ cleared' = [cleared EXCEPT ![i] = @ \cup {e[1]}]
    /\ UNCHANGED <<starting, thread, inPipe, reuse>>

\* An event is stale when the handle it carries has been freed.
Stale(i, e) ==
    Handling(i, e) /\ e \in SockEvent /\ client[e[1]] = "closed"

\* The address is that of freed memory, or of a handle that the main thread
\* has not yet given to a processor, whose partner may be NULL or which the
\* event may free under that thread: undefined.
UseFreed(i, e) ==
    /\ Stale(i, e)
    /\ boot' = "gone"
    /\ UNCHANGED <<vars, index, listening, stranded, thread, inPipe, cleared, reuse>>

\* The address is that of a new handle: either loop() passes it over
\* (FT_Connecting), or its connection goes on.
PassedOver(i, e) ==
    /\ Stale(i, e)
    /\ \E c \in Conn : e[1] \in since[c]
    /\ UNCHANGED <<vars, starting, thread, inPipe, cleared, reuse>>

\* The new handle is of connection c, which processor j serves, and the event
\* ends in ClearFHPair.
Strikes(i, e, j, c) ==
    /\ Stale(i, e) /\ e[1] \in since[c]
    /\ Retire(j, c)
    /\ cleared' = [cleared EXCEPT ![i] = @ \cup {x \in {c} : i = j}]
    /\ struck' = struck \cup {x \in {c} : i # j}
    /\ UNCHANGED <<starting, thread, inPipe, since>>

-----------------------------------------------------------------------------
Start     == InitHandler \/ MakePipe \/ RunProcessor
Worker(i) ==
    \/ Collect(i) \/ OnPipeEvent(i) \/ ReadPipe(i) \/ PipeDrained(i)
    \/ \E e \in SockEvent :
          \/ Relayed(i, e) \/ Cleared(i, e) \/ UseFreed(i, e) \/ PassedOver(i, e)
          \/ \E j \in Proc, c \in Conn : Strikes(i, e, j, c)

\* A client can connect once the socket listens, registered or not.
Connected(c) ==
    /\ boot \notin {"init", "gone"} /\ listening
    /\ Arrive(c)
    /\ UNCHANGED <<starting, workers, reuse>>

ConnectedInVain(c) ==
    /\ boot \notin {"init", "gone"} /\ ~listening
    /\ c \notin stranded
    /\ stranded' = stranded \cup {c}
    /\ UNCHANGED <<vars, boot, index, listening, workers, reuse>>

Answered(c) == boot # "gone" /\ Answer(c) /\ UNCHANGED <<starting, workers, reuse>>

PNext ==
    \/ Start \/ Loop
    \/ \E i \in Proc : Worker(i)
    \/ \E c \in Conn : Connected(c) \/ ConnectedInVain(c) \/ Answered(c)

PSpec == PInit /\ [][PNext]_pvars

\* Every thread goes on, and the kernel ends every connection attempt.
PFairness ==
    /\ WF_pvars(Start \/ Loop)
    /\ \A i \in Proc : WF_pvars(Worker(i))
    /\ \A c \in Conn : WF_pvars(Answered(c))

PFairSpec == PSpec /\ PFairness

-----------------------------------------------------------------------------
PTypeOK ==
    /\ TypeOK
    /\ boot \in Stage
    /\ index \in Proc
    /\ listening \in BOOLEAN
    /\ stranded \subseteq Conn
    /\ thread \in [Proc -> {"none", "deaf", "ready"}]
    /\ events \in [Proc -> SUBSET (SockEvent \cup {PipeEvent})]
    /\ inPipe \in [Proc -> BOOLEAN]
    /\ cleared \in [Proc -> SUBSET Conn]
    /\ since \in [Conn -> SUBSET Conn]
    /\ struck \subseteq Conn

\* No thread frees what another one has, but through an event that was stale
\* already: an event that is still to be handled, by the main thread or by a
\* processor, is one of an open connection that the same thread has; or the
\* processor has cleared the connection itself since it last waited, or the
\* connection was struck.  So the first event that is stale is always of the
\* processor's own making (problem 1 of Readme.txt, see Relay), and problem 2,
\* a handle freed by one thread and used by another, comes only after it.
StaleOnlyByOwn ==
    /\ \A i \in Proc : \A e \in events[i] \cap SockEvent :
          \/ client[e[1]] = "open" /\ e[1] \in owned[i]
          \/ e[1] \in cleared[i] \cup struck
    /\ \A c \in Conn :
          <<"connect", c>> \in batch =>
              client[c] = "open" /\ \A i \in Proc : c \notin owned[i]

\* Connection c is on its way to processor i.
Sent(c, i) == \E k \in DOMAIN OnTheWay(i) : pairOf[OnTheWay(i)[k]] = c

\* The hands connection c is in: the main thread's epoll set, a pipe, a
\* processor, or nobody's any more.
Hands(c) ==
    {h \in {<<"main">>} : watch[c] # "off"}
    \cup {<<"way", i>> : i \in {x \in Proc : Sent(c, x)}}
    \cup {<<"with", i>> : i \in {x \in Proc : c \in owned[x]}}
    \cup {h \in {<<"gone">>} : client[c] = "closed"}

Custody == INSTANCE Custody WITH hands <- [c \in Conn |-> Hands(c)]

\* Whatever the threads do in whatever order, a connection goes from the main
\* thread over one pipe to one processor and away, and no two of them ever have
\* it at once.
ImplementsCustody == Custody!Spec

\* A client that has connected is served or closed, unless the process ends,
\* or one of the start-up calls failed whose result nobody looks at or which
\* Init misreads: the listening socket is not registered, or the connection is
\* in the pipe of a processor that is not running or does not listen to its
\* pipe.  What fails for one processor does no harm to the connections of the
\* others.  This assumes that accept() does not fail for ever.
ServedIfRunning ==
    <>[][\A c \in Conn : ~AcceptFailed(c)]_vars =>
    \A c \in Conn :
        (client[c] = "backlog" \/ c \in stranded) ~>
            \/ client[c] = "closed" \/ boot = "gone" \/ ~listening
            \/ \E i \in Proc :
                  \/ c \in owned[i]
                  \/ thread[i] # "ready" /\ Sent(c, i)
=============================================================================
