------------------------------- MODULE Handoff -------------------------------
(***************************************************************************)
(* The main thread of mq-proxy2 (ProxyHandler::Loop, proxy_handler.cpp)    *)
(* and the pipes over which it hands accepted connections to the I/O       *)
(* processors, whose own work is modelled by Relay.                        *)
(*                                                                         *)
(* For every client it accepts the thread opens a socket to the broker;    *)
(* when that is connected it allocates an FHPair, queues its address for   *)
(* the processor that the address selects and writes the addresses to the  *)
(* processors' pipes.  A processor reads an address, registers the two     *)
(* sockets and deletes the FHPair, whose address may then be used again.   *)
(***************************************************************************)
EXTENDS Integers, Sequences, FiniteSets

CONSTANTS Conn,     \* clients that may connect
          NumProc,  \* IOPSR_NUM: I/O processors, and pipes
          PairAddr, \* addresses an FHPair may get
          PipeCap,  \* addresses a pipe holds
          Fault,    \* system calls that may fail: see FaultAssumption
          NULL

Proc == 0..NumProc-1

\* operator new returns addresses that are multiples of 16 (x86_64).
ALIGN == 16

ASSUME HandoffAssumption ==
    /\ NumProc \in Nat \ {0}
    /\ PipeCap \in Nat \ {0}
    /\ IsFiniteSet(Conn)
    /\ PairAddr \subseteq {a \in Nat \ {0} : a % ALIGN = 0}
    /\ Cardinality(PairAddr) >= Cardinality(Conn)
    /\ NULL \notin Conn \cup PairAddr

ASSUME FaultAssumption ==
    Fault \subseteq {"addpipe", "accept", "socket", "connect", "add", "adopt"}

VARIABLES
    client,  \* the socket to each client: "none", "backlog", "open", "closed"
    broker,  \* the socket to the broker: "none", "open", "closed"
    net,     \* the kernel's state of the connection to the broker
    type,    \* type_ of the broker socket's FdHandle
    watch,   \* its one-shot registration with epoll: "off", "armed", "fired"
    pairOf,  \* the connection of the FHPair at each address, or NULL
    outQ,    \* out_que_ of each pipe's FdHandle: addresses to write
    outSave, \* data_out_save_ of each pipe's FdHandle: an address or NULL
    pipe,    \* addresses written and not yet read
    pipeReg, \* each pipe's one-shot registration: "null", "armed", "off" or "none"
    mpc,     \* "wait", "events" or "write"
    batch,   \* events epoll_wait returned and Loop has not yet handled
    windex,  \* the pipe writeAllPipes is at
    owned,   \* connections registered by each processor
    queued,  \* history: connections given to addInPipeQue, for each pipe
    taken    \* history: connections each processor has read from its pipe

sockets == <<client, broker, net, type, watch>>
queues  == <<outQ, outSave, pipe, pipeReg>>
loop    == <<mpc, batch, windex>>
history == <<queued, taken>>
vars    == <<sockets, pairOf, queues, loop, owned, history>>

\* The main thread about to enter Loop, and nothing under way.
Idle ==
    /\ client = [c \in Conn |-> "none"]
    /\ broker = [c \in Conn |-> "none"]
    /\ net = [c \in Conn |-> "none"]
    /\ type = [c \in Conn |-> "FT_None"]
    /\ watch = [c \in Conn |-> "off"]
    /\ pairOf = [a \in PairAddr |-> NULL]
    /\ outQ = [i \in Proc |-> <<>>]
    /\ outSave = [i \in Proc |-> NULL]
    /\ pipe = [i \in Proc |-> <<>>]
    /\ mpc = "wait"
    /\ batch = {}
    /\ windex = 0
    /\ owned = [i \in Proc |-> {}]
    /\ queued = [i \in Proc |-> <<>>]
    /\ taken = [i \in Proc |-> <<>>]

\* AddPipe registers each pipe with a null pointer.  If its Add fails, which
\* main() does not look at, the pipe is never registered: Modify fails too.
AddPipe == {"null"} \cup {x \in {"none"} : "addpipe" \in Fault}

Init == Idle /\ pipeReg \in [Proc -> AddPipe]

-----------------------------------------------------------------------------
(***************************************************************************)
(* ProxyHandler::Loop.                                                     *)
(***************************************************************************)
HasRoom(i) == Len(pipe[i]) < PipeCap

ListenEvent == <<"listen", NULL>>

Pending ==
    {e \in {ListenEvent} : \E c \in Conn : client[c] = "backlog"}
    \cup {<<"connect", c>> :
            c \in {x \in Conn : watch[x] = "armed" /\ net[x] \in {"up", "failed"}}}
    \cup {<<"pipe", i>> : i \in {x \in Proc : pipeReg[x] \in {"null", "armed"} /\ HasRoom(x)}}

\* multiplexer_.Wait returns what is pending, or nothing after a second; after
\* EINTR the loop only calls it again.
Wait ==
    /\ mpc = "wait"
    /\ batch' = Pending
    /\ watch' = [c \in Conn |-> IF <<"connect", c>> \in Pending THEN "fired"
                                ELSE watch[c]]
    /\ pipeReg' = [i \in Proc |-> IF <<"pipe", i>> \in Pending THEN "off"
                                  ELSE pipeReg[i]]
    /\ mpc' = "events"
    /\ UNCHANGED <<client, broker, net, type, pairOf, outQ, outSave, pipe,
                   windex, owned, history>>

\* addInPipeQue(new FHPair(...)): the address selects the processor.
Index(a) == a % NumProc

AddInPipeQue(c) ==
    \E a \in PairAddr :
        /\ pairOf[a] = NULL
        /\ pairOf' = [pairOf EXCEPT ![a] = c]
        /\ outQ' = [outQ EXCEPT ![Index(a)] = Append(@, a)]
        /\ queued' = [queued EXCEPT ![Index(a)] = Append(@, c)]

Handle(e) ==
    /\ mpc = "events" /\ e \in batch
    /\ batch' = batch \ {e}
    /\ UNCHANGED <<outSave, pipe, pipeReg, mpc, windex, owned, taken>>

\* accept() fails: the client has gone, or the process is out of descriptors.
AcceptFailed(c) ==
    /\ "accept" \in Fault /\ client[c] = "backlog"
    /\ Handle(ListenEvent)
    /\ \E s \in {"backlog", "closed"} : client' = [client EXCEPT ![c] = s]
    /\ UNCHANGED <<broker, net, type, watch, pairOf, outQ, queued>>

\* socket() fails: the client's handle is deleted.
AcceptNoSocket(c) ==
    /\ "socket" \in Fault /\ client[c] = "backlog"
    /\ Handle(ListenEvent)
    /\ client' = [client EXCEPT ![c] = "closed"]
    /\ UNCHANGED <<broker, net, type, watch, pairOf, outQ, queued>>

\* connect() fails at once: the new socket is closed and the client's handle
\* deleted.
AcceptRefused(c) ==
    /\ "connect" \in Fault /\ client[c] = "backlog"
    /\ Handle(ListenEvent)
    /\ client' = [client EXCEPT ![c] = "closed"]
    /\ broker' = [broker EXCEPT ![c] = "closed"]
    /\ UNCHANGED <<net, type, watch, pairOf, outQ, queued>>

\* connect() succeeds at once.
AcceptConnected(c) ==
    /\ client[c] = "backlog"
    /\ Handle(ListenEvent)
    /\ client' = [client EXCEPT ![c] = "open"]
    /\ broker' = [broker EXCEPT ![c] = "open"]
    /\ net' = [net EXCEPT ![c] = "up"]
    /\ type' = [type EXCEPT ![c] = "FT_Sock_C"]
    /\ AddInPipeQue(c)
    /\ UNCHANGED watch

\* connect() is in progress: the socket is registered with the main thread's
\* epoll.  Nothing looks at the result of Add.
AcceptConnecting(c) ==
    /\ client[c] = "backlog"
    /\ Handle(ListenEvent)
    /\ client' = [client EXCEPT ![c] = "open"]
    /\ broker' = [broker EXCEPT ![c] = "open"]
    /\ net' = [net EXCEPT ![c] = "progress"]
    /\ type' = [type EXCEPT ![c] = "FT_Connecting"]
    /\ \E w \in {"armed"} \cup {x \in {"off"} : "add" \in Fault} :
          watch' = [watch EXCEPT ![c] = w]
    /\ UNCHANGED <<pairOf, outQ, queued>>

\* multiplexer_.Remove; the mutant is OnConnected without it.
RemoveNot(c) == watch' = watch
Remove(c)    == watch' = [watch EXCEPT ![c] = "off"]

\* The connection to the broker is established.
OnConnected(c) ==
    /\ Handle(<<"connect", c>>) /\ net[c] = "up"
    /\ Remove(c)
    /\ type' = [type EXCEPT ![c] = "FT_Sock_C"]
    /\ AddInPipeQue(c)
    /\ UNCHANGED <<client, broker, net>>

\* It failed: ClearFHPair deletes both handles.  An event with neither EPOLLIN
\* nor EPOLLOUT ends in the same ClearFHPair; the else branch after FT_Pipe
\* would need the event of an FT_Sock handle, and this epoll has none.
OnConnectFailed(c) ==
    /\ Handle(<<"connect", c>>) /\ net[c] = "failed"
    /\ watch' = [watch EXCEPT ![c] = "off"]
    /\ client' = [client EXCEPT ![c] = "closed"]
    /\ broker' = [broker EXCEPT ![c] = "closed"]
    /\ UNCHANGED <<net, type, pairOf, outQ, queued>>

\* A pipe that has become writable only wakes the loop up.
OnPipe(i) ==
    /\ Handle(<<"pipe", i>>)
    /\ UNCHANGED <<sockets, pairOf, outQ, queued>>

\* The batch is done: writeAllPipes begins.
EventsDone ==
    /\ mpc = "events" /\ batch = {}
    /\ mpc' = "write"
    /\ windex' = 0
    /\ UNCHANGED <<sockets, pairOf, queues, batch, owned, history>>

-----------------------------------------------------------------------------
(***************************************************************************)
(* ProxyHandler::writeAllPipes: FdHandle::DoWrite on every pipe in turn.   *)
(***************************************************************************)
\* The address DoWrite works on, and what it leaves in the queue.  The mutant
\* takes the next address from the queue whatever is saved.
PacketNext(i) == IF outQ[i] # <<>> THEN Head(outQ[i]) ELSE outSave[i]
Packet(i)     == IF outSave[i] # NULL THEN outSave[i] ELSE Head(outQ[i])
RestQ(i)      == IF outSave[i] # NULL THEN outQ[i] ELSE Tail(outQ[i])
HasOut(i)     == outSave[i] # NULL \/ outQ[i] # <<>>

\* The for loop goes on to the next pipe; the mutants do not end, or leave out
\* the last pipe.
NextPipeOne ==
    IF windex = NumProc THEN mpc' = "wait" /\ windex' = 0
    ELSE mpc' = mpc /\ windex' = windex + 1

NextPipeShort ==
    IF windex + 2 >= NumProc THEN mpc' = "wait" /\ windex' = 0
    ELSE mpc' = mpc /\ windex' = windex + 1

NextPipe ==
    IF windex + 1 = NumProc THEN mpc' = "wait" /\ windex' = 0
    ELSE mpc' = mpc /\ windex' = windex + 1

\* An address is written whole: a pipe takes eight bytes or none.
WritePtr ==
    LET i == windex IN
    /\ mpc = "write" /\ HasOut(i) /\ HasRoom(i)
    /\ pipe' = [pipe EXCEPT ![i] = Append(@, Packet(i))]
    /\ outSave' = [outSave EXCEPT ![i] = NULL]
    /\ outQ' = [outQ EXCEPT ![i] = RestQ(i)]
    /\ UNCHANGED <<sockets, pairOf, pipeReg, loop, owned, history>>

\* multiplexer_.Modify after IO_Again; the mutant is writeAllPipes without it.
ModifyNot(i) == pipeReg' = pipeReg
Modify(i)    == pipeReg' = [pipeReg EXCEPT ![i] = IF @ = "none" THEN @ ELSE "armed"]

\* The pipe is full: the address stays in data_out_save_ and the pipe is
\* registered.
PipeFull ==
    LET i == windex IN
    /\ mpc = "write" /\ HasOut(i) /\ ~HasRoom(i)
    /\ outSave' = [outSave EXCEPT ![i] = Packet(i)]
    /\ outQ' = [outQ EXCEPT ![i] = RestQ(i)]
    /\ Modify(i)
    /\ NextPipe
    /\ UNCHANGED <<sockets, pairOf, pipe, batch, owned, history>>

PipeDone ==
    /\ mpc = "write" /\ ~HasOut(windex)
    /\ NextPipe
    /\ UNCHANGED <<sockets, pairOf, queues, batch, owned, history>>

-----------------------------------------------------------------------------
(***************************************************************************)
(* The I/O processors, as far as the main thread depends on them.          *)
(***************************************************************************)
\* IOProcessor::loop reads an address, adds both sockets and deletes the pair.
Take(i) ==
    LET a == Head(pipe[i]) IN
    /\ pipe[i] # <<>>
    /\ pipe' = [pipe EXCEPT ![i] = Tail(@)]
    /\ pairOf' = [pairOf EXCEPT ![a] = NULL]
    /\ owned' = [owned EXCEPT ![i] = @ \cup {pairOf[a]}]
    /\ taken' = [taken EXCEPT ![i] = Append(@, pairOf[a])]
    /\ UNCHANGED <<sockets, outQ, outSave, pipeReg, loop, queued>>

\* ClearFHPair(pair->psfh), because an Add failed or err_flag held garbage.
TakeFailed(i) ==
    LET a == Head(pipe[i]) IN
    /\ "adopt" \in Fault /\ pipe[i] # <<>>
    /\ pipe' = [pipe EXCEPT ![i] = Tail(@)]
    /\ pairOf' = [pairOf EXCEPT ![a] = NULL]
    /\ client' = [client EXCEPT ![pairOf[a]] = "closed"]
    /\ broker' = [broker EXCEPT ![pairOf[a]] = "closed"]
    /\ taken' = [taken EXCEPT ![i] = Append(@, pairOf[a])]
    /\ UNCHANGED <<net, type, watch, outQ, outSave, pipeReg, loop, owned, queued>>

\* Closing a socket takes it out of the processor's epoll set; the mutant is
\* ~FdHandle without close().
DisownNot(i, c) == owned' = owned
Disown(i, c)    == owned' = [owned EXCEPT ![i] = @ \ {c}]

\* ClearFHPair of a pair the processor serves: see Relay.
Retire(i, c) ==
    /\ c \in owned[i]
    /\ Disown(i, c)
    /\ client' = [client EXCEPT ![c] = "closed"]
    /\ broker' = [broker EXCEPT ![c] = "closed"]
    /\ UNCHANGED <<net, type, watch, pairOf, queues, loop, history>>

-----------------------------------------------------------------------------
(***************************************************************************)
(* Clients and the broker.                                                 *)
(***************************************************************************)
Arrive(c) ==
    /\ client[c] = "none"
    /\ client' = [client EXCEPT ![c] = "backlog"]
    /\ UNCHANGED <<broker, net, type, watch, pairOf, queues, loop, owned, history>>

\* The broker answers the connection attempt, refuses it, or the attempt times
\* out in the kernel.
Answer(c) ==
    /\ net[c] = "progress"
    /\ \E r \in {"up", "failed"} : net' = [net EXCEPT ![c] = r]
    /\ UNCHANGED <<client, broker, type, watch, pairOf, queues, loop, owned, history>>

-----------------------------------------------------------------------------
Accept(c) ==
    \/ AcceptFailed(c) \/ AcceptNoSocket(c) \/ AcceptRefused(c)
    \/ AcceptConnected(c) \/ AcceptConnecting(c)
Connect(c) == OnConnected(c) \/ OnConnectFailed(c)
Main ==
    \/ Wait \/ EventsDone \/ WritePtr \/ PipeFull \/ PipeDone
    \/ \E c \in Conn : Accept(c) \/ Connect(c)
    \/ \E i \in Proc : OnPipe(i)
Adopt(i) == Take(i) \/ TakeFailed(i)

Next ==
    \/ Main
    \/ \E i \in Proc : Adopt(i) \/ \E c \in Conn : Retire(i, c)
    \/ \E c \in Conn : Arrive(c) \/ Answer(c)

Spec == Init /\ [][Next]_vars

\* The main thread and the processors loop for ever, and the kernel ends every
\* connection attempt ("connect's own timeout", proxy_handler.cpp:191).
Fairness ==
    /\ WF_vars(Main)
    /\ \A i \in Proc : WF_vars(Adopt(i))
    /\ \A c \in Conn : WF_vars(Answer(c))

FairSpec == Spec /\ Fairness

-----------------------------------------------------------------------------
TypeOK ==
    /\ client \in [Conn -> {"none", "backlog", "open", "closed"}]
    /\ broker \in [Conn -> {"none", "open", "closed"}]
    /\ net \in [Conn -> {"none", "progress", "up", "failed"}]
    /\ type \in [Conn -> {"FT_None", "FT_Connecting", "FT_Sock_C"}]
    /\ watch \in [Conn -> {"off", "armed", "fired"}]
    /\ pairOf \in [PairAddr -> Conn \cup {NULL}]
    /\ outQ \in [Proc -> Seq(PairAddr)]
    /\ outSave \in [Proc -> PairAddr \cup {NULL}]
    /\ pipe \in [Proc -> Seq(PairAddr)]
    /\ \A i \in Proc : Len(pipe[i]) <= PipeCap
    /\ pipeReg \in [Proc -> {"null", "armed", "off", "none"}]
    /\ mpc \in {"wait", "events", "write"}
    /\ batch \subseteq {ListenEvent} \cup {<<"connect", c>> : c \in Conn}
                      \cup {<<"pipe", i>> : i \in Proc}
    /\ windex \in Proc
    /\ owned \in [Proc -> SUBSET Conn]
    /\ queued \in [Proc -> Seq(Conn)]
    /\ taken \in [Proc -> Seq(Conn)]

\* The addresses on their way to processor i, oldest first.
OnTheWay(i) ==
    pipe[i] \o (IF outSave[i] = NULL THEN <<>> ELSE <<outSave[i]>>) \o outQ[i]

\* How many parts of the program will act on connection c next: main's epoll,
\* an address on its way, or a processor that serves it.
Holders(c) ==
    (IF watch[c] = "off" THEN 0 ELSE 1)
    + Cardinality(UNION {{i} \X {k \in DOMAIN OnTheWay(i) :
                                  pairOf[OnTheWay(i)[k]] = c} : i \in Proc})
    + Cardinality({i \in Proc : c \in owned[i]})

\* A connection whose handles are allocated is in the hands of exactly one
\* part of the program, and one that is closed in nobody's: its handles are
\* neither forgotten nor freed under somebody who still uses them.
OneHolder ==
    \A c \in Conn :
        /\ Holders(c) = IF client[c] = "open" THEN 1 ELSE 0
        /\ client[c] = "open" <=> broker[c] = "open"

\* Whatever is written, saved, blocked and read when, and whichever addresses
\* are used again, each pipe hands over exactly the connections queued for
\* it, once each and in order.
FifoExact ==
    \A i \in Proc :
        queued[i] = taken[i] \o [k \in DOMAIN OnTheWay(i) |-> pairOf[OnTheWay(i)[k]]]

\* An address on its way is that of an FHPair, it is on the way to the
\* processor it selects, and only once; every FHPair is on the way.
Routed ==
    /\ \A i \in Proc : \A k \in DOMAIN OnTheWay(i) :
          pairOf[OnTheWay(i)[k]] # NULL /\ Index(OnTheWay(i)[k]) = i
    /\ \A i \in Proc : \A j, k \in DOMAIN OnTheWay(i) :
          OnTheWay(i)[j] = OnTheWay(i)[k] => j = k
    /\ \A a \in PairAddr : pairOf[a] # NULL =>
          \E k \in DOMAIN OnTheWay(Index(a)) : OnTheWay(Index(a))[k] = a

\* Connection c has an FHPair; a processor serves it.
Paired(c)    == \E a \in PairAddr : pairOf[a] = c
ServedNow(c) == \E i \in Proc : c \in owned[i]

\* Who has a connection, and what its sockets and the batch then are.
Held(c) ==
    /\ client[c] = "open" <=> broker[c] = "open"
    /\ watch[c] # "off" \/ Paired(c) \/ ServedNow(c) => client[c] = "open"
    /\ "add" \notin Fault /\ client[c] = "open" =>
          watch[c] # "off" \/ Paired(c) \/ ServedNow(c)
    /\ watch[c] # "off" => ~Paired(c) /\ ~ServedNow(c)
    /\ Paired(c) => ~ServedNow(c)
    /\ \A a, b \in PairAddr : pairOf[a] = c /\ pairOf[b] = c => a = b
    /\ \A i, j \in Proc : c \in owned[i] /\ c \in owned[j] => i = j
    /\ <<"connect", c>> \in batch => watch[c] = "fired"

\* The inductive invariant: OneHolder counts, and a step keeps the count only
\* if the parts of the program agree on who has what.
IInv == TypeOK /\ Routed /\ \A c \in Conn : Held(c)

\* An address that did not fit in its pipe is not left to the one-second
\* timeout: while the loop waits, its pipe is registered, if it could be.
BlockedPipeArmed ==
    mpc = "wait" => \A i \in Proc : HasOut(i) => pipeReg[i] \in {"armed", "none"}

\* The comment at proxy_handler.cpp:185: the socket of a connection attempt in
\* progress is registered, so that somebody learns how the attempt ends.
ConnectingWatched ==
    \A c \in Conn :
        type[c] = "FT_Connecting" /\ broker[c] = "open" => watch[c] # "off"

\* A client in the backlog is in the end served by a processor or closed, if
\* accept() does not fail for ever.
Served ==
    <>[][\A c \in Conn : ~AcceptFailed(c)]_vars =>
    \A c \in Conn :
        client[c] = "backlog" ~>
            (client[c] = "closed" \/ \E i \in Proc : c \in owned[i])
=============================================================================
