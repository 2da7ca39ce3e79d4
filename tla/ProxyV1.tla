------------------------------- MODULE ProxyV1 -------------------------------
(***************************************************************************)
(* The first proxy, src/mq-proxy: a main thread that waits on epoll and    *)
(* queues the handles that are ready (proxy_handler.cpp), and a pool of    *)
(* processors that take handles from the queue, read a frame and write it  *)
(* to the partner themselves (processor.cpp, packet.cpp, fdhandle.cpp).    *)
(*                                                                         *)
(* The directory is unfinished and does not compile.  The model reads it   *)
(* with these repairs: `fd` in doDataOut is `fh`, `partner` is a plain     *)
(* FdHandle pointer, the removed member `data` of FdHandle is nobody's     *)
(* business in FHDestory, and the constructor of FdHandle sets data_in and *)
(* data_out to NULL where it now sets `data` (fdhandle.h:54).              *)
(*                                                                         *)
(* Much of the code can never run, and has no action here.  Packet::Read   *)
(* and Packet::Write compare what read(2) and write(2) RETURN with EAGAIN; *)
(* that is -1, so they never return Again, data_out is never set, and      *)
(* doDataOut returns at its first line.  The main thread's test for either *)
(* of two events comes before the tests for one of them.  A socket that    *)
(* waits for input never shows EPOLLERR alone.                             *)
(*                                                                         *)
(* The client's socket "S" is left blocking, although Read and Write say   *)
(* that theirs must not be (packet.cpp:51, 109); the broker's socket "C"   *)
(* is not.  A frame is two chunks; a "bad" first chunk announces too much, an *)
(* "empty" one announces nothing.  Push and Pop are single steps: TSQueue  *)
(* is the queue of module BlockingQueue.  Every handle has an address of   *)
(* its own, and the first use of a freed handle ends the behaviour.        *)
(***************************************************************************)
EXTENDS Integers, Sequences, FiniteSets, SequencesExt

CONSTANTS Sess,    \* connections that may arrive
          Worker,  \* processor threads (four in main.cpp)
          QSize,   \* capacity of the queue (10000 in main.cpp)
          Cap,     \* chunks a socket's send buffer holds
          Plans,   \* what the remote ends of the handles may do: see Act
          NULL

Handle  == Sess \X {"S", "C"}
Listen  == NULL      \* the handle of the listening socket
LastChunk == 2

\* Sending a frame, by the kind of its first chunk, and closing.
HeadKind == {"head", "bad", "empty"}
Close    == {"fin", "rst"}
Act      == HeadKind \cup Close

ASSUME ProxyV1Assumption ==
    /\ IsFiniteSet(Sess) /\ IsFiniteSet(Worker)
    /\ QSize \in Nat \ {0} /\ Cap \in Nat \ {0}
    /\ Plans \subseteq [Handle -> SUBSET Act]
    /\ NULL \notin Handle

VARIABLES
    alive,   \* "none", "live" or "freed": the FdHandle
    state,   \* its state
    armed,   \* its one-shot registration with epoll has not fired yet
    plan,    \* what the remote ends will do in this behaviour
    client,  \* the client of a session: "away", "backlog", "taken", "closed"
    broker,  \* the connection to the broker: "none", "pending", "up", "refused"
    peer,    \* what the remote end of a socket has done: "open", "fin", "rst"
    sent,    \* chunks it has sent
    rcv,     \* chunks received and not yet read
    room,    \* free chunks of the send buffer
    wire,    \* chunks written: <<the handle they were read from, their number>>
    batch,   \* events of the last epoll_wait, not yet handled
    que,     \* que_
    wk,      \* what each processor is doing
    rival,   \* sessions both of whose handles were in flight at once
    used,    \* the freed handle a thread has used, if any
    gone     \* the process has come to its end

net  == <<plan, client, broker, peer, sent>>
data == <<rcv, room, wire>>
fhs  == <<alive, state, armed>>
vars == <<fhs, net, data, batch, que, wk, rival, used, gone>>

-----------------------------------------------------------------------------
S(c) == <<c, "S">>
C(c) == <<c, "C">>
Partner(h)  == <<h[1], IF h[2] = "S" THEN "C" ELSE "S">>
Blocking(h) == h[2] = "S"
Idle        == [pc |-> "pop", fh |-> NULL, n |-> 0]

\* Who holds a handle besides epoll: the main thread, the queue, a processor.
InFlight(h) ==
    \/ h \in ToSet(batch)
    \/ h \in ToSet(que)
    \/ \E w \in Worker : wk[w].fh = h

Connected(h) == IF Blocking(h) THEN client[h[1]] # "away" ELSE broker[h[1]] = "up"

Pending ==
    {h \in Handle :
        /\ armed[h]
        /\ IF state[h] = "Connecting" THEN broker[h[1]] # "pending"
                                      ELSE rcv[h] # <<>> \/ peer[h] # "open"}
    \cup {e \in {Listen} : \E c \in Sess : client[c] = "backlog"}

Init ==
    /\ alive = [h \in Handle |-> "none"]
    /\ state = [h \in Handle |-> "None"]
    /\ armed = [h \in Handle |-> FALSE]
    /\ plan \in Plans
    /\ client = [c \in Sess |-> "away"]
    /\ broker = [c \in Sess |-> "none"]
    /\ peer = [h \in Handle |-> "open"]
    /\ sent = [h \in Handle |-> 0]
    /\ rcv = [h \in Handle |-> <<>>]
    /\ room = [h \in Handle |-> Cap]
    /\ wire = [h \in Handle |-> <<>>]
    /\ batch = <<>>
    /\ que = <<>>
    /\ wk = [w \in Worker |-> Idle]
    /\ rival = {}
    /\ used = {}
    /\ gone = FALSE

-----------------------------------------------------------------------------
(***************************************************************************)
(* The main thread: ProxyHandler::threadFunc_.                             *)
(***************************************************************************)
\* multiplexer_->Wait: everything that is ready, in any order.  A one-shot
\* registration that is reported is disarmed.
\* Broken variant: registered without MTP_EV_ONESHOT once connected.
DisarmConnecting(B) ==
    armed' = [h \in Handle |-> armed[h] /\ (h \in B => state[h] # "Connecting")]

Disarm(B) == armed' = [h \in Handle |-> armed[h] /\ h \notin B]

Wait ==
    /\ ~gone
    /\ batch = <<>>
    /\ Pending # {}
    /\ batch' \in SetToSeqs(Pending)
    /\ Disarm(Pending)
    /\ rival' = rival \cup
                {c \in Sess : \A h \in {S(c), C(c)} : InFlight(h) \/ h \in Pending}
    /\ UNCHANGED <<alive, state, net, data, que, wk, used, gone>>

\* The event at hand, once its handle is known not to have been freed.
Event(e) ==
    /\ ~gone
    /\ batch # <<>> /\ Head(batch) = e
    /\ e # Listen => alive[e] = "live"
    /\ batch' = Tail(batch)
    /\ UNCHANGED <<plan, peer, sent, data, wk, rival, used, gone>>

\* accept() fails: the client stays where it is.
AcceptFailed ==
    /\ Event(Listen)
    /\ UNCHANGED <<fhs, client, broker, que>>

\* No socket for the broker, or connect() fails at once: the client is closed.
AcceptDropped(c) ==
    /\ Event(Listen)
    /\ client[c] = "backlog"
    /\ client' = [client EXCEPT ![c] = "closed"]
    /\ alive' = [alive EXCEPT ![S(c)] = "freed"]
    /\ UNCHANGED <<state, armed, broker, que>>

\* connect() succeeds at once: only the client's socket is registered.
AcceptConnected(c) ==
    /\ Event(Listen)
    /\ client[c] = "backlog"
    /\ client' = [client EXCEPT ![c] = "taken"]
    /\ broker' = [broker EXCEPT ![c] = "up"]
    /\ alive' = [alive EXCEPT ![S(c)] = "live", ![C(c)] = "live"]
    /\ armed' = [armed EXCEPT ![S(c)] = TRUE]
    /\ UNCHANGED <<state, que>>

AcceptConnecting(c) ==
    /\ Event(Listen)
    /\ client[c] = "backlog"
    /\ client' = [client EXCEPT ![c] = "taken"]
    /\ broker' = [broker EXCEPT ![c] = "pending"]
    /\ alive' = [alive EXCEPT ![S(c)] = "live", ![C(c)] = "live"]
    /\ state' = [state EXCEPT ![C(c)] = "Connecting"]
    /\ armed' = [armed EXCEPT ![C(c)] = TRUE]
    /\ UNCHANGED que

\* The attempt to connect has succeeded: both sockets wait for input.
OnConnected(h) ==
    /\ Event(h)
    /\ state[h] = "Connecting" /\ broker[h[1]] = "up"
    /\ armed' = [armed EXCEPT ![Partner(h)] = TRUE, ![h] = TRUE]
    /\ state' = [state EXCEPT ![h] = "None"]
    /\ UNCHANGED <<alive, client, broker, que>>

OnConnectFailed(h) ==
    /\ Event(h)
    /\ state[h] = "Connecting" /\ broker[h[1]] = "refused"
    /\ alive' = [alive EXCEPT ![Partner(h)] = "freed", ![h] = "freed"]
    /\ UNCHANGED <<state, armed, client, broker, que>>

\* TSQueue::Push waits for room; the broken variant does not.
HasRoomAlways == TRUE
HasRoom       == Len(que) < QSize

\* Push waits while the queue is full, and the main thread with it.
OnReady(h) ==
    /\ Event(h)
    /\ state[h] # "Connecting"
    /\ HasRoom
    /\ state' = [state EXCEPT ![h] = "ReadWrite"]
    /\ que' = Append(que, h)
    /\ UNCHANGED <<alive, armed, client, broker>>

MainUseFreed ==
    /\ ~gone
    /\ batch # <<>> /\ Head(batch) # Listen /\ alive[Head(batch)] = "freed"
    /\ used' = {Head(batch)}
    /\ gone' = TRUE
    /\ UNCHANGED <<fhs, net, data, batch, que, wk, rival>>

Main ==
    \/ Wait
    \/ AcceptFailed
    \/ \E c \in Sess : AcceptDropped(c) \/ AcceptConnected(c) \/ AcceptConnecting(c)
    \/ \E h \in Handle : OnConnected(h) \/ OnConnectFailed(h) \/ OnReady(h)
    \/ MainUseFreed

-----------------------------------------------------------------------------
(***************************************************************************)
(* A processor: Processor::threadFunc_.                                    *)
(***************************************************************************)
\* The handles the next step of processor w uses.
Uses(w) ==
    CASE wk[w].pc = "pop" -> {}
      [] wk[w].pc \in {"read", "self"} -> {wk[w].fh}
      [] wk[w].pc \in {"write", "partner"} -> {wk[w].fh, Partner(wk[w].fh)}

Ready(w, pc) ==
    /\ ~gone
    /\ wk[w].pc = pc
    /\ \A h \in Uses(w) : alive[h] = "live"

At(w, pc) ==
    /\ Ready(w, pc)
    /\ UNCHANGED <<net, batch, rival, used, gone>>

Goto(w, pc) == wk' = [wk EXCEPT ![w].pc = pc, ![w].n = 0]

\* Pop.  state is ReadWrite: doDataOut finds no data_out, doDataIn begins.
Pop(w) ==
    /\ At(w, "pop")
    /\ que # <<>>
    /\ wk' = [wk EXCEPT ![w] = [pc |-> "read", fh |-> Head(que), n |-> 0]]
    /\ que' = Tail(que)
    /\ UNCHANGED <<fhs, data>>

\* Packet::Read takes a chunk; with the last one the packet is done and
\* doDataConv makes it the packet to write to the partner.
ReadChunk(w) ==
    LET h == wk[w].fh IN
    /\ At(w, "read")
    /\ rcv[h] # <<>> /\ Head(rcv[h]) \notin {"bad", "empty"}
    /\ rcv' = [rcv EXCEPT ![h] = Tail(@)]
    /\ IF wk[w].n + 1 = LastChunk THEN Goto(w, "write")
                                  ELSE wk' = [wk EXCEPT ![w].n = @ + 1]
    /\ UNCHANGED <<fhs, room, wire, que>>

\* SockOff: the end of the stream, or the 0 a read of 0 bytes returns.
ReadOff(w) ==
    LET h == wk[w].fh IN
    /\ At(w, "read")
    /\ \/ rcv[h] = <<>> /\ peer[h] = "fin"
       \/ rcv[h] # <<>> /\ Head(rcv[h]) = "empty"
    /\ Goto(w, "partner")
    /\ UNCHANGED <<fhs, data, que>>

\* read(2) has nothing to give now, which only the broker's socket says.  Broken
\* variant: EAGAIN is tried again at once, as EINTR is meant to be.
AgainSpin(h) == FALSE
Again(h)     == rcv[h] = <<>> /\ peer[h] = "open" /\ ~Blocking(h)

\* HeaderErr or Errno; EAGAIN is one.
ReadErr(w) ==
    LET h == wk[w].fh IN
    /\ At(w, "read")
    /\ \/ Again(h)
       \/ rcv[h] = <<>> /\ peer[h] = "rst"
       \/ rcv[h] # <<>> /\ Head(rcv[h]) = "bad"
    /\ Goto(w, "partner")
    /\ UNCHANGED <<fhs, data, que>>

\* What k chunks from op_base_ on put on the wire of handle p.
Put(w, p, from, k) ==
    /\ wire' = [wire EXCEPT ![p] =
                  @ \o [i \in 1..k |-> <<wk[w].fh, from + i>>]]
    /\ room' = [room EXCEPT ![p] = @ - k]
    /\ wk' = [wk EXCEPT ![w] = IF wk[w].n + k = LastChunk
                               THEN Idle
                               ELSE [wk[w] EXCEPT !.n = wk[w].n + k]]
    /\ UNCHANGED <<fhs, rcv, que>>

\* Broken variant: written back to where it came from.
TargetSelf(h) == h

\* new_pack->Write(fh->partner->fd).
Target(h) == Partner(h)

\* To a client: one write(2), which sleeps while there is no room.
WriteBlocking(w) ==
    LET p == Target(wk[w].fh) IN
    /\ At(w, "write")
    /\ Blocking(p) /\ peer[p] # "rst" /\ room[p] > 0
    /\ Put(w, p, wk[w].n, 1)

\* To the broker: write(2) takes what fits.  op_base_ does not advance.
WriteNonblocking(w) ==
    LET p == Target(wk[w].fh)
        left == LastChunk - wk[w].n IN
    /\ At(w, "write")
    /\ ~Blocking(p) /\ peer[p] # "rst" /\ room[p] > 0
    /\ Put(w, p, 0, IF room[p] < left THEN room[p] ELSE left)

\* EAGAIN or a reset connection: Errno.
WriteErr(w) ==
    LET p == Target(wk[w].fh) IN
    /\ At(w, "write")
    /\ \/ ~Blocking(p) /\ room[p] = 0
       \/ peer[p] = "rst"
    /\ Goto(w, "partner")
    /\ UNCHANGED <<fhs, data, que>>

\* FHDestory.
Free(h) ==
    /\ alive' = [alive EXCEPT ![h] = "freed"]
    /\ armed' = [armed EXCEPT ![h] = FALSE]
    /\ UNCHANGED state

\* DESTORY_FH frees the partner and then the handle.  Broken variant: the handle
\* goes first.
FirstSelf(h) == h
First(h)     == Partner(h)

DestroyPartner(w) ==
    /\ At(w, "partner")
    /\ Free(First(wk[w].fh))
    /\ Goto(w, "self")
    /\ UNCHANGED <<data, que>>

DestroySelf(w) ==
    /\ At(w, "self")
    /\ Free(wk[w].fh)
    /\ wk' = [wk EXCEPT ![w] = Idle]
    /\ UNCHANGED <<data, que>>

\* A write after a reset may raise SIGPIPE, which nothing ignores.
Sigpipe(w) ==
    /\ Ready(w, "write")
    /\ peer[Target(wk[w].fh)] = "rst"
    /\ gone' = TRUE
    /\ UNCHANGED <<fhs, net, data, batch, que, wk, rival, used>>

WorkerUseFreed(w) ==
    /\ ~gone
    /\ \E h \in Uses(w) : alive[h] = "freed" /\ used' = {h}
    /\ gone' = TRUE
    /\ UNCHANGED <<fhs, net, data, batch, que, wk, rival>>

Processor(w) ==
    \/ Pop(w)
    \/ ReadChunk(w) \/ ReadOff(w) \/ ReadErr(w)
    \/ WriteBlocking(w) \/ WriteNonblocking(w) \/ WriteErr(w)
    \/ DestroyPartner(w) \/ DestroySelf(w)
    \/ Sigpipe(w) \/ WorkerUseFreed(w)

-----------------------------------------------------------------------------
(***************************************************************************)
(* The remote ends.                                                        *)
(***************************************************************************)
Env == ~gone /\ UNCHANGED <<fhs, plan, batch, que, wk, rival, used, gone>>

Arrive(c) ==
    /\ Env
    /\ client[c] = "away" /\ plan[S(c)] # {}
    /\ client' = [client EXCEPT ![c] = "backlog"]
    /\ UNCHANGED <<broker, peer, sent, data>>

Answer(c) ==
    /\ Env
    /\ broker[c] = "pending"
    /\ broker' \in {[broker EXCEPT ![c] = a] : a \in {"up", "refused"}}
    /\ UNCHANGED <<client, peer, sent, data>>

\* A remote end sends one frame at most: nobody reads a second one.
PeerSend(h) ==
    /\ Env
    /\ Connected(h) /\ peer[h] = "open"
    /\ sent[h] < LastChunk
    /\ sent' = [sent EXCEPT ![h] = @ + 1]
    /\ \E k \in (IF sent[h] = 0 THEN plan[h] \cap HeadKind ELSE {"rest"}) :
          rcv' = [rcv EXCEPT ![h] = Append(@, k)]
    /\ UNCHANGED <<client, broker, peer, room, wire>>

PeerTake(h) ==
    /\ Env
    /\ room[h] < Cap
    /\ room' = [room EXCEPT ![h] = @ + 1]
    /\ UNCHANGED <<client, broker, peer, sent, rcv, wire>>

PeerClose(h) ==
    /\ Env
    /\ Connected(h) /\ peer[h] # "rst"
    /\ \E how \in (plan[h] \cap Close) \ {peer[h]} : peer' = [peer EXCEPT ![h] = how]
    /\ UNCHANGED <<client, broker, sent, data>>

Remote ==
    \/ \E c \in Sess : Arrive(c) \/ Answer(c)
    \/ \E h \in Handle : PeerSend(h) \/ PeerTake(h) \/ PeerClose(h)

Next == Main \/ (\E w \in Worker : Processor(w)) \/ Remote

Spec == Init /\ [][Next]_vars

\* Every thread of the process gets the processor again and again.
FairSpec ==
    /\ Spec
    /\ WF_vars(Main)
    /\ \A w \in Worker : WF_vars(Processor(w))

-----------------------------------------------------------------------------
(***************************************************************************)
(* Properties.                                                             *)
(***************************************************************************)
\* Types, and what a processor holds in each of its places.
TypeOK ==
    /\ alive \in [Handle -> {"none", "live", "freed"}]
    /\ state \in [Handle -> {"None", "Connecting", "ReadWrite"}]
    /\ armed \in [Handle -> BOOLEAN]
    /\ plan \in Plans
    /\ client \in [Sess -> {"away", "backlog", "taken", "closed"}]
    /\ broker \in [Sess -> {"none", "pending", "up", "refused"}]
    /\ peer \in [Handle -> {"open", "fin", "rst"}]
    /\ sent \in [Handle -> 0..LastChunk]
    /\ rcv \in [Handle -> Seq(HeadKind \cup {"rest"})]
    /\ room \in [Handle -> 0..Cap]
    /\ wire \in [Handle -> Seq(Handle \X (1..LastChunk))]
    /\ batch \in Seq(Handle \cup {Listen})
    /\ que \in Seq(Handle) /\ Len(que) <= QSize
    /\ wk \in [Worker -> [pc : {"pop", "read", "write", "partner", "self"},
                          fh : Handle \cup {NULL}, n : 0..(LastChunk - 1)]]
    /\ rival \subseteq Sess
    /\ used \subseteq Handle /\ gone \in BOOLEAN
    /\ \A w \in Worker : wk[w].pc = "pop" <=> wk[w].fh = NULL

\* The one-shot registrations hand a handle round: it waits in epoll, or is in
\* one place of the batch, of the queue, or with one processor.  Two of these
\* at a time, and two threads would read the same packet into one buffer.
Occurrences(h) ==
    Cardinality({i \in DOMAIN batch : batch[i] = h})
    + Cardinality({i \in DOMAIN que : que[i] = h})
    + Cardinality({w \in Worker : wk[w].fh = h})
    + (IF armed[h] THEN 1 ELSE 0)

OneHandler == \A h \in Handle : Occurrences(h) <= 1

\* What goes out on a socket was read from its partner, and a client gets the
\* chunks of the frame in order.  (The broker does not: WriteNonblocking.)
FramesApart ==
    \A h \in Handle : \A i \in DOMAIN wire[h] :
        /\ wire[h][i][1] = Partner(h)
        /\ Blocking(h) => wire[h][i][2] = i

\* DESTORY_FH frees the partner without asking who holds it.  That goes wrong
\* only for a session both of whose handles were in flight at once.
FreedNeedsRival == \A h \in used : h[1] \in rival

\* A processor asleep in a read or write of a client's socket.
Asleep(w) ==
    \/ /\ wk[w].pc = "read" /\ Blocking(wk[w].fh)
       /\ rcv[wk[w].fh] = <<>> /\ peer[wk[w].fh] = "open"
    \/ /\ wk[w].pc = "write" /\ Blocking(Partner(wk[w].fh))
       /\ room[Partner(wk[w].fh)] = 0 /\ peer[Partner(wk[w].fh)] # "rst"

\* What is queued is taken, to the last handle, unless the process goes, or
\* clients that send half a frame or do not read put every processor to sleep.
Popped ==
    que # <<>> ~> (que = <<>> \/ gone \/ \A w \in Worker : Asleep(w))
=============================================================================
