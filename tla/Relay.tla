-------------------------------- MODULE Relay --------------------------------
(***************************************************************************)
(* One IOProcessor thread of mq-proxy2 (io_processor.cpp) with the         *)
(* FdHandle objects it serves (fdhandle.h, fdhandle.cpp), the epoll        *)
(* instance it waits on (multiplexer.cpp), its pipe and its sockets.       *)
(*                                                                         *)
(* A pair is one proxied connection: an "S" socket to a client and a "C"   *)
(* socket to the broker, each with an FdHandle.  A handle lives at a heap  *)
(* address; ClearFHPair frees both handles of a pair and the main thread,  *)
(* which allocates handles for new connections at any moment, may get the  *)
(* same addresses again: one handle after the other, so that an event that *)
(* is stale may meet a handle that is not paired yet, or one whose socket  *)
(* is still being connected.                                               *)
(*                                                                         *)
(* Frames travel in chunks, so that a frame may be half read or half       *)
(* written: the last chunk of a frame is of kind "end", those before it are *)
(* of kind "part".  A "bad" chunk makes Packet::Read give up: a header     *)
(* that announces too much, or an empty body (see PacketIO).  Chunk j of   *)
(* the stream that the remote end of socket s sends is <<s, j>>.           *)
(***************************************************************************)
EXTENDS Integers, Sequences, FiniteSets

CONSTANTS Pair,    \* connections that may arrive
          Handle,  \* heap addresses an FdHandle may get
          Script,  \* Script[s]: the kinds of the chunks sent to socket s
          SndCap,  \* chunks a socket's send buffer holds
          MAX_EV,  \* events one epoll_wait returns at most (multiplexer.h)
          NULL

Side == {"S", "C"}
Sock == Pair \X Side

ASSUME RelayAssumption ==
    /\ Script \in [Sock -> Seq({"part", "end", "bad"})]
    /\ SndCap \in Nat \ {0}
    /\ MAX_EV \in Nat \ {0}
    /\ NULL \notin Handle \cup Sock \cup Pair

VARIABLES
    \* the FdHandle at each address
    fd,       \* fd_, a socket; NULL when nothing is allocated there
    partner,  \* partner_
    inSave,   \* data_in_save_: the chunks of a frame read in part
    outSave,  \* data_out_save_: the chunks still to write of a frame
    outQ,     \* out_que_: frames to write
    \* the kernel's part of each socket, and its remote end
    interest, \* events registered with epoll; {} when not registered
    rcv,      \* chunks received and not yet read
    snd,      \* chunks written and not yet taken by the remote end
    peer,     \* what the remote end has done: "open", "fin", "rst" or both
    sentN,    \* chunks the remote end has sent
    got,      \* chunks the remote end has received
    \* the main thread
    started,    \* the connections it has set up or given up so far
    accepting,  \* the connection it is setting up, or NULL
    half,       \* half[d]: the handle it has allocated for side d of that
                \* connection and not yet paired, or NULL
    connecting, \* connections whose "C" handle is of type FT_Connecting
    \* the thread
    pipe,     \* FHPair pointers queued for the pipe or written to it (see
              \* Handoff) and not yet read
    batch,    \* events epoll_wait returned and loop() has not yet handled
    pc,       \* where loop() is: see Location
    cur, ev,  \* handle and events of the socket event being handled
    stale     \* an event met a handle that is not the one it was meant for

handles == <<fd, partner, inSave, outSave, outQ>>
remote  == <<peer, sentN, got>>
main    == <<started, accepting, half, connecting>>
vars    == <<handles, interest, rcv, snd, remote, main, pipe, batch,
             pc, cur, ev, stale>>

\* "loop": at the head of one of the two loops of IOProcessor::loop, "read",
\* "arm" and "write": in the three parts of a socket event, "pipe": in the
\* pipe event, "dead": the process is gone.
Location == {"loop", "read", "arm", "write", "pipe", "dead"}

-----------------------------------------------------------------------------
Other(s)  == <<s[1], IF s[2] = "S" THEN "C" ELSE "S">>
Chunk     == UNION {{s} \X (1..Len(Script[s])) : s \in Sock}
Kind(c)   == Script[c[1]][c[2]]
Live(h)   == fd[h] # NULL
Open(s)   == \E h \in Handle : fd[h] = s
Half(h)   == \E d \in Side : half[d] = h
Room(s)   == Len(snd[s]) < SndCap
Reset(s)  == peer[s] \in {"rst", "finrst"}
HasOut(h) == outSave[h] # <<>> \/ outQ[h] # <<>>

\* hasDataOut looks at the queue only.  The mutant is off by one.
hasDataOutMore(h) == Len(outQ[h]) > 1
hasDataOut(h)     == outQ[h] # <<>>

\* DoRead finds the end of the stream, or a reset.  The mutants take EAGAIN for
\* an error, and the end of the stream for EAGAIN.
EndedAny(s)   == rcv[s] = <<>>
EndedNever(s) == FALSE
Ended(s)      == rcv[s] = <<>> /\ peer[s] # "open"

\* Packet::Read of the chunks w in front of it: the chunk it takes ends a
\* frame, or leaves it incomplete.
Completes(w) == w # <<>> /\ Kind(Head(w)) = "end"
Extends(w)   == w # <<>> /\ Kind(Head(w)) = "part"
Rejects(w)   == w # <<>> /\ Kind(Head(w)) = "bad"

\* The packet DoWrite works on, and what it leaves in the queue.
Frame(h)  == IF outSave[h] # <<>> THEN outSave[h] ELSE Head(outQ[h])
RestQ(h)  == IF outSave[h] # <<>> THEN outQ[h] ELSE Tail(outQ[h])

\* What Packet::Write leaves of frame f when it has written a chunk, and when
\* the socket is full.  The mutants do not advance, or drop the frame.
WrittenNot(f) == f
Written(f)    == Tail(f)
BlockedNot(f) == <<>>
Blocked(f)    == f

\* What epoll_wait reports of socket s.  A reset shows as readable and writable.
Ready(s) ==
    {e \in interest[s] :
        \/ Reset(s)
        \/ e = "IN"  /\ (rcv[s] # <<>> \/ peer[s] # "open")
        \/ e = "OUT" /\ Room(s)}

\* An event carries the address given to epoll when the socket was registered;
\* sock records which socket that was.  The pipe has an event of its own.
PipeEvent == [ptr |-> NULL, sock |-> NULL, ev |-> {"IN"}]

Event ==
    [ptr : Handle, sock : Sock, ev : SUBSET {"IN", "OUT"}] \cup {PipeEvent}

Pending ==
    {[ptr |-> h, sock |-> fd[h], ev |-> Ready(fd[h])] :
        h \in {x \in Handle : Live(x) /\ Ready(fd[x]) # {}}}
    \cup {e \in {PipeEvent} : pipe # <<>>}

Init ==
    /\ fd = [h \in Handle |-> NULL]
    /\ partner = [h \in Handle |-> NULL]
    /\ inSave = [h \in Handle |-> <<>>]
    /\ outSave = [h \in Handle |-> <<>>]
    /\ outQ = [h \in Handle |-> <<>>]
    /\ interest = [s \in Sock |-> {}]
    /\ rcv = [s \in Sock |-> <<>>]
    /\ snd = [s \in Sock |-> <<>>]
    /\ peer = [s \in Sock |-> "open"]
    /\ sentN = [s \in Sock |-> 0]
    /\ got = [s \in Sock |-> <<>>]
    /\ started = {}
    /\ accepting = NULL
    /\ half = [d \in Side |-> NULL]
    /\ connecting = {}
    /\ pipe = <<>>
    /\ batch = {}
    /\ pc = "loop"
    /\ cur = NULL
    /\ ev = {}
    /\ stale = FALSE

-----------------------------------------------------------------------------
(***************************************************************************)
(* The I/O processor's thread.                                             *)
(***************************************************************************)
\* multiplexer_.Wait: at most MAX_EV of the pending events, in any order.
Wait ==
    /\ pc = "loop" /\ batch = {}
    /\ \E B \in SUBSET Pending :
          /\ B # {}
          /\ Cardinality(B) <= MAX_EV
          /\ Cardinality(B) < MAX_EV => B = Pending
          /\ batch' = B
    /\ UNCHANGED <<handles, interest, rcv, snd, remote, main, pipe, pc,
                   cur, ev, stale>>

\* The next event is the pipe's.
DispatchPipe ==
    /\ pc = "loop" /\ PipeEvent \in batch
    /\ batch' = batch \ {PipeEvent}
    /\ pc' = "pipe"
    /\ UNCHANGED <<handles, interest, rcv, snd, remote, main, pipe, cur,
                   ev, stale>>

\* The type of a "C" handle while its socket is being connected.
FT_Connecting(h) == fd[h][2] = "C" /\ fd[h][1] \in connecting

\* The next event is for a handle: loop() casts the address it carries.
Dispatch(e) ==
    /\ pc = "loop" /\ e \in batch \ {PipeEvent}
    /\ Live(e.ptr) /\ ~FT_Connecting(e.ptr)
    /\ batch' = batch \ {e}
    /\ pc' = IF "IN" \in e.ev THEN "read" ELSE "arm"
    /\ cur' = e.ptr
    /\ ev' = e.ev
    /\ stale' = (stale \/ fd[e.ptr] # e.sock)
    /\ UNCHANGED <<handles, interest, rcv, snd, remote, main, pipe>>

\* The handle was freed while the event was in the batch, and the address may
\* be that of a handle the main thread has not paired yet: loop() then calls a
\* method of its partner, which is NULL, or frees it under the main thread.
\* What follows is undefined; the model stops here.
DispatchFreed(e) ==
    /\ pc = "loop" /\ e \in batch \ {PipeEvent} /\ ~Live(e.ptr)
    /\ batch' = batch \ {e}
    /\ pc' = "dead"
    /\ stale' = TRUE
    /\ UNCHANGED <<handles, interest, rcv, snd, remote, main, pipe, cur, ev>>

\* loop() passes over a handle whose type is FT_Connecting, or still FT_None.
DispatchOther(e) ==
    /\ pc = "loop" /\ e \in batch \ {PipeEvent}
    /\ IF Live(e.ptr) THEN FT_Connecting(e.ptr) ELSE Half(e.ptr)
    /\ batch' = batch \ {e}
    /\ stale' = TRUE
    /\ UNCHANGED <<handles, interest, rcv, snd, remote, main, pipe, pc, cur, ev>>

\* Effect of a set of handles being deleted (~FdHandle): their buffers go,
\* their sockets are closed and leave the epoll set.  Closing a socket with
\* unread data resets the connection, and what it had still to send is lost.
Delete(H) ==
    LET S == {fd[h] : h \in H} IN
    /\ fd' = [h \in Handle |-> IF h \in H THEN NULL ELSE fd[h]]
    /\ partner' = [h \in Handle |-> IF h \in H THEN NULL ELSE partner[h]]
    /\ inSave' = [h \in Handle |-> IF h \in H THEN <<>> ELSE inSave[h]]
    /\ outSave' = [h \in Handle |-> IF h \in H THEN <<>> ELSE outSave[h]]
    /\ outQ' = [h \in Handle |-> IF h \in H THEN <<>> ELSE outQ[h]]
    /\ interest' = [s \in Sock |-> IF s \in S THEN {} ELSE interest[s]]
    /\ snd' = [s \in Sock |->
                 IF s \in S /\ rcv[s] # <<>> THEN <<>> ELSE snd[s]]
    /\ rcv' = [s \in Sock |-> IF s \in S THEN <<>> ELSE rcv[s]]

\* ClearFHPair deletes a handle and its partner; the mutant forgets the partner.
ClearSelfOnly(h) == Delete({h})
ClearFHPair(h)   == Delete({h, partner[h]})

\* The for loop goes on to the next event.
Continue ==
    /\ pc' = "loop"
    /\ cur' = NULL
    /\ ev' = {}

\* DoRead leaves a frame incomplete and reads on.
ReadPart ==
    /\ pc = "read" /\ Extends(rcv[fd[cur]])
    /\ inSave' = [inSave EXCEPT ![cur] = Append(@, Head(rcv[fd[cur]]))]
    /\ rcv' = [rcv EXCEPT ![fd[cur]] = Tail(@)]
    /\ UNCHANGED <<fd, partner, outSave, outQ, interest, snd, remote, main,
                   pipe, batch, pc, cur, ev, stale>>

\* DoRead returns IO_Done: the frame goes to the partner's queue.
ReadFrame ==
    /\ pc = "read" /\ Completes(rcv[fd[cur]])
    /\ outQ' = [outQ EXCEPT ![partner[cur]] =
                   Append(@, Append(inSave[cur], Head(rcv[fd[cur]])))]
    /\ inSave' = [inSave EXCEPT ![cur] = <<>>]
    /\ rcv' = [rcv EXCEPT ![fd[cur]] = Tail(@)]
    /\ UNCHANGED <<fd, partner, outSave, interest, snd, remote, main, pipe,
                   batch, pc, cur, ev, stale>>

\* DoRead returns IO_HeaderErr, or IO_SockOff for an empty body.
ReadBad ==
    /\ pc = "read" /\ Rejects(rcv[fd[cur]])
    /\ ClearFHPair(cur)
    /\ Continue
    /\ UNCHANGED <<remote, main, pipe, batch, stale>>

\* DoRead returns IO_SockOff at the end of the stream, or IO_Errno after a
\* reset.
ReadClosed ==
    /\ pc = "read" /\ Ended(fd[cur])
    /\ ClearFHPair(cur)
    /\ Continue
    /\ UNCHANGED <<remote, main, pipe, batch, stale>>

\* DoRead returns IO_Again.
ReadBlocked ==
    /\ pc = "read" /\ rcv[fd[cur]] = <<>> /\ ~Ended(fd[cur])
    /\ pc' = "arm"
    /\ UNCHANGED <<handles, interest, rcv, snd, remote, main, pipe, batch,
                   cur, ev, stale>>

\* The partner is armed for writing if frames wait in its queue; a handle that
\* is not registered (epoll_ctl: ENOENT) is left alone.
Arm ==
    LET p == fd[partner[cur]] IN
    /\ pc = "arm"
    /\ interest' = IF hasDataOut(partner[cur]) /\ interest[p] # {}
                     THEN [interest EXCEPT ![p] = {"IN", "OUT"}]
                     ELSE interest
    /\ IF "OUT" \in ev THEN pc' = "write" /\ UNCHANGED <<cur, ev>> ELSE Continue
    /\ UNCHANGED <<handles, rcv, snd, remote, main, pipe, batch, stale>>

\* Packet::Write puts one more chunk into the socket's send buffer.
WriteChunk ==
    LET s == fd[cur] IN
    /\ pc = "write" /\ HasOut(cur) /\ ~Reset(s) /\ Room(s)
    /\ snd' = [snd EXCEPT ![s] = Append(@, Head(Frame(cur)))]
    /\ outSave' = [outSave EXCEPT ![cur] = Written(Frame(cur))]
    /\ outQ' = [outQ EXCEPT ![cur] = RestQ(cur)]
    /\ UNCHANGED <<fd, partner, inSave, interest, rcv, remote, main, pipe,
                   batch, pc, cur, ev, stale>>

\* DoWrite returns IO_Again with a frame in data_out_save_.
WriteBlocked ==
    LET s == fd[cur] IN
    /\ pc = "write" /\ HasOut(cur) /\ ~Reset(s) /\ ~Room(s)
    /\ outSave' = [outSave EXCEPT ![cur] = Blocked(Frame(cur))]
    /\ outQ' = [outQ EXCEPT ![cur] = RestQ(cur)]
    /\ Continue
    /\ UNCHANGED <<fd, partner, inSave, interest, rcv, snd, remote, main,
                   pipe, batch, stale>>

\* DoWrite returns IO_Done: the handle goes back to reading only.
WriteDone ==
    LET s == fd[cur] IN
    /\ pc = "write" /\ ~HasOut(cur)
    /\ interest' = [interest EXCEPT ![s] = IF @ = {} THEN {} ELSE {"IN"}]
    /\ Continue
    /\ UNCHANGED <<handles, rcv, snd, remote, main, pipe, batch, stale>>

\* DoWrite returns IO_Errno: the remote end has reset the connection.
WriteErr ==
    /\ pc = "write" /\ HasOut(cur) /\ peer[fd[cur]] = "rst"
    /\ ClearFHPair(cur)
    /\ Continue
    /\ UNCHANGED <<remote, main, pipe, batch, stale>>

\* A write after the remote end has shut down and then reset the connection
\* raises SIGPIPE, which nothing in main.cpp ignores.
WriteSigpipe ==
    /\ pc = "write" /\ HasOut(cur) /\ peer[fd[cur]] = "finrst"
    /\ pc' = "dead"
    /\ UNCHANGED <<handles, interest, rcv, snd, remote, main, pipe, batch,
                   cur, ev, stale>>

\* A pair pointer is read from the pipe and both of its sockets are added.
Adopt ==
    LET hs == Head(pipe)[1]
        hc == Head(pipe)[2]
    IN
    /\ pc = "pipe" /\ pipe # <<>> /\ Live(hs) /\ Live(hc)
    /\ interest[fd[hs]] = {} /\ interest[fd[hc]] = {}
    /\ interest' = [interest EXCEPT ![fd[hs]] = {"IN"}, ![fd[hc]] = {"IN"}]
    /\ pipe' = Tail(pipe)
    /\ UNCHANGED <<handles, rcv, snd, remote, main, batch, pc, cur, ev, stale>>

\* An Add fails, or neither does and err_flag, which nobody has initialised,
\* happens to be true: the pair is cleared.
AdoptFailed ==
    LET hs == Head(pipe)[1]
        hc == Head(pipe)[2]
    IN
    /\ pc = "pipe" /\ pipe # <<>> /\ Live(hs) /\ Live(hc)
    /\ ClearFHPair(hs)
    /\ pipe' = Tail(pipe)
    /\ UNCHANGED <<remote, main, batch, pc, cur, ev, stale>>

\* The pair was freed before it was adopted: undefined, as in DispatchFreed.
AdoptFreed ==
    /\ pc = "pipe" /\ pipe # <<>> /\ \E i \in 1..2 : ~Live(Head(pipe)[i])
    /\ pipe' = Tail(pipe)
    /\ pc' = "dead"
    /\ stale' = TRUE
    /\ UNCHANGED <<handles, interest, rcv, snd, remote, main, batch, cur, ev>>

\* DoRead of the pipe returns IO_Again.
PipeDrained ==
    /\ pc = "pipe" /\ pipe = <<>>
    /\ pc' = "loop"
    /\ UNCHANGED <<handles, interest, rcv, snd, remote, main, pipe, batch,
                   cur, ev, stale>>

-----------------------------------------------------------------------------
(***************************************************************************)
(* The main thread, as far as it touches handles: ProxyHandler::Loop, whose *)
(* calls and pipes are in Handoff.                                         *)
(***************************************************************************)
Free(h) == ~Live(h) /\ ~Half(h)

\* ps_fh is allocated for a client that was accepted.
NewClient(c) ==
    /\ pc # "dead" /\ accepting = NULL /\ c \notin started
    /\ accepting' = c
    /\ \E h \in Handle : Free(h) /\ half' = [half EXCEPT !["S"] = h]
    /\ UNCHANGED <<handles, interest, rcv, snd, remote, started, connecting, pipe,
                   batch, pc, cur, ev, stale>>

\* The main thread is done with the connection it was setting up.
SetUp ==
    /\ started' = started \cup {accepting}
    /\ accepting' = NULL
    /\ half' = [d \in Side |-> NULL]

\* socket() or connect() fails, and ps_fh is deleted.
NoBroker ==
    /\ pc # "dead" /\ accepting # NULL /\ half["C"] = NULL
    /\ SetUp
    /\ UNCHANGED <<handles, interest, rcv, snd, remote, connecting, pipe, batch,
                   pc, cur, ev, stale>>

\* pc_fh is allocated.
NewBroker ==
    /\ pc # "dead" /\ accepting # NULL /\ half["C"] = NULL
    /\ \E h \in Handle : Free(h) /\ half' = [half EXCEPT !["C"] = h]
    /\ UNCHANGED <<handles, interest, rcv, snd, remote, started, accepting,
                   connecting, pipe, batch, pc, cur, ev, stale>>

\* The two handles are made partners, and are queued for the pipe if connect()
\* has succeeded at once.
Handover ==
    LET c  == accepting
        hs == half["S"]
        hc == half["C"]
    IN
    /\ pc # "dead" /\ hc # NULL
    /\ fd' = [fd EXCEPT ![hs] = <<c, "S">>, ![hc] = <<c, "C">>]
    /\ partner' = [partner EXCEPT ![hs] = hc, ![hc] = hs]
    /\ \/ pipe' = Append(pipe, <<hs, hc>>) /\ UNCHANGED connecting
       \/ connecting' = connecting \cup {c} /\ UNCHANGED pipe
    /\ SetUp
    /\ UNCHANGED <<inSave, outSave, outQ, interest, rcv, snd, remote, batch,
                   pc, cur, ev, stale>>

\* The main thread handles the event of a socket being connected, which only
\* an open socket can show.
Connecting(c) == pc # "dead" /\ accepting = NULL /\ c \in connecting

OnConnected(c) ==
    /\ Connecting(c)
    /\ \E h \in Handle :
          fd[h] = <<c, "C">> /\ pipe' = Append(pipe, <<partner[h], h>>)
    /\ connecting' = connecting \ {c}
    /\ UNCHANGED <<handles, interest, rcv, snd, remote, started, accepting, half,
                   batch, pc, cur, ev, stale>>

\* The thread is at work on handle h or its partner.
AtWork(h) == pc \in {"read", "arm", "write"} /\ cur \in {h, partner[h]}

OnConnectFailed(c) ==
    /\ Connecting(c)
    /\ \E h \in Handle : fd[h] = <<c, "C">> /\ ~AtWork(h) /\ ClearFHPair(h)
    /\ connecting' = connecting \ {c}
    /\ UNCHANGED <<remote, started, accepting, half, pipe, batch, pc, cur, ev, stale>>

\* A stale event of the thread has cleared the pair while its event was in the
\* main thread's batch, or the main thread clears it while such an event is at
\* work on it: undefined, as in DispatchFreed.
ConnectFreed(c) ==
    /\ Connecting(c)
    /\ \A h \in Handle : fd[h] = <<c, "C">> => AtWork(h)
    /\ pc' = "dead"
    /\ UNCHANGED <<handles, interest, rcv, snd, remote, main, pipe, batch, cur, ev,
                   stale>>

-----------------------------------------------------------------------------
(***************************************************************************)
(* The remote ends.                                                        *)
(***************************************************************************)
\* Both ends of the connection are there: the client's from the moment it was
\* accepted, the broker's once it has taken the connection.
Up(s) == Open(s) /\ ~(s[2] = "C" /\ s[1] \in connecting)

PeerSend(s) ==
    /\ Up(s) /\ peer[s] = "open" /\ sentN[s] < Len(Script[s])
    /\ sentN' = [sentN EXCEPT ![s] = @ + 1]
    /\ rcv' = [rcv EXCEPT ![s] = Append(@, <<s, sentN[s] + 1>>)]
    /\ UNCHANGED <<handles, interest, snd, peer, got, main, pipe, batch, pc,
                   cur, ev, stale>>

PeerRecv(s) ==
    /\ ~Reset(s) /\ snd[s] # <<>>
    /\ got' = [got EXCEPT ![s] = Append(@, Head(snd[s]))]
    /\ snd' = [snd EXCEPT ![s] = Tail(@)]
    /\ UNCHANGED <<handles, interest, rcv, peer, sentN, main, pipe, batch,
                   pc, cur, ev, stale>>

PeerFin(s) ==
    /\ Up(s) /\ peer[s] = "open"
    /\ peer' = [peer EXCEPT ![s] = "fin"]
    /\ UNCHANGED <<handles, interest, rcv, snd, sentN, got, main, pipe,
                   batch, pc, cur, ev, stale>>

PeerReset(s) ==
    /\ Up(s) /\ ~Reset(s)
    /\ peer' = [peer EXCEPT ![s] = IF @ = "fin" THEN "finrst" ELSE "rst"]
    /\ snd' = [snd EXCEPT ![s] = <<>>]
    /\ UNCHANGED <<handles, interest, rcv, sentN, got, main, pipe, batch, pc,
                   cur, ev, stale>>

-----------------------------------------------------------------------------
Read   == ReadPart \/ ReadFrame \/ ReadBad \/ ReadClosed \/ ReadBlocked
Write  == WriteChunk \/ WriteBlocked \/ WriteDone \/ WriteErr \/ WriteSigpipe
Pipe   == DispatchPipe \/ Adopt \/ AdoptFailed \/ AdoptFreed \/ PipeDrained
Thread ==
    \/ Wait \/ Read \/ Arm \/ Write \/ Pipe
    \/ \E e \in batch : Dispatch(e) \/ DispatchFreed(e) \/ DispatchOther(e)
Connect == \E c \in Pair : OnConnected(c) \/ OnConnectFailed(c) \/ ConnectFreed(c)
Loop    == NoBroker \/ NewBroker \/ Handover \/ Connect
Main    == Loop \/ \E c \in Pair : NewClient(c)
Remote ==
    \E s \in Sock : PeerSend(s) \/ PeerRecv(s) \/ PeerFin(s) \/ PeerReset(s)

Next == Thread \/ Main \/ Remote

Spec == Init /\ [][Next]_vars

\* The thread runs loop() for ever (Processor::threadFunc) and so does the main
\* thread, the kernel ends every connection attempt, and remote ends that have
\* not reset the connection go on reading.
Fairness ==
    /\ WF_vars(Thread) /\ WF_vars(Loop)
    /\ \A s \in Sock : WF_vars(PeerRecv(s))

FairSpec == Spec /\ Fairness

-----------------------------------------------------------------------------
TypeOK ==
    /\ fd \in [Handle -> Sock \cup {NULL}]
    /\ partner \in [Handle -> Handle \cup {NULL}]
    /\ inSave \in [Handle -> Seq(Chunk)]
    /\ outSave \in [Handle -> Seq(Chunk)]
    /\ outQ \in [Handle -> Seq(Seq(Chunk) \ {<<>>})]
    /\ interest \in [Sock -> {{}, {"IN"}, {"IN", "OUT"}}]
    /\ rcv \in [Sock -> Seq(Chunk)]
    /\ snd \in [Sock -> Seq(Chunk)]
    /\ \A s \in Sock : Len(snd[s]) <= SndCap
    /\ peer \in [Sock -> {"open", "fin", "rst", "finrst"}]
    /\ sentN \in [Sock -> Nat]
    /\ got \in [Sock -> Seq(Chunk)]
    /\ started \subseteq Pair
    /\ accepting \in Pair \cup {NULL}
    /\ half \in [Side -> Handle \cup {NULL}]
    /\ connecting \subseteq Pair
    /\ pipe \in Seq(Handle \X Handle)
    /\ batch \subseteq Event
    /\ pc \in Location
    /\ cur \in Handle \cup {NULL}
    /\ ev \subseteq {"IN", "OUT"}
    /\ stale \in BOOLEAN

\* A handle that has been paired has a partner that is allocated and points back
\* to it, they hold the two sockets of one connection, and nothing else holds
\* them: the double delete of ClearFHPair frees each exactly once.
Paired ==
    \A h \in Handle :
        Live(h) =>
            /\ partner[h] \in Handle /\ partner[h] # h
            /\ Live(partner[h])
            /\ partner[partner[h]] = h
            /\ fd[partner[h]] = Other(fd[h])
            /\ \A g \in Handle : fd[g] = fd[h] => g = h

\* While a socket event is handled its handle stays allocated, a closed socket
\* has left the epoll set, an allocated handle is one of a connection that was
\* handed over, and only an allocated handle holds data.
Contained ==
    /\ pc \in {"read", "arm", "write"} => cur \in Handle /\ Live(cur)
    /\ \A s \in Sock : interest[s] # {} => Open(s)
    /\ \A h \in Handle : Live(h) => fd[h][1] \in started
    /\ \A h \in Handle : ~Live(h) => inSave[h] = <<>> /\ ~HasOut(h)

\* The handles the main thread has not paired yet are two different ones and of
\* no pair, so that clearing a pair never frees them, and the connection they
\* are for is a new one.
Apart ==
    /\ \A d \in Side : half[d] # NULL => ~Live(half[d]) /\ accepting # NULL
    /\ accepting # NULL => half["S"] # NULL /\ accepting \notin started
    /\ half["C"] # NULL => half["C"] # half["S"]
    /\ connecting \subseteq started

\* What the proofs and the other invariants rest on.
IInv == TypeOK /\ Paired /\ Contained /\ Apart

\* Output is never forgotten and never spun on: between two events a
\* registered handle waits for EPOLLOUT exactly when it has something to
\* write, although hasDataOut looks at the queue only and not at the frame
\* written in part.  While an event is handled this may fail for the event's
\* own handle (in DoWrite) or for its partner (before Modify), and for no other.
OutputArmed ==
    ~stale /\ pc # "dead" =>
        \A h \in Handle :
            /\ Live(h) /\ interest[fd[h]] # {}
            /\ ~(pc = "write" /\ h = cur)
            /\ ~(pc \in {"read", "arm"} /\ h = partner[cur])
            => (HasOut(h) <=> "OUT" \in interest[fd[h]])

\* A remote end receives a prefix of what the other end of its own connection
\* sent: no chunk is lost, duplicated, reordered or sent to another connection,
\* however reads, writes, closes and the reuse of addresses interleave.
StreamIntegrity ==
    \A s \in Sock :
        /\ Len(got[s]) <= sentN[Other(s)]
        /\ \A j \in 1..Len(got[s]) : got[s][j] = <<Other(s), j>>

\* The inductive invariant of StreamIntegrity.  Chunks w are those that follow
\* the first n of the stream of t.
Run(w, t, n) == \A i \in 1..Len(w) : w[i] = <<t, n + i>>

\* The frames of queue q follow each other in the stream of t, the first begins
\* after chunk lo and the last ends with chunk hi.
Chain(q, t, lo, hi) ==
    \E at \in [1..(Len(q) + 1) -> 0..hi] :
        /\ at[1] = lo /\ at[Len(q) + 1] = hi
        /\ \A k \in 1..Len(q) :
              Run(q[k], t, at[k]) /\ at[k + 1] = at[k] + Len(q[k])

\* How far a stream has come: what has been written to socket s, and what
\* handle h has read from its socket and has passed on to its partner.
WrittenN(s) == Len(got[s]) + Len(snd[s])
ReadN(h)    == sentN[fd[h]] - Len(rcv[fd[h]])
PassedN(h)  == ReadN(h) - Len(inSave[h])

\* At the ends: what was received is a prefix, what is in the send buffer
\* follows it, and a connection that was not handed over has seen nothing.
EndInv(s) ==
    /\ Run(got[s], Other(s), 0) /\ Len(got[s]) <= sentN[Other(s)]
    /\ ~Reset(s) => /\ Run(snd[s], Other(s), Len(got[s]))
                    /\ WrittenN(s) <= sentN[Other(s)]
    /\ s[1] \notin started =>
          sentN[s] = 0 /\ got[s] = <<>> /\ snd[s] = <<>> /\ rcv[s] = <<>>

\* In a handle: what it is reading comes before what it has not read,
InInv(h) ==
    Run(inSave[h], fd[h], PassedN(h)) /\ Run(rcv[fd[h]], fd[h], ReadN(h))

\* and the packet and the queue bridge the gap between what was written to its
\* socket and what its partner has passed on.
OutInv(h) ==
    ~Reset(fd[h]) =>
        /\ Run(outSave[h], Other(fd[h]), WrittenN(fd[h]))
        /\ Chain(outQ[h], Other(fd[h]), WrittenN(fd[h]) + Len(outSave[h]),
                 PassedN(partner[h]))

Streams ==
    /\ \A s \in Sock : EndInv(s)
    /\ \A h \in Handle : Live(h) => InInv(h) /\ OutInv(h)

StreamInv == IInv /\ Streams

\* The inductive invariant of OutputArmed.  Until a first event has gone astray
\* (stale), the pairs in the pipe are allocated, whole, not yet registered and
\* each there once;
Registered(h) == interest[fd[h]] # {}

PipeInv ==
    \A k \in DOMAIN pipe :
        /\ Live(pipe[k][1]) /\ partner[pipe[k][1]] = pipe[k][2]
        /\ ~Registered(pipe[k][1])
        /\ \A j \in DOMAIN pipe \ {k} : pipe[j][1] \notin {pipe[k][1], pipe[k][2]}

\* the two handles of a pair are registered together, and before that there is
\* nothing to write;
PairInv ==
    \A h \in Handle :
        Live(h) => /\ Registered(h) <=> Registered(partner[h])
                   /\ HasOut(h) => Registered(h)

\* the batch has one event for a handle, and one that will meet its handle
\* tells of EPOLLOUT only if the handle still waits for it;
BatchInv ==
    \A e \in batch \ {PipeEvent} :
        /\ e.sock[1] \in started
        /\ \A f \in batch \ {PipeEvent} : f.ptr = e.ptr => f = e
        /\ fd[e.ptr] = e.sock => /\ Registered(e.ptr)
                                 /\ "OUT" \in e.ev => "OUT" \in interest[e.sock]

\* nor is there another event for the handle at work; its partner, before Modify,
\* waits for EPOLLOUT only with something to write, and always for the rest of
\* a frame.
CurInv ==
    /\ pc \in {"read", "arm", "write"} =>
          /\ Registered(cur)
          /\ \A e \in batch \ {PipeEvent} : e.ptr # cur
          /\ "OUT" \in ev => "OUT" \in interest[fd[cur]]
          /\ pc = "write" => "OUT" \in ev
    /\ pc \in {"read", "arm"} =>
          LET p == partner[cur] IN
          /\ "OUT" \in interest[fd[p]] => HasOut(p)
          /\ outSave[p] # <<>> => "OUT" \in interest[fd[p]]

\* and a pair whose socket is being connected is neither registered nor in the
\* pipe.
ConnectInv ==
    \A h \in Handle :
        Live(h) /\ fd[h][1] \in connecting =>
            /\ ~Registered(h)
            /\ \A k \in DOMAIN pipe : h \notin {pipe[k][1], pipe[k][2]}

ArmedInv ==
    /\ IInv
    /\ OutputArmed
    /\ ~stale /\ pc # "dead" =>
          PipeInv /\ PairInv /\ BatchInv /\ CurInv /\ ConnectInv

\* Nothing is left lying: when the thread waits and epoll has nothing to report,
\* both ends of every open connection are open, and every complete frame that
\* one end sent has arrived at the other, unless that one does not read, or the
\* connection to the broker is not there yet.
NothingLeft ==
    ~stale /\ pc = "loop" /\ batch = {} /\ Pending = {} =>
        \A s \in Sock :
            Open(s) /\ s[1] \notin connecting =>
                       /\ peer[s] = "open"
                       /\ snd[Other(s)] = <<>> =>
                            \A j \in 1..sentN[s] :
                               Script[s][j] = "end" => j <= Len(got[Other(s)])

\* The inductive invariant of NothingLeft, beside the two above: what DoRead has
\* put aside is the beginning of one frame, and a handle that is not registered
\* is in the pipe, or waits for the broker.
BeginInv ==
    \A h \in Handle : \A i \in 1..Len(inSave[h]) : Kind(inSave[h][i]) = "part"

QueuedInv ==
    \A h \in Handle :
        Live(h) /\ ~Registered(h) =>
            \/ fd[h][1] \in connecting
            \/ \E k \in DOMAIN pipe : h \in {pipe[k][1], pipe[k][2]}

RestInv == BeginInv /\ (~stale /\ pc # "dead" => QueuedInv)

\* Problem 1 of Readme.txt: an event never meets a handle that was freed, or
\* that was allocated at the address of the one the event was for.
NoStaleDispatch == ~stale

\* A connection is closed only because one of its own ends shut down or reset,
\* or sent a frame the proxy refuses, or could not be adopted, or the broker
\* did not take it; never because of what another connection did.
CloseHasCause ==
    [][\A s \in Sock :
          Open(s) /\ ~Open(s)' =>
              \/ pc = "pipe" \/ s[1] \in connecting
              \/ \E t \in {s, Other(s)} : peer[t] # "open" \/ Rejects(rcv[t])]_vars

\* Every complete frame an end sends reaches the other end, unless one of the
\* two ends shuts down or resets, or the connection is closed, or the process dies.
Delivery ==
    \A s \in Sock : \A j \in 1..Len(Script[s]) :
        (sentN[s] >= j /\ Script[s][j] = "end")
            ~> \/ Len(got[Other(s)]) >= j
               \/ \E t \in {s, Other(s)} : ~Open(t) \/ peer[t] # "open"
               \/ pc = "dead"

\* Once an end has shut down or reset, the proxy closes both of its sockets.
Teardown ==
    \A s \in Sock :
        peer[s] # "open" ~> (~Open(s) /\ ~Open(Other(s))) \/ pc = "dead"
=============================================================================
