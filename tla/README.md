# nb1 in TLA+

The repository holds a TCP proxy that stands in front of a message broker
(`src/mq-proxy2`), its unfinished first version (`src/mq-proxy`), a blocking
queue (`src/common`), a load generator for an object store
(`src/ceph_test`), a draft of a server framework (`src/test`) and two empty
stubs (`src/logging`, `src/TcpFramework`). There are no tests apart from one
Go file that reads a file list, and no documents apart from comments and
`src/mq-proxy2/Readme.txt`, which names two memory problems and ways to solve
them.

This directory models the parts that do something over time, checks them with
TLC on small instances, and proves with TLAPS, for all values of the constants,
every invariant, action property and refinement that a passing run checks.
Liveness is checked on the instances only.

## 1. Inventory

### mq-proxy2

One process. The **main thread** (`ProxyHandler::Loop`, `proxy_handler.cpp`)
accepts clients, and for each allocates an `FdHandle`, opens a non-blocking
socket to the broker, allocates the second `FdHandle` and makes the two partners
of each other. When the broker is connected, at once or by an event later
(`FT_Connecting`), it allocates an `FHPair` and writes its *address* to the pipe
of one of `IOPSR_NUM` = 2 **I/O processors** (`IOProcessor::loop`, `io_processor.cpp`). A processor
reads the address, registers both sockets with its own epoll instance, deletes
the `FHPair` and from then on moves frames between the two sockets. The
threads share nothing but the heap and the pipes.

| part | state | operations | what is hard |
|---|---|---|---|
| `Packet` (`packet.cpp`) | `header_`, `data_`, `op_base_`, `op_size_`, `size_` | `Read`, `Write`, the reset between them | short transfers at any byte; `op_base_` changes buffer in mid-frame |
| `FdHandle` (`fdhandle.cpp`) | `data_in_save_`, `data_out_save_`, `out_que_`, `partner_` | `DoRead`, `DoWrite`, `ClearFHPair` | a frame is in one of three places; both ends are freed together |
| `IOProcessor` | its epoll set, its pipe, the batch of events | socket events, pipe events | events that are stale when they are handled; EPOLLOUT armed by the partner's events |
| `ProxyHandler` | `type_`, one-shot registrations, an output queue per pipe | accept, connect, `addInPipeQue`, `writeAllPipes` | failing calls between two acquisitions; handles that are allocated but not paired yet; full pipes; addresses used again |
| `PtrBuf`, `Multiplexer` | | a pointer through a pipe; epoll | none of their own: part of the actions above |

Correctness means: the bytes of a connection go to the other end of the same
connection, whole frames, in order; a connection is in the hands of exactly
one part of the program; nothing freed is used; output that waits is written;
a dead connection is torn down and a healthy one is not.

### common: BlockingQueue

A bounded queue with a mutex and two condition variables, shared by any number
of threads. `Pop` and `Push` signal *after* they release the mutex. Correct:
atomic first-in-first-out `Pop` and `Push`, no lost wake-up.

### ceph_test

`LoopNum` goroutines read or write objects in a loop until the plain global
`run` is cleared, and send one record each through a buffered channel to
`StatisticsLoop`. The main goroutine waits for a timer or a signal, clears
`run`, waits for a `sync.WaitGroup` that the goroutines join *themselves*, and
prints a last line. `read_n`, `run` and the statistics are not protected, and
`main.go` validates none of the numbers it is given.
Correct: it stops; every operation is counted or on its way; the file index
exists; the ratio of reads and writes is the one asked for. A goroutine that
joins the group while the main one is leaving it, an empty list of files and
factors that add up to nothing end it with a panic.

### mq-proxy (first version)

A main thread that waits on epoll, a blocking queue of handles, and four
processor threads that take a handle, read a frame and write it to the partner
themselves. One-shot registrations keep two threads from one handle; nothing
keeps one thread from freeing a handle that another one holds. The directory
does not compile.

### the rest

`src/test` is a draft that does not compile either, and its `main()` prints a
line; helpers, error texts, logging and the stubs have no behaviour over time.
They are listed as not modelled in `PROJECT.json`.

## 2. Modules

| module | models | extends / instances |
|---|---|---|
| `PacketIO` | `Packet::Read` and `Write` byte by byte, on a stream of frames | |
| `Relay` | one `IOProcessor` thread with its handles, sockets, pipe and remote ends, frames in chunks; how the main thread allocates the handles, one by one, at addresses that have been freed | |
| `Link` | abstract: a reliable ordered link in each direction that may be cut | |
| `RelayLink` | the refinement mapping of `Relay` to `Link` | `Relay`, `Link` |
| `Handoff` | the main thread and the pipes, with the processors as far as it depends on them | |
| `Proxy` | the process: start-up, the main thread, and the thread of each processor with its batch of events | `Handoff`, `Custody` |
| `Custody` | abstract: a connection is passed from hand to hand and is never in two | |
| `BlockingQueue` | `Pop` and `Push`, one step per access | `BoundedBuffer` |
| `BoundedBuffer` | abstract: a buffer on which each call takes effect at one moment | |
| `LoadTest` | the goroutines of ceph_test | |
| `ProxyV1` | the main thread and the processors of mq-proxy | |
| `PacketIOProofs`, `HandoffProofs`, `BlockingQueueProofs`, `LoadTestProofs`, `ProxyV1Proofs` | theorems | the module they are about, TLAPS |
| `RelayProofs` | theorems about handles, registrations, the batch and the pipe of `Relay` | `Relay`, TLAPS |
| `RelayDataProofs` | theorems about what the buffers of `Relay` hold, and the refinement of `Link` | `RelayProofs`, `RelayLink`, TLAPS |
| `ProxyProofs` | theorems about the whole process | `Proxy`, `HandoffProofs`, TLAPS |
| `MC*` | constants for TLC | the module they are about |

The levels fit together: `PacketIO` shows that frames keep their boundaries
whatever read(2) and write(2) transfer, so `Relay` moves chunks of frames.
`Handoff` is about the main thread, its failing calls and the pipes, up to the
moment a processor has adopted a pair; `Relay` is about a processor and its
pairs, and keeps of the main thread what a processor can meet: handles that are
half built, being connected, or in the pipe. `Proxy` composes the main thread of
`Handoff` with the threads of all processors: each has its batch of events, a
connection may be cleared while events of it are waiting, its handles'
addresses may be those of another connection by the time the event is handled
(`since`, `struck`), and `main()` starts the threads one by one. What one
processor reads and writes for its connections is in `Relay` alone. What becomes
of the bytes of a handle that two threads use at once, after a stale event, is
in no module: the code promises nothing there. `BlockingQueue` implements
`BoundedBuffer`, so `ProxyV1` takes and puts in single steps.

Names follow the code: `outQ` is `out_que_`, `outSave` is `data_out_save_`,
`opSize` is `op_size_`, `que` is `que_`; `PROJECT.json` maps each definition to
its lines. The kernel (sockets, epoll, pipes, condition variables) and the
remote ends are modelled as the code uses them, and marked external.

Definitions called a mutant (`ClearSelfOnly`, `EndedAny`, `ModifyNot`, ...) are not
used by any specification. Each is what a plausible bug would make of the definition next to it, and serves to show that
the property named in `PROJECT.json` notices.

### Choices worth knowing

* **PacketIO.** Byte *j* of the stream is the number *j*; the value of a
  header is the payload length of the frame it starts. A frame whose payload
  exceeds `MAX_PACKET_SIZE` is refused. `DoRead` and `DoWrite` alternate on one
  packet at a time, as they do for one direction of a connection.
* **Relay.** A handle lives at an address, and the main thread may get an address
  that `ClearFHPair` has just freed. It does so step by step, as the accept branch
  does: the handle of the client (`NewClient`), then none (`NoBroker`) or that of
  the broker's socket (`NewBroker`), then the pairing, with the pipe at once or
  the wait for the broker (`Handover`), which ends in `OnConnected` or
  `OnConnectFailed`. An event carries the address it was registered with;
  `stale` records that it met another handle than its own. If that one is still
  `FT_None` or `FT_Connecting`, `loop()` passes it over (`DispatchOther`). If it is
  of a pair, the event is handled as that pair's. If it is *freed*, or has a type
  but no partner yet, what follows is undefined: `io_processor.cpp:59` and `67`
  use `partner()`, which is NULL (the `delete` of it at `fdhandle.cpp:68` alone
  would be harmless). The behaviour ends there (`DispatchFreed`), as it does when
  the main thread has an event of its own for a pair that a stale event freed
  (`ConnectFreed`). `err_flag` is read uninitialised, so adoption may fail at
  any time. A write to a connection that has been reset may raise SIGPIPE, which
  nothing ignores.
* **Handoff.** Addresses are multiples of 16, as `operator new` returns them;
  the pipe is chosen as the address modulo their number, so that of two
  processors the second never gets a connection. Failing calls are
  enabled by the constant `Fault`. A pipe whose `AddPipe` failed has the
  registration `"none"`, and `Modify` fails for it as well. Allocation, pairing
  and registration in one round of the accept branch are one step here: nobody
  but a stale event can see what is between them, and that is in `Relay`.
* **Proxy.** `boot` is where `main()` is and `index` the variable of its two
  loops. The results of `Processor::Run`, of `pthread_create` and of `Add` in
  `IOProcessor::Init` are not looked at, so a processor may not be running
  (`"none"`) or not listen to its pipe (`"deaf"`) while `main()` goes on.
  `ProxyHandler::Init` does look at the result of `Add` for the listening socket,
  but for a negative one, and `Add` returns the positive `ERR_ERRNO`: `listening`
  may stay FALSE, and who connects is `stranded`. An
  event of a socket is the connection and its side, and it is stale when its
  connection is closed. `since` records for each connection which ones had been
  freed when its handles were allocated, whose addresses they may therefore have.
  A stale event may clear such a connection, of the same processor or of another
  one (`Strikes`), leave it alone or be passed over (`PassedOver`), or meet freed
  memory or a handle of the main thread (`UseFreed`), and there the behaviour
  ends (`"gone"`), as it does after `exit()`.
* **BlockingQueue.** A wait releases the mutex and sleeps in one step, a signal
  wakes one of the threads asleep, if any, and spurious wake-ups happen.
* **LoadTest.** Every read and write of `run` and of `read_n` is a step, so the
  races on them are the interleavings of the model. Of the statistics only the
  number of records and the write of `StartTime` (`StatsStart`) are kept. Every
  variable is seen by all goroutines at once; the Go memory model promises
  less. A panic ends the process (`main = "panic"`): of the wait group, when an
  `Add` comes while `wg.Wait()` is returning (`Misused`, `Woken`), of an empty
  list of files, and of a deck of no cards or of a negative number of them (`WorkerPanics`,
  `StatsPanics`).
* **ProxyV1.** Read with the repairs named at the head of the module, among them
  the constructor of `FdHandle`, which initialises a member that no longer exists
  and leaves `data_in` and `data_out` as they are. What can
  never run has no action: Packet compares *returned* values with `EAGAIN`, so
  `Again` and everything behind it is dead, `doDataOut` included. A behaviour
  ends with the first use of a freed handle; addresses are not used again.

## 3. Runs

| run | instance | shows |
|---|---|---|
| `packet` | four frames of 3, 1, 2 and 4 payload bytes, limit 3 | `InBounds`, `Boundary`, `Verbatim`, and that the inductive invariant, with the types, holds |
| `packet_empty` | a frame without payload | violation: `CompleteIsDone` |
| `relay` | one connection, made at once, later or not at all, a split frame, a refused frame, closes and resets at any time, 2 events per wait | `IInv`, `OutputArmed`, `StreamInv`, `NothingLeft`, refinement of `Link`, `Delivery`, `Teardown` |
| `relay_two` | two connections set up handle by handle, addresses used again, up to 3 events per wait, so events are stale and meet freed, half-built and new handles | `StreamIntegrity`, `CloseHasCause`: a stale event never moves bytes to another connection; `ArmedInv`, `RestInv`: what holds until the first stale event |
| `relay_stale` | one connection, 2 events per wait | violation: `NoStaleDispatch` |
| `handoff` | three clients, two pipes that hold one address, `AddPipe`, accept, socket, connect and adoption may fail | `IInv`, `OneHolder`, `FifoExact`, `BlockedPipeArmed`, `Served` |
| `proxy` | two clients, three processors, pipes that hold one address; every call of the start-up (for the processors 1 and 2, the ones at work) and of the hand-over may fail but the `Add` of `handoff_add`; stale events may meet the handles of the other connection | `PTypeOK`, `StaleOnlyByOwn`, refinement of `Custody`, `ServedIfRunning` |
| `handoff_add` | as `handoff`, but `Add` alone may fail | violation: `ConnectingWatched` |
| `queue` | two producers, two consumers, two values, size 2 | `IInv`, `TestHolds`, `NoLostWakeup`, refinement of `BoundedBuffer`, `Progress` |
| `loadtest` | two workers, each mode, no file or one, factors 2:1, 3:-1, 0:0 and 1:-2, channel of 1, 5 operations | `TypeOK`, `NobodyAtWork`, `FileExists`, `RatioKept`, `StopsWithRoom` |
| `loadtest_hang` | the same | violation: `Stops` |
| `proxy_v1` | one session that does everything; two sessions that compete; two processors, queue of 1 | `TypeOK`, `OneHandler`, `FramesApart`, `FreedNeedsRival`, `Popped` |

**Bounds and why they are enough.** Frames of up to seven bytes are split at
every byte, in the header, at its end and in the body; the fourth frame is
refused, so the position after three good ones is checked too. A send buffer
of one chunk makes every second write block, and a frame of two chunks can be
half read or half written. Four addresses for two connections let the second
connection have the addresses of the first, and a batch of three holds the events
of both sockets of a pair and one more. In `proxy` one connection must be closed before another is set up for an event to
be stale and meet it, so two clients are enough. A pipe of one address is full
whenever two connections are queued, and a third one queues behind
`data_out_save_`. `IOPSR_NUM` is 2 in the code, and then the alignment of the
addresses leaves the second processor idle; three are the fewest with two at
work (the addresses 16, 32 and 64 select the processors 1, 2 and 1), which is
what a correction of the selection would bring about. Two producers and two consumers are the fewest for which a
signal can wake the wrong one of a kind; a queue of two is the smallest that
is neither empty nor full in between. A channel of one and two workers are the
fewest that hang. Two processors are the fewest of which one can free what
the other holds; `proxy_v1` starts in one of two plans (`SmallPlans`), a single
session with every kind of frame and close, and two sessions with few, since
all of it for two sessions is out of reach. The bounds are
`MaxOps` (operations begun), `Frail` (the processors of `Proxy` for which a
start-up call may fail), `LastChunk` (`ProxyV1`: one frame per remote end, since
nobody reads a second), the length of `Script` (`Relay`) and `NumPackets`.
Symmetry is used only in runs without liveness properties.

**Deadlock.** In most runs the remote ends and clients have finitely much to do, or
the process may die, and the check for deadlock is off. It is on in `queue` and
says little there: a spurious wake-up is possible whenever anybody waits, so some
step always is. That nobody waits for ever is `NoLostWakeup` and `Progress`.

**Fairness.** Weak fairness of each thread's next step, since every thread of
the program is an endless loop that the operating system schedules:
`WF(Thread)` for the processor and `WF(Loop)` for the main thread in `Relay`, `WF(Main)` with `WF(Adopt(i))` in `Handoff`, `WF(Start
\/ Loop)` for the main thread and `WF(Worker(i))` per processor in `Proxy`
(where a processor that is not running never has a step), `WF(Push(p))`
and `WF(Pop(c))` *per thread* for the queue (which does not promise that one
thread ever gets the mutex: `Progress` therefore speaks of some thread), and
finitely many spurious wake-ups. Remote ends go on reading what was sent to
them (`PeerRecv`), connection attempts end (`Answer`, `Answered`: the kernel's own
timeout, `proxy_handler.cpp:191`), the object store answers and the timer
fires. No fairness is assumed of clients that send, close or connect. `Served`
and `ServedIfRunning` assume that `accept()` does not fail for ever.

## 4. Findings

Each is the counterexample of a violation run and is quoted in `PROJECT.json`.

1. *An empty frame closes the connection* (`packet_empty`). After a header of
   value 0, `Packet::Read` calls `read(fd, p, 0)` and takes the 0 for the end
   of the stream. `fdhandle.h:50` promises IO_Done for a complete packet.
2. *An event meets a freed handle* (`relay_stale`): problem 1 of `Readme.txt`,
   still there. `StaleOnlyByOwn` shows that the first stale event of a processor
   is always of a pair which that processor has cleared itself. What it *meets*
   is another matter. The address may be that of handles the main thread is
   setting up or another processor serves by then, and they are freed under that
   thread: problem 2 of `Readme.txt` (a handle freed by one thread and used by
   another), which this version has as a consequence of problem 1 and, as
   `StaleOnlyByOwn` shows, not without it. `relay_two` shows that as long as no
   stale event meets a freed or a half-built handle no bytes change connection
   and no pair is freed by halves.
3. *A connection attempt nobody watches* (`handoff_add`): the result of `Add`
   at `proxy_handler.cpp:186` is ignored.
4. *ceph_test may hang when its time is up* (`loadtest_hang`):
   `StatisticsLoop` ends before the workers that send to it.
   `StopsWithRoom` shows that room for the records under way is enough.

What else the models show, kept here for whoever changes the code. No document
says otherwise, except where one is quoted:

* The end of one end's stream drops the frames queued for the other end
  (`Cut` in `Link` is as weak as that).
* A write after a reset kills the process by SIGPIPE.
* With two processors and 16-byte alignment the second one gets no connection: an
  address that is a multiple of 16 is even (`Index` in `Handoff`). It is
  arithmetic, and no property is about it.
* `Add` reports a failure by the positive `ERR_ERRNO`, and `CHECK_ERRNO`
  (`proxy_handler.cpp:61`) tests for a negative result. If the listening socket
  cannot be registered, `Init` does not notice, the process runs, clients
  connect, and nobody accepts them (`ConnectedInVain`).
* Between the assignments of `proxy_handler.cpp:143-175` a handle has a type and no
  partner. A stale event that meets it calls a method of NULL
  (`io_processor.cpp:59`, `67`).
* `main()` goes on when a processor cannot be started or cannot listen to its
  pipe: what is queued for that processor stays in its pipe with both sockets
  open (`ServedIfRunning` says that nothing else gets stuck). A failed
  `AddPipe` is harmless, since `Wait` returns after a second anyway.
* `out_que_` has no bound: `IsOutable` is never called.
* `LastStatistics` counts one record at most of those left in the channel, and a
  `StatisticsLoop` that starts late writes `StartTime` while it is read
  (`io.go:303`).
* Each goroutine of ceph_test calls `wg.Add` itself. One that does so while
  `wg.Wait()` is returning makes the package panic (`Misused`, `Woken`). `main.go`
  accepts an empty list of files and factors whose sum is zero or less, and
  those end in a panic too; with one negative factor the deck is half reads,
  whatever was asked for.
* In the first version a frame that reaches the broker's socket in two parts
  closes the session, a short write to the broker repeats the first bytes, and
  a session carries one frame per direction, since nothing registers a socket
  again after a frame was written at once. A client that sends half a frame
  holds a processor for as long as it likes. Two comments of that directory do
  contradict: `packet.cpp:51` and `109` say that the descriptor must be
  non-blocking, and the accepted socket is left blocking
  (`proxy_handler.cpp:115`); `packet.h:40` says that 1 is returned for a part of
  a packet, and a part is answered with an error or not at all.

## 5. Proofs

All theorems hold for every value of the constants that the named assumptions
allow.

**PacketIO** (`PacketIOProofs`). `Invariance`: `Spec => []IInv`; `InBounds`,
`Boundary` and `Verbatim` follow. They are not inductive: that a write stays
in `data_` rests on `op_base_` being `op_size_` bytes into `data_`, and that
`data_` holds one frame rests on the position in the stream. `IInv` adds both,
by phase: `Aligned` ties the two positions and `op_size_` together,
`HeaderPhase` places `op_base_` in `header_` while the header is incomplete,
`BodyPhase` and `WritePhase` in `data_`, with the bytes already there. The
assumptions are on the stream only: frame *k+1* starts where frame *k* ends.

**Relay, control** (`RelayProofs`). `Invariance` proves `IInv` = `TypeOK`,
`Paired`, `Contained` and `Apart`, for any number of connections, addresses,
events per wait and any scripts, stale events included. `SpecPaired` is
`[](Paired /\ Apart)`: a handle that has been paired has one partner that points
back, and the handles the main thread is still setting up are of no pair, so the
double delete of `ClearFHPair` frees each handle of a pair once and none of
those. It says so for the behaviours of the model, which end where a stale event
meets a handle that is freed or not paired yet. `Paired` is not inductive:
`ClearFHPair` preserves it only if the handle at hand is allocated (`Contained`),
and a new pair only if its addresses were free (`Apart`). `SpecCloseHasCause`: no
connection is closed because of another one, unless by an event that was stale;
an action property, from `IInv` and one case per action.

`SpecOutputArmed` speaks of the times before the first stale event, since an
event that meets another handle may do anything to its registration. It is not
inductive: whether `Modify` is right depends on what the events still in the
batch will do. `ArmedInv` adds that a pair in the pipe is allocated, whole, not
registered and there once (`PipeInv`); that the handles of a pair are registered
together and not before they have something to write (`PairInv`); that the batch
has one event per handle, which tells of EPOLLOUT only if the handle still waits
for it (`BatchInv`); what is open while an event is handled (`CurInv`); and that
a pair that waits for the broker is neither registered nor in the pipe
(`ConnectInv`). `NoStaleWithoutBatches`: with `MAX_EV = 1` and finitely many addresses no event
is ever stale, because the batch is empty while its only event is handled. So
problem 1 of `Readme.txt` needs two events in one batch, and nothing else.

**Relay, data** (`RelayDataProofs`). `SpecStreamInv` places every chunk: what
was received, the send buffer, the packet being written, the queue of frames,
the packet being read and the receive buffer follow each other in the stream of
one end, without a gap (`Run` for a sequence of chunks, `Chain` for a queue of
frames, with the positions where they meet in `EndInv`, `InInv` and `OutInv`).
It holds for stale events too, since `Paired` does; `SpecStreamIntegrity` is its
last part.

`SpecImplementsLink` maps each step to one of `Link`. By `StreamInv` the chunks
under way are `Stretch(t, a, n)`, the *n* chunks of the stream of *t* after the
first *a* (`OpenWay`, `WayIs`), so a step is known by how it moves two numbers:
a chunk sent moves the end, a chunk received the beginning, everything inside
the proxy neither, and a close or a reset keeps a prefix. The queue is a sequence
of sequences, and `FlattenStretch` shows what its concatenation is by taking the
least position at which it fails: the induction theorems of the library cannot be
used here, but the existence of a minimum (`WFMin`) can.

`SpecNothingLeft` is the safety half of `Delivery`, without fairness: when the
thread waits and epoll has nothing to report, every complete frame has arrived,
unless its receiver does not read, and no connection whose end has gone is still
open. A connection the broker has not taken yet is excepted. It needs all three
invariants: `ArmedInv` (output waits only with EPOLLOUT armed, so the send buffer
is full), `StreamInv` (what is in no other place has arrived) and `RestInv`: what `DoRead` has put aside is the beginning of one
frame, and a paired handle that epoll does not know is in the pipe, so that the
pipe's event is pending, or waits for the broker.

**BlockingQueue** (`BlockingQueueProofs`). `Invariance`, with `Exclusion`,
`TestHolds` and `NoLostWakeup`, for any finite sets of threads and any positive
size. `NoLostWakeup` counts: while a thread waits in `Pop`, the values in the
queue are no more than the signals still to be sent plus the threads in `Pop`
that are awake. Each step changes the three numbers by at most one; the lemmas
about cardinalities state how, once for both directions (`Half`).
`SpecImplementsBuffer`: the step from `take` is the moment a call takes effect,
every other step is a stutter or the end of a call.

**Handoff** (`HandoffProofs`). `Invariance` proves `IInv` = `TypeOK`, `Routed`
and `Held` of every connection, for any number of clients and processors, any
set of addresses, any capacity of the pipes and whatever calls fail.
`OneHolder` is not inductive, because it counts: a connection may be taken out
of one place and put into another only if the parts of the program agree on
who has it. `Routed` says that an address on its way is that of an `FHPair`, is
there once, and is on the way to the processor it selects. `Held` says which
places exclude each other and that an event in the batch is of a registration
that has fired. Each step changes what is held of one connection at most and
leaves the others alone (`Untouched`), so there is one lemma per action about
the connection it is for (`AcceptHeld`, `ConnectHeld`, `AdoptHeld`,
`RetireHeld`) and one about all others (`OtherHeld`). From `IInv`:

* `SpecOneHolder` turns the exclusions back into the count. It assumes that
  `"add"` is not in `Fault`: if `Add` fails the property does not hold (finding
  3).
* `SpecFifoExact`: what is on the way to a processor is kept, is one longer at
  its end, or is one shorter at its head, whatever moves between `out_que_`,
  `data_out_save_` and the pipe.
* `SpecBlockedPipeArmed` is strengthened to the pipes `writeAllPipes` has
  passed in this round.

**Proxy** (`ProxyProofs`). Every step of the process is a step of `Handoff` or
leaves all its variables but a pipe's registration alone, so `IInv` carries
over (`SpecTypeOK` adds the types of the rest). `SpecStaleOnlyByOwn`: a connection
that a processor has is touched by nobody else but through an event that was
stale already (`OwnedStays`), so an event it collected stays good until the same
processor clears the connection or the connection is struck by such an event.
`SpecImplementsCustody` computes the hands of a connection from `IInv`
(`HandsAre`) and shows that every step passes at most one connection on, in a way
`Custody` allows; a stale event that clears a connection takes it from the one
processor that had it. All three hold for any number of clients and processors,
whatever part of the start-up fails and whatever addresses are used again. They
end, as the behaviours do, where an event meets freed memory or a handle of the
main thread.

**LoadTest** (`LoadTestProofs`), for any number of workers, files and cards,
any capacity of the channel and whatever `main.go` lets through, an empty list and
negative factors included. `LoadTestJoins`: `wg.Wait()` returns, unless it
panics, only when no operation is under way; a worker or `StatisticsLoop` that
has not joined yet may still start. `LInv` counts: the group holds the goroutines that have joined
and not left, and every operation begun is with a worker, in the channel, with
`StatisticsLoop` or in `IOTimes` (`CountInv`). `LoadTestFiles`: if the list has a
file, a copy of `read_n` may be too large only between its read and the test
(`FileInv`), whatever the other workers store. `LoadTestRatio`, with half the deck
as reads where a factor is negative: a swap of two cards keeps the number of
each kind, and a shuffle is a recursive function of swaps, so `ShufflesKeep`
takes the least number of swaps that would not.

**ProxyV1** (`ProxyV1Proofs`), for any number of sessions and processors and any
capacity of the queue. `VInv` has five parts beside the two properties it
strengthens. `Places` is `OneHandler` without the count: armed, in the batch, in
the queue and with a processor exclude each other. `Young`: until the broker has
answered, only the main thread has a handle of the session. `Rivals`: if both
handles of a session were in flight at once the session is in `rival`, and a
handle in flight whose partner is freed is of such a session or is held by the
very processor that freed the partner; from it `ProxyV1Freed`, that only those
sessions meet a freed handle. `Fresh`: nothing was written to a client before
the frame under way, from which `ProxyV1Frames`.

**Only model-checked.** Liveness (`Delivery`, `Teardown`, `Served`,
`ServedIfRunning`, `Progress`, `StopsWithRoom`, `Popped`): it rests on fairness,
and the prover handles neither ENABLED nor fairness. Nothing else a passing run
checks is without a theorem. The properties of the violation runs do not hold;
`NoStaleDispatch` does under the assumptions of `NoStaleWithoutBatches`. No module
declares a RECURSIVE operator; recursive functions are used where the code
loops, and their results are proved by least counterexample, as above.

## 6. Not modelled, and why

* What start-up does inside one call: parsing of end points, `bind`, `listen`,
  socket options. `Proxy` models each call as failing or not. A failing
  `epoll_create` in a constructor exits before `main()` begins.
* What two threads do to one handle at the same time. It takes a stale event that
  meets a handle of another thread, and is undefined from there on: `Relay` and
  `Proxy` let such an event act as a whole, between two steps of the other
  thread, or end the behaviour.
* A failing `epoll_wait` (the process exits; for EINTR the main thread tries
  again, `proxy_handler.cpp:108`), a failing read or write on a
  pipe between two threads of one process, `SetNonblock` (it never returns a
  negative number in mq-proxy2).
* Helpers, error texts and logging: no property depends on them.
* Names of objects in ceph_test (`file_no`), sizes and times in its records, and
  the torn values that a data race on `StartTime` may give.
* `size()` of the queues, which has no caller.
* `src/test`: what it would do depends on how it would be repaired.

## 7. Plan

Written so far, most important first: `PacketIO`, `Relay`, `Link`, `Handoff`,
`Proxy`, `Custody`, `BlockingQueue`, `LoadTest`, `ProxyV1`; the proofs above.

Next, for the proofs: the safety halves of the other liveness properties, as
`NothingLeft` is of `Delivery`. For `Handoff`: when `Loop` waits and nothing is
pending, what was accepted is with a processor, is connecting, or is for a pipe
that is full. For `LoadTest`: when the main goroutine waits in `wg.Wait()` for
ever, the channel is full.

Next, for the models:

1. `ProxyV1`: the comment at `packet.h:40` ("partial is 1") as a violation run.
2. The channel of `src/test` with declared repairs, if it can be read without
   inventing what it does.
