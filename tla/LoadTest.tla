------------------------------ MODULE LoadTest ------------------------------
(***************************************************************************)
(* ceph_test, the load generator for the object store (src/ceph_test/ct):  *)
(* LoopNum goroutines read or write objects until a global flag is         *)
(* cleared, send one record per operation through a buffered channel to    *)
(* the goroutine that keeps the statistics, and the main goroutine waits   *)
(* for a timer or a signal, clears the flag, waits for the group and       *)
(* prints a last line.                                                     *)
(*                                                                         *)
(* The flag, read_n and the statistics are plain variables: a step of this *)
(* module reads or writes the flag or read_n once.  Of the statistics it   *)
(* keeps the number of records counted and whether StartTime was written.  *)
(* The contents of a record are left out, and so are the names of the      *)
(* objects written.  A panic of any goroutine ends the process.            *)
(***************************************************************************)
EXTENDS Integers, Sequences, FiniteSets

CONSTANTS
    Worker,       \* the goroutines of DoReadTest, DoWriteTest, DoReadWriteTest
    Configs,      \* what main.go, which validates nothing, may make of the flags
    Cap,          \* the buffer of RecordChan (1024)
    MaxOps        \* bound: operations begun in all

Types == {"READ", "WRITE", "READ_WRITE"}

\* -type, -r, -w and len(c.ReadFileList)
ASSUME ConfigAssumption ==
    Configs \subseteq [Type : Types, ReadFactor : Int, WriteFactor : Int, NumFiles : Nat]
ASSUME SizeAssumption ==
    IsFiniteSet(Worker) /\ Cap \in Nat \ {0} /\ MaxOps \in Nat

VARIABLES
    cfg,      \* the configuration
    run,      \* the flag
    wg,       \* the counter of the wait group
    main,     \* where the main goroutine is
    wpc,      \* where each worker is
    cards,    \* of each worker: the cards of ReadWriteLoop
    remain,   \* of each worker: cards_remain
    dealt,    \* of each worker: the cards dealt since the last shuffle
    a,        \* of each worker: its copy of read_n, the index it reads
    loaded,   \* of each worker: what its read_n += 1 has loaded
    read_n,   \* the next file to read
    spc,      \* where StatisticsLoop is
    started,  \* statis.StartTime has been written
    queued,   \* records in RecordChan
    begun,    \* operations begun
    sent,     \* records sent
    IOTimes   \* records counted in the statistics

deck  == <<cards, remain, dealt>>
files == <<a, loaded, read_n>>
stats == <<spc, started, IOTimes>>
vars  == <<cfg, run, wg, main, wpc, deck, files, stats, queued, begun, sent>>

-----------------------------------------------------------------------------
(***************************************************************************)
(* InitCards: rf times READ, then WRITE, and one swap of every card with a *)
(* random one; a factor that exceeds the deck, which takes a negative one  *)
(* beside it, gives half of each.  Shuffles is the set of its possible     *)
(* results.                                                                *)
(***************************************************************************)
NumCards == cfg.ReadFactor + cfg.WriteFactor

\* The mutant forgets the fallback.
ReadCardsAsGiven == cfg.ReadFactor
ReadCards ==
    IF cfg.ReadFactor > NumCards \/ cfg.WriteFactor > NumCards
    THEN NumCards \div 2
    ELSE cfg.ReadFactor

Fresh == [i \in 1..NumCards |-> IF i <= ReadCards THEN "READ" ELSE "WRITE"]

Swap(c, i, n) == [c EXCEPT ![i] = c[n], ![n] = c[i]]

Shuffles ==
    LET after[i \in 0..NumCards] ==
            IF i = 0 THEN {Fresh}
            ELSE {Swap(c, i, n) : c \in after[i-1], n \in 1..NumCards}
    IN  after[NumCards]

CountOf(s, x) == Cardinality({i \in DOMAIN s : s[i] = x})

-----------------------------------------------------------------------------
Init ==
    /\ cfg \in Configs
    /\ run = TRUE
    /\ wg = 0
    /\ main = "wait"
    /\ wpc = [w \in Worker |-> "start"]
    /\ cards = [w \in Worker |-> Fresh]
    /\ remain = [w \in Worker |-> 0]
    /\ dealt = [w \in Worker |-> <<>>]
    /\ a = [w \in Worker |-> 0]
    /\ loaded = [w \in Worker |-> 0]
    /\ read_n = 0
    /\ spc = "start" /\ started = FALSE
    /\ queued = 0 /\ begun = 0 /\ sent = 0 /\ IOTimes = 0

Goto(w, l) == wpc' = [wpc EXCEPT ![w] = l]

(***************************************************************************)
(* The wait group.  wg.Wait() returns at once when the counter is 0;       *)
(* otherwise main is a waiter until the wg.Done() that takes the counter   *)
(* to 0 releases it, a step of its own ("wake"), and looks at the counter  *)
(* again when it runs.  An Add that takes the counter from 0 to 1 while    *)
(* main still is a waiter panics ("Add called concurrently with Wait"), as *)
(* main does when it finds the counter above 0 ("reused before previous    *)
(* Wait has returned").                                                    *)
(***************************************************************************)
\* The mutants forget wg.Add(1) and wg.Done().
AddNot  == wg' = wg
Add     == wg' = wg + 1
DoneNot == wg' = wg
Done    == wg' = wg - 1

Misused    == wg = 0 /\ main = "waiting"
AfterDone  == IF wg = 1 /\ main = "waiting" THEN "wake" ELSE "done"

\* The make() of the cards panics for a negative length.
NoDeck == cfg.Type = "READ_WRITE" /\ NumCards < 0

\* wg.Add(1) is the goroutine's own first step: the main goroutine may have come
\* to wg.Wait() before.
WorkerAdd(w) ==
    /\ wpc[w] = "start" /\ ~NoDeck /\ ~Misused
    /\ Add
    /\ Goto(w, "loop")
    /\ UNCHANGED <<cfg, run, main, deck, files, stats, queued, begun, sent>>

\* "for run" goes on.
Begin(w) ==
    /\ wpc[w] = "loop" /\ run /\ begun < MaxOps
    /\ begun' = begun + 1
    /\ UNCHANGED <<cfg, run, wg, main, stats, queued, sent>>

BeginSame(w) ==
    /\ cfg.Type # "READ_WRITE"
    /\ Begin(w)
    /\ Goto(w, IF cfg.Type = "READ" THEN "pick" ELSE "put")
    /\ UNCHANGED <<deck, files>>

\* ReadWriteLoop shuffles when no card remains, and deals from the end.
BeginCard(w) ==
    /\ cfg.Type = "READ_WRITE" /\ NumCards > 0
    /\ Begin(w)
    /\ \E c \in IF remain[w] = 0 THEN Shuffles ELSE {cards[w]} :
           LET r == (IF remain[w] = 0 THEN NumCards ELSE remain[w]) - 1
               d == IF remain[w] = 0 THEN <<>> ELSE dealt[w] IN
           /\ cards' = [cards EXCEPT ![w] = c]
           /\ remain' = [remain EXCEPT ![w] = r]
           /\ dealt' = [dealt EXCEPT ![w] = Append(d, c[r + 1])]
           /\ Goto(w, IF c[r + 1] = "READ" THEN "pick" ELSE "put")
    /\ UNCHANGED files

\* a := read_n.
PickFile(w) ==
    /\ wpc[w] = "pick"
    /\ a' = [a EXCEPT ![w] = read_n]
    /\ Goto(w, "picked")
    /\ UNCHANGED <<cfg, run, wg, main, deck, loaded, read_n, stats, queued, begun,
                   sent>>

\* The copy of read_n is behind the last file; the mutant is off by one.
PastMore(w) == a[w] > cfg.NumFiles
Past(w)     == a[w] >= cfg.NumFiles

\* Back to the first file.
Rewind(w) ==
    /\ wpc[w] = "picked" /\ Past(w)
    /\ a' = [a EXCEPT ![w] = 0]
    /\ read_n' = 0
    /\ Goto(w, "get")
    /\ UNCHANGED <<cfg, run, wg, main, deck, loaded, stats, queued, begun, sent>>

\* read_n += 1: a load and a store, other goroutines in between.
CountOn(w) ==
    /\ wpc[w] = "picked" /\ ~Past(w)
    /\ loaded' = [loaded EXCEPT ![w] = read_n]
    /\ Goto(w, "loaded")
    /\ UNCHANGED <<cfg, run, wg, main, deck, a, read_n, stats, queued, begun, sent>>

StoreCount(w) ==
    /\ wpc[w] = "loaded"
    /\ read_n' = loaded[w] + 1
    /\ Goto(w, "get")
    /\ UNCHANGED <<cfg, run, wg, main, deck, a, loaded, stats, queued, begun, sent>>

\* GetObject or PutObject, whatever its result.
Call(w) ==
    /\ wpc[w] = "put" \/ (wpc[w] = "get" /\ a[w] < cfg.NumFiles)
    /\ Goto(w, "send")
    /\ UNCHANGED <<cfg, run, wg, main, deck, files, stats, queued, begun, sent>>

\* RecordChan <- r waits while the buffer is full.
Send(w) ==
    /\ wpc[w] = "send" /\ queued < Cap
    /\ queued' = queued + 1
    /\ sent' = sent + 1
    /\ Goto(w, "loop")
    /\ UNCHANGED <<cfg, run, wg, main, deck, files, stats, begun>>

\* The loop ends, and the deferred wg.Done() runs.
WorkerExit(w) ==
    /\ wpc[w] = "loop" /\ ~run
    /\ Done
    /\ Goto(w, AfterDone)
    /\ UNCHANGED <<cfg, run, main, deck, files, stats, queued, begun, sent>>

Release == main' = "woken"

WorkerWake(w) ==
    /\ wpc[w] = "wake"
    /\ Release
    /\ Goto(w, "done")
    /\ UNCHANGED <<cfg, run, wg, deck, files, stats, queued, begun, sent>>

\* The panics of a worker: no deck, a late Add, an empty deck (the index is -1), no
\* file to read.
WorkerPanics(w) ==
    /\ \/ wpc[w] = "start" /\ (NoDeck \/ Misused)
       \/ wpc[w] = "loop" /\ run /\ cfg.Type = "READ_WRITE" /\ NumCards = 0
       \/ wpc[w] = "get" /\ a[w] >= cfg.NumFiles
    /\ main' = "panic"
    /\ UNCHANGED <<cfg, run, wg, wpc, deck, files, stats, queued, begun, sent>>

-----------------------------------------------------------------------------
(***************************************************************************)
(* StatisticsLoop.                                                         *)
(***************************************************************************)
\* StartTime is written before the goroutine joins the group.
StatsStart ==
    /\ spc = "start"
    /\ started' = TRUE
    /\ spc' = "add"
    /\ UNCHANGED <<cfg, run, wg, main, wpc, deck, files, IOTimes, queued, begun, sent>>

StatsAdd ==
    /\ spc = "add" /\ ~Misused
    /\ Add
    /\ spc' = "loop"
    /\ UNCHANGED <<cfg, run, main, wpc, deck, files, started, IOTimes, queued, begun,
                   sent>>

StatsPanics ==
    /\ spc = "add" /\ Misused
    /\ main' = "panic"
    /\ UNCHANGED <<cfg, run, wg, wpc, deck, files, stats, queued, begun, sent>>

StatsEnter ==
    /\ spc = "loop" /\ run
    /\ spc' = "select"
    /\ UNCHANGED <<cfg, run, wg, main, wpc, deck, files, started, IOTimes, queued, begun,
                   sent>>

StatsReceive ==
    /\ spc = "select" /\ queued > 0
    /\ queued' = queued - 1
    /\ spc' = "handle"
    /\ UNCHANGED <<cfg, run, wg, main, wpc, deck, files, started, IOTimes, begun, sent>>

\* The timer of one second.
StatsTick ==
    /\ spc = "select"
    /\ spc' = "loop"
    /\ UNCHANGED <<cfg, run, wg, main, wpc, deck, files, started, IOTimes, queued, begun,
                   sent>>

\* HandleRecord.
StatsHandle ==
    /\ spc = "handle"
    /\ IOTimes' = IOTimes + 1
    /\ spc' = "loop"
    /\ UNCHANGED <<cfg, run, wg, main, wpc, deck, files, started, queued, begun, sent>>

\* The flag is clear; wg.Done() is deferred.
StatsExit ==
    /\ spc = "loop" /\ ~run
    /\ Done
    /\ spc' = AfterDone
    /\ UNCHANGED <<cfg, run, main, wpc, deck, files, started, IOTimes, queued, begun,
                   sent>>

StatsWake ==
    /\ spc = "wake"
    /\ Release
    /\ spc' = "done"
    /\ UNCHANGED <<cfg, run, wg, wpc, deck, files, started, IOTimes, queued, begun,
                   sent>>

-----------------------------------------------------------------------------
(***************************************************************************)
(* Controller.Wait and LastStatistics.                                     *)
(***************************************************************************)
\* The timer fires or a signal is received.
Stop ==
    /\ main = "wait"
    /\ run' = FALSE
    /\ main' = "join"
    /\ UNCHANGED <<cfg, wg, wpc, deck, files, stats, queued, begun, sent>>

\* wg.Wait() returns at once or waits.
Join ==
    /\ main = "join"
    /\ main' = IF wg = 0 THEN "last" ELSE "waiting"
    /\ UNCHANGED <<cfg, run, wg, wpc, deck, files, stats, queued, begun, sent>>

\* The waiter runs again.
Woken ==
    /\ main = "woken"
    /\ main' = IF wg = 0 THEN "last" ELSE "panic"
    /\ UNCHANGED <<cfg, run, wg, wpc, deck, files, stats, queued, begun, sent>>

\* One record more, if there is one.
LastRecord ==
    /\ main = "last"
    /\ IF queued > 0
       THEN queued' = queued - 1 /\ IOTimes' = IOTimes + 1
       ELSE UNCHANGED <<queued, IOTimes>>
    /\ main' = "report"
    /\ UNCHANGED <<cfg, run, wg, wpc, deck, files, spc, started, begun, sent>>

\* The last line is printed and the process ends, its goroutines with it.
Report ==
    /\ main = "report"
    /\ main' = "exit"
    /\ UNCHANGED <<cfg, run, wg, wpc, deck, files, stats, queued, begun, sent>>

-----------------------------------------------------------------------------
\* What a goroutine does while the process lives.
WorkerStep(w) ==
    \/ WorkerAdd(w) \/ BeginSame(w) \/ BeginCard(w)
    \/ PickFile(w) \/ Rewind(w) \/ CountOn(w) \/ StoreCount(w)
    \/ Call(w) \/ Send(w) \/ WorkerExit(w) \/ WorkerWake(w) \/ WorkerPanics(w)

StatsStep ==
    \/ StatsStart \/ StatsAdd \/ StatsEnter \/ StatsReceive \/ StatsTick
    \/ StatsHandle \/ StatsExit \/ StatsWake \/ StatsPanics

Ended == main \in {"exit", "panic"}

WorkerLoop(w)  == ~Ended /\ WorkerStep(w)
StatisticsLoop == ~Ended /\ StatsStep

Main == Stop \/ Join \/ Woken \/ LastRecord \/ Report

Next ==
    \/ \E w \in Worker : WorkerLoop(w)
    \/ StatisticsLoop
    \/ Main

Spec == Init /\ [][Next]_vars

\* Every goroutine runs, the store answers, and the timer fires.
Fairness ==
    /\ \A w \in Worker : WF_vars(WorkerLoop(w))
    /\ WF_vars(StatisticsLoop)
    /\ WF_vars(Main)

FairSpec == Spec /\ Fairness

-----------------------------------------------------------------------------
InFlight == {w \in Worker : wpc[w] \notin {"start", "loop", "wake", "done"}}

\* wg is a natural number: Done() panics below zero.
TypeOK ==
    /\ cfg \in Configs /\ run \in BOOLEAN
    /\ wg \in Nat
    /\ main \in {"wait", "join", "waiting", "woken", "last", "report", "exit", "panic"}
    /\ wpc \in [Worker -> {"start", "loop", "pick", "picked", "loaded", "get", "put",
                           "send", "wake", "done"}]
    /\ cards \in [Worker -> [1..NumCards -> {"READ", "WRITE"}]]
    /\ remain \in [Worker -> {0} \cup 1..NumCards]
    /\ dealt \in [Worker -> Seq({"READ", "WRITE"})]
    /\ a \in [Worker -> Nat] /\ loaded \in [Worker -> Nat] /\ read_n \in Nat
    /\ spc \in {"start", "add", "loop", "select", "handle", "wake", "done"}
    /\ started \in BOOLEAN
    /\ queued \in 0..Cap
    /\ begun \in 0..MaxOps /\ sent \in 0..MaxOps /\ IOTimes \in 0..MaxOps

\* Although a goroutine joins the group only once it runs, wg.Wait() returns, if it
\* does not panic, when no operation is under way: the records counted are the
\* main goroutine's alone from then on, and every operation that was begun is
\* counted or still in the channel (control.go:36-43, io.go:321-327).  StartTime is
\* not covered: a StatisticsLoop that starts late writes it at any moment.
NobodyAtWork ==
    main \in {"last", "report", "exit"} =>
        /\ InFlight = {} /\ spc \notin {"select", "handle"}
        /\ begun = IOTimes + queued

\* If the list of files is not empty, the index that is read is inside it, although
\* read_n, which the workers change without a lock, may be anywhere behind the end
\* of the list (io.go:176-183).  With an empty list the index is 0: a panic.
FileExists ==
    cfg.NumFiles > 0 =>
        \A w \in Worker : wpc[w] \in {"loaded", "get"} => a[w] < cfg.NumFiles

\* Of the cards of one round as many are READ as the factor says, or half of them
\* when a factor is negative, however the cards are shuffled (io.go:230-271).
RatioKept ==
    \A w \in Worker :
        dealt[w] # <<>> =>
            CountOf(dealt[w], "READ")
                + CountOf(SubSeq(cards[w], 1, remain[w]), "READ")
            = IF cfg.ReadFactor >= 0 /\ cfg.WriteFactor >= 0
              THEN cfg.ReadFactor
              ELSE NumCards \div 2

\* "-t: test running duration" (main.go:26): the process ends after that time.
Stops == (main = "join") ~> Ended

\* It does if the records of the operations under way fit in the channel, which
\* nobody empties any more (control.go:41-42, io.go:308-318).
StopsWithRoom ==
    (main = "join" /\ queued + Cardinality(InFlight) <= Cap) ~> Ended
=============================================================================
