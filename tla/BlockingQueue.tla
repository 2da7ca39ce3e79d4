--------------------------- MODULE BlockingQueue ---------------------------
(***************************************************************************)
(* common::BlockingQueue (src/common/blocking_queue.h): a std::queue, a    *)
(* mutex and two condition variables, shared by threads that call Push and *)
(* threads that call Pop.  mq-proxy's spxy::TSQueue is the same code under *)
(* another name.                                                           *)
(*                                                                         *)
(* A thread's pc is the line it is at: "lock" before pthread_mutex_lock,   *)
(* "test" at the while condition, "wait" inside pthread_cond_wait,         *)
(* "relock" woken and about to lock the mutex again, "take" behind the     *)
(* loop, "unlock" before pthread_mutex_unlock, "signal" before             *)
(* pthread_cond_signal.  size() reads the queue without the mutex and has  *)
(* no caller; it is left out.                                              *)
(***************************************************************************)
EXTENDS Integers, Sequences, FiniteSets

CONSTANTS
    Producer,  \* the threads that call Push
    Consumer,  \* the threads that call Pop
    Value,     \* what they hand over
    MaxSize,   \* max_size_
    NULL       \* the owner of a free mutex

Thread == Producer \cup Consumer

ASSUME ThreadAssumption ==
    /\ IsFiniteSet(Producer) /\ IsFiniteSet(Consumer)
    /\ Producer \cap Consumer = {}
    /\ NULL \notin Thread
ASSUME SizeAssumption == MaxSize \in Nat \ {0}

VARIABLES
    pc,     \* of each thread: where it is
    val,    \* of each thread: the parameter of its Push, the result of its Pop
    queue,  \* queue_
    owner   \* the thread that holds mutex_

vars == <<pc, val, queue, owner>>

Location ==
    {"idle", "lock", "test", "wait", "relock", "take", "unlock", "signal"}

Init ==
    /\ pc = [t \in Thread |-> "idle"]
    /\ val \in [Thread -> Value]
    /\ queue = <<>>
    /\ owner = NULL

Goto(t, l) == pc' = [pc EXCEPT ![t] = l]

At(S, l) == {t \in S : pc[t] = l}

-----------------------------------------------------------------------------
CallPush(p) == \E v \in Value :
    /\ pc[p] = "idle"
    /\ val' = [val EXCEPT ![p] = v]
    /\ Goto(p, "lock")
    /\ UNCHANGED <<queue, owner>>

CallPop(c) ==
    /\ pc[c] = "idle"
    /\ Goto(c, "lock")
    /\ UNCHANGED <<val, queue, owner>>

\* pthread_mutex_lock.
Lock(t) ==
    /\ pc[t] = "lock" /\ owner = NULL
    /\ owner' = t
    /\ Goto(t, "test")
    /\ UNCHANGED <<val, queue>>

\* pthread_cond_wait returns with the mutex held, back at the condition.  The
\* mutant is an "if" where the code has a "while".
RelockIf(t) ==
    /\ pc[t] = "relock" /\ owner = NULL
    /\ owner' = t
    /\ Goto(t, "take")
    /\ UNCHANGED <<val, queue>>

Relock(t) ==
    /\ pc[t] = "relock" /\ owner = NULL
    /\ owner' = t
    /\ Goto(t, "test")
    /\ UNCHANGED <<val, queue>>

\* pthread_cond_wait may return without a signal.
SpuriousWakeup(t) ==
    /\ pc[t] = "wait"
    /\ Goto(t, "relock")
    /\ UNCHANGED <<val, queue, owner>>

\* The two while conditions.
MustWait(t) ==
    IF t \in Consumer THEN queue = <<>> ELSE Len(queue) >= MaxSize

\* pthread_cond_wait frees the mutex and starts to wait in one step.  The
\* mutant goes to sleep with the mutex held.
WaitLocked(t) ==
    /\ pc[t] = "test" /\ MustWait(t)
    /\ Goto(t, "wait")
    /\ UNCHANGED <<val, queue, owner>>

Wait(t) ==
    /\ pc[t] = "test" /\ MustWait(t)
    /\ owner' = NULL
    /\ Goto(t, "wait")
    /\ UNCHANGED <<val, queue>>

Leave(t) ==
    /\ pc[t] = "test" /\ ~MustWait(t)
    /\ Goto(t, "take")
    /\ UNCHANGED <<val, queue, owner>>

\* front() and pop(), and push().  The mutant forgets pop().
PopTakeKeep(c) ==
    /\ pc[c] = "take"
    /\ val' = [val EXCEPT ![c] = Head(queue)]
    /\ Goto(c, "unlock")
    /\ UNCHANGED <<queue, owner>>

PopTake(c) ==
    /\ pc[c] = "take"
    /\ val' = [val EXCEPT ![c] = Head(queue)]
    /\ queue' = Tail(queue)
    /\ Goto(c, "unlock")
    /\ UNCHANGED owner

PushTake(p) ==
    /\ pc[p] = "take"
    /\ queue' = Append(queue, val[p])
    /\ Goto(p, "unlock")
    /\ UNCHANGED <<val, owner>>

Unlock(t) ==
    /\ pc[t] = "unlock"
    /\ owner' = NULL
    /\ Goto(t, "signal")
    /\ UNCHANGED <<val, queue>>

\* pthread_cond_signal wakes one of the threads that wait on the condition, if
\* any does.  Pop signals cond_write_ and Push cond_read_; the mutants signal
\* the other one, and signal only where the queue was empty before the Push.
SignalTo(t, S) ==
    /\ pc[t] = "signal"
    /\ IF At(S, "wait") = {} THEN Goto(t, "idle")
       ELSE \E w \in At(S, "wait") :
                pc' = [pc EXCEPT ![t] = "idle", ![w] = "relock"]
    /\ UNCHANGED <<val, queue, owner>>

PopSignalRead(c)  == SignalTo(c, Consumer)
PopSignal(c)      == SignalTo(c, Producer)

PushSignalFirst(p) ==
    SignalTo(p, IF Len(queue) = 1 THEN Consumer ELSE {})

PushSignal(p) == SignalTo(p, Consumer)

-----------------------------------------------------------------------------
Step(t) == Lock(t) \/ Relock(t) \/ Wait(t) \/ Leave(t) \/ Unlock(t)

Pop(c)  == Step(c) \/ PopTake(c) \/ PopSignal(c)
Push(p) == Step(p) \/ PushTake(p) \/ PushSignal(p)

Next ==
    \/ \E p \in Producer : CallPush(p) \/ Push(p)
    \/ \E c \in Consumer : CallPop(c) \/ Pop(c)
    \/ \E t \in Thread : SpuriousWakeup(t)

Spec == Init /\ [][Next]_vars

\* A thread inside a call runs, a free mutex is given to some thread that wants
\* it though not to each, and waits do not end without a signal for ever.
Fairness ==
    /\ \A p \in Producer : WF_vars(Push(p))
    /\ \A c \in Consumer : WF_vars(Pop(c))
    /\ <>[][~\E t \in Thread : SpuriousWakeup(t)]_vars

FairSpec == Spec /\ Fairness

-----------------------------------------------------------------------------
TypeOK ==
    /\ pc \in [Thread -> Location]
    /\ val \in [Thread -> Value]
    /\ queue \in Seq(Value)
    /\ owner \in Thread \cup {NULL}

\* The mutex has one owner, and it is the thread between lock and unlock.
Exclusion ==
    \A t \in Thread : pc[t] \in {"test", "take", "unlock"} <=> owner = t

\* The condition a thread has tested still holds when it uses the queue: front()
\* and pop() never meet an empty queue, which would be undefined, and push()
\* never goes beyond max_size_.
TestHolds ==
    /\ Len(queue) <= MaxSize
    /\ \A t \in Thread : pc[t] = "take" => ~MustWait(t)

\* The threads of S that are going to look at the queue although they have been
\* waiting, and those that have not sent their signal yet.
Awake(S)   == {t \in S : pc[t] \in {"relock", "test", "take"}}
Pending(S) == {t \in S : pc[t] \in {"unlock", "signal"}}

\* No wake-up is lost although the signal is sent after the mutex is free: while
\* a thread waits in Pop, every value in the queue is matched by a signal that
\* is still to be sent or by a thread in Pop that is awake; and every free place
\* in the same way while a thread waits in Push.
NoLostWakeup ==
    /\ At(Consumer, "wait") # {} =>
           Len(queue) <= Cardinality(Pending(Producer))
                           + Cardinality(Awake(Consumer))
    /\ At(Producer, "wait") # {} =>
           MaxSize - Len(queue) <= Cardinality(Pending(Consumer))
                                     + Cardinality(Awake(Producer))

\* The inductive invariant.
IInv == TypeOK /\ Exclusion /\ TestHolds /\ NoLostWakeup

\* The queue is a buffer on which every call takes effect at one moment.
B == INSTANCE BoundedBuffer WITH
        items <- queue,
        call  <- [t \in Thread |->
                    IF pc[t] = "idle" THEN "none"
                    ELSE IF pc[t] \in {"unlock", "signal"} THEN "done"
                    ELSE "open"]

ImplementsBuffer == B!Spec

\* While a thread waits in Pop and there is something to take, some Pop goes on
\* to take it; while a thread waits in Push and there is room, some Push uses it.
Progress ==
    /\ (queue # <<>> /\ At(Consumer, "wait") # {})
           ~> (At(Consumer, "unlock") # {})
    /\ (Len(queue) < MaxSize /\ At(Producer, "wait") # {})
           ~> (At(Producer, "unlock") # {})
=============================================================================
