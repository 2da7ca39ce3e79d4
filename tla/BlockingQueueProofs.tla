------------------------ MODULE BlockingQueueProofs ------------------------
(***************************************************************************)
(* Proofs about BlockingQueue, for any finite sets of threads, any values  *)
(* and any positive max_size_: the inductive invariant IInv, that no       *)
(* wake-up is lost, that the queue is never used against the condition     *)
(* that was tested, and that it implements BoundedBuffer.                  *)
(***************************************************************************)
EXTENDS BlockingQueue, FiniteSetTheorems, TLAPS

-----------------------------------------------------------------------------
(***************************************************************************)
(* NoLostWakeup is the same statement twice.  Half states it for threads S *)
(* that wait and threads T that signal them, where n is what S waits for   *)
(* (values, or free places) and f is the control state.                    *)
(***************************************************************************)
Waiting(f, S) == {t \in S : f[t] = "wait"}
Rising(f, S)  == {t \in S : f[t] \in {"relock", "test", "take"}}
Owing(f, T)   == {t \in T : f[t] \in {"unlock", "signal"}}

Half(S, T, f, n) ==
    Waiting(f, S) # {} => n <= Cardinality(Owing(f, T)) + Cardinality(Rising(f, S))

LEMMA Halves ==
    NoLostWakeup <=> /\ Half(Consumer, Producer, pc, Len(queue))
                     /\ Half(Producer, Consumer, pc, MaxSize - Len(queue))
BY DEF NoLostWakeup, Half, Waiting, Rising, Owing, At, Awake, Pending

LEMMA HalvesNext ==
    NoLostWakeup' <=> /\ Half(Consumer, Producer, pc', Len(queue'))
                      /\ Half(Producer, Consumer, pc', MaxSize - Len(queue'))
BY DEF NoLostWakeup, Half, Waiting, Rising, Owing, At, Awake, Pending

LEMMA Finite ==
    ASSUME NEW S, NEW T, NEW f, IsFiniteSet(S), IsFiniteSet(T)
    PROVE  /\ IsFiniteSet(Rising(f, S)) /\ Cardinality(Rising(f, S)) \in Nat
           /\ IsFiniteSet(Owing(f, T)) /\ Cardinality(Owing(f, T)) \in Nat
<1>1. Rising(f, S) \subseteq S /\ Owing(f, T) \subseteq T
  BY DEF Rising, Owing
<1>2. IsFiniteSet(Rising(f, S)) /\ IsFiniteSet(Owing(f, T))
  BY <1>1, FS_Subset
<1> QED
  BY <1>2, FS_CardinalityType

LEMMA OneMore ==
    ASSUME NEW A, NEW Z, NEW x, IsFiniteSet(A), x \notin A, Z = A \cup {x}
    PROVE  Cardinality(Z) = Cardinality(A) + 1
BY FS_AddElement

LEMMA OneLess ==
    ASSUME NEW A, NEW Z, NEW x, IsFiniteSet(A), x \in A, Z = A \ {x}
    PROVE  Cardinality(Z) = Cardinality(A) - 1
BY FS_RemoveElement

\* A step that lets nobody sleep and takes nobody away from those who care.
LEMMA HalfKept ==
    ASSUME NEW S, NEW T, NEW f, NEW g, NEW n \in Int,
           IsFiniteSet(S), IsFiniteSet(T), Half(S, T, f, n),
           Waiting(g, S) \subseteq Waiting(f, S),
           Rising(f, S) \subseteq Rising(g, S),
           Owing(f, T) \subseteq Owing(g, T)
    PROVE  Half(S, T, g, n)
<1>1. /\ Cardinality(Rising(f, S)) <= Cardinality(Rising(g, S))
      /\ Cardinality(Owing(f, T)) <= Cardinality(Owing(g, T))
  BY FS_Subset, Finite
<1>2. /\ Cardinality(Rising(f, S)) \in Nat /\ Cardinality(Rising(g, S)) \in Nat
      /\ Cardinality(Owing(f, T)) \in Nat /\ Cardinality(Owing(g, T)) \in Nat
  BY Finite
<1> QED
  BY <1>1, <1>2 DEF Half

\* A step after which there is nothing to wait for.
LEMMA HalfNothing ==
    ASSUME NEW S, NEW T, NEW g, NEW n \in Int,
           IsFiniteSet(S), IsFiniteSet(T), n <= 0
    PROVE  Half(S, T, g, n)
<1>1. Cardinality(Rising(g, S)) \in Nat /\ Cardinality(Owing(g, T)) \in Nat
  BY Finite
<1> QED
  BY <1>1 DEF Half

\* A thread that is awake takes what it came for.
LEMMA HalfTaken ==
    ASSUME NEW S, NEW T, NEW f, NEW g, NEW n \in Int, NEW x \in S,
           IsFiniteSet(S), IsFiniteSet(T), Half(S, T, f, n),
           Waiting(g, S) \subseteq Waiting(f, S),
           x \in Rising(f, S), Rising(g, S) = Rising(f, S) \ {x},
           Owing(f, T) = Owing(g, T)
    PROVE  Half(S, T, g, n - 1)
<1>1. Cardinality(Rising(g, S)) = Cardinality(Rising(f, S)) - 1
  <2>1. IsFiniteSet(Rising(f, S))
    BY Finite
  <2> QED
    BY <2>1, OneLess
<1>2. Cardinality(Rising(f, S)) \in Nat /\ Cardinality(Owing(f, T)) \in Nat
  BY Finite
<1> QED
  BY <1>1, <1>2 DEF Half

\* A thread of the other side adds something, and its signal is still to come.
LEMMA HalfAdded ==
    ASSUME NEW S, NEW T, NEW f, NEW g, NEW n \in Int, NEW x \in T,
           IsFiniteSet(S), IsFiniteSet(T), Half(S, T, f, n),
           Waiting(g, S) \subseteq Waiting(f, S),
           Rising(g, S) = Rising(f, S),
           x \notin Owing(f, T), Owing(g, T) = Owing(f, T) \cup {x}
    PROVE  Half(S, T, g, n + 1)
<1>1. Cardinality(Owing(g, T)) = Cardinality(Owing(f, T)) + 1
  <2>1. IsFiniteSet(Owing(f, T))
    BY Finite
  <2> QED
    BY <2>1, OneMore
<1>2. Cardinality(Rising(f, S)) \in Nat /\ Cardinality(Owing(f, T)) \in Nat
  BY Finite
<1> QED
  BY <1>1, <1>2 DEF Half

\* The signal of x wakes w.
LEMMA HalfSignalled ==
    ASSUME NEW S, NEW T, NEW f, NEW g, NEW n \in Int, NEW x \in T, NEW w \in S,
           IsFiniteSet(S), IsFiniteSet(T), Half(S, T, f, n),
           Waiting(f, S) # {},
           w \notin Rising(f, S), Rising(g, S) = Rising(f, S) \cup {w},
           x \in Owing(f, T), Owing(g, T) = Owing(f, T) \ {x}
    PROVE  Half(S, T, g, n)
<1>1. Cardinality(Owing(g, T)) = Cardinality(Owing(f, T)) - 1
  <2>1. IsFiniteSet(Owing(f, T))
    BY Finite
  <2> QED
    BY <2>1, OneLess
<1>2. Cardinality(Rising(g, S)) = Cardinality(Rising(f, S)) + 1
  <2>1. IsFiniteSet(Rising(f, S))
    BY Finite
  <2> QED
    BY <2>1, OneMore
<1>3. Cardinality(Rising(f, S)) \in Nat /\ Cardinality(Owing(f, T)) \in Nat
  BY Finite
<1> QED
  BY <1>1, <1>2, <1>3 DEF Half

-----------------------------------------------------------------------------
(***************************************************************************)
(* Types.                                                                  *)
(***************************************************************************)
LEMMA HeadTail ==
    ASSUME NEW S, NEW q \in Seq(S), q # <<>>
    PROVE  Head(q) \in S /\ Tail(q) \in Seq(S) /\ Len(Tail(q)) = Len(q) - 1
           /\ Len(q) \in Nat /\ Len(q) > 0
OBVIOUS

LEMMA AppendType ==
    ASSUME NEW S, NEW q \in Seq(S), NEW v \in S
    PROVE  Append(q, v) \in Seq(S) /\ Len(Append(q, v)) = Len(q) + 1
OBVIOUS

LEMMA LenType ==
    ASSUME NEW S, NEW q \in Seq(S)
    PROVE  Len(q) \in Nat /\ (Len(q) = 0 <=> q = <<>>)
OBVIOUS

\* A thread at "take" may take, if it is of the kind that does.
LEMMA TakeFacts ==
    ASSUME TypeOK, TestHolds, NEW t \in Thread, pc[t] = "take"
    PROVE  /\ t \in Consumer => queue # <<>>
           /\ t \in Producer => Len(queue) < MaxSize
<1>1. ~MustWait(t)
  BY DEF TestHolds
<1>2. Len(queue) \in Nat
  BY LenType DEF TypeOK
<1> QED
  BY <1>1, <1>2, ThreadAssumption, SizeAssumption DEF MustWait

\* A woken thread is another one.
LEMMA SignalFacts ==
    ASSUME TypeOK, NEW t \in Thread, NEW S \in SUBSET Thread, SignalTo(t, S)
    PROVE  /\ pc[t] = "signal" /\ pc' \in [Thread -> Location] /\ pc'[t] = "idle"
           /\ UNCHANGED <<val, queue, owner>>
           /\ \/ /\ Waiting(pc, S) = {}
                 /\ \A u \in Thread \ {t} : pc'[u] = pc[u]
              \/ \E w \in S : /\ pc[w] = "wait" /\ pc'[w] = "relock" /\ w # t
                              /\ \A u \in Thread \ {t, w} : pc'[u] = pc[u]
<1>1. CASE At(S, "wait") = {}
  BY <1>1 DEF SignalTo, TypeOK, Goto, Location, At, Waiting
<1>2. CASE At(S, "wait") # {}
  <2>1. PICK w \in At(S, "wait") :
            pc' = [pc EXCEPT ![t] = "idle", ![w] = "relock"]
    BY <1>2 DEF SignalTo
  <2>2. w \in S /\ pc[w] = "wait" /\ w # t
    BY <2>1 DEF At, SignalTo
  <2> QED
    BY <2>1, <2>2 DEF SignalTo, TypeOK, Location
<1> QED
  BY <1>1, <1>2

LEMMA TypeInductive ==
    ASSUME TypeOK, TestHolds, [Next]_vars
    PROVE  TypeOK'
<1> USE DEF TypeOK, Location, Goto
<1>1. ASSUME NEW p \in Producer, CallPush(p) PROVE TypeOK'
  BY <1>1 DEF CallPush, Thread
<1>2. ASSUME NEW c \in Consumer, CallPop(c) PROVE TypeOK'
  BY <1>2 DEF CallPop, Thread
<1>3. ASSUME NEW t \in Thread, Step(t) PROVE TypeOK'
  BY <1>3 DEF Step, Lock, Relock, Wait, Leave, Unlock
<1>4. ASSUME NEW p \in Producer, PushTake(p) PROVE TypeOK'
  <2>1. val[p] \in Value
    BY DEF Thread
  <2>2. queue' \in Seq(Value)
    BY <1>4, <2>1, AppendType DEF PushTake
  <2> QED
    BY <1>4, <2>2 DEF PushTake, Thread
<1>5. ASSUME NEW c \in Consumer, PopTake(c) PROVE TypeOK'
  <2>1. queue # <<>>
    BY <1>5, TakeFacts DEF PopTake, Thread
  <2>2. Head(queue) \in Value /\ queue' \in Seq(Value)
    BY <1>5, <2>1, HeadTail DEF PopTake
  <2> QED
    BY <1>5, <2>2 DEF PopTake, Thread
<1>6. ASSUME NEW t \in Thread, NEW S \in SUBSET Thread, SignalTo(t, S) PROVE TypeOK'
  BY <1>6, SignalFacts
<1>7. ASSUME NEW t \in Thread, SpuriousWakeup(t) PROVE TypeOK'
  BY <1>7 DEF SpuriousWakeup
<1>8. CASE UNCHANGED vars
  BY <1>8 DEF vars
<1> HIDE DEF TypeOK, Location, Goto
<1>9. Producer \subseteq Thread /\ Consumer \subseteq Thread
  BY DEF Thread
<1> QED
  BY <1>1, <1>2, <1>3, <1>4, <1>5, <1>6, <1>7, <1>8, <1>9
  DEF Next, Push, Pop, PushSignal, PopSignal

LEMMA ExclusionInductive ==
    ASSUME TypeOK, Exclusion, [Next]_vars
    PROVE  Exclusion'
<1> USE DEF TypeOK, Exclusion, Goto
<1>1. ASSUME NEW p \in Producer, CallPush(p) PROVE Exclusion'
  BY <1>1 DEF CallPush, Thread
<1>2. ASSUME NEW c \in Consumer, CallPop(c) PROVE Exclusion'
  BY <1>2 DEF CallPop, Thread
<1>3. ASSUME NEW t \in Thread, Step(t) PROVE Exclusion'
  <2>1. CASE Lock(t)
    BY <2>1, ThreadAssumption DEF Lock
  <2>2. CASE Relock(t)
    BY <2>2, ThreadAssumption DEF Relock
  <2>3. CASE Wait(t)
    BY <2>3, ThreadAssumption DEF Wait
  <2>4. CASE Leave(t)
    BY <2>4 DEF Leave
  <2>5. CASE Unlock(t)
    BY <2>5, ThreadAssumption DEF Unlock
  <2> QED
    BY <1>3, <2>1, <2>2, <2>3, <2>4, <2>5 DEF Step
<1>4. ASSUME NEW p \in Producer, PushTake(p) PROVE Exclusion'
  BY <1>4 DEF PushTake, Thread
<1>5. ASSUME NEW c \in Consumer, PopTake(c) PROVE Exclusion'
  BY <1>5 DEF PopTake, Thread
<1>6. ASSUME NEW t \in Thread, NEW S \in SUBSET Thread, SignalTo(t, S) PROVE Exclusion'
  BY <1>6, SignalFacts
<1>7. ASSUME NEW t \in Thread, SpuriousWakeup(t) PROVE Exclusion'
  BY <1>7 DEF SpuriousWakeup
<1>8. CASE UNCHANGED vars
  BY <1>8 DEF vars
<1> HIDE DEF TypeOK, Exclusion, Goto
<1>9. Producer \subseteq Thread /\ Consumer \subseteq Thread
  BY DEF Thread
<1> QED
  BY <1>1, <1>2, <1>3, <1>4, <1>5, <1>6, <1>7, <1>8, <1>9
  DEF Next, Push, Pop, PushSignal, PopSignal

\* Only the owner of the mutex changes the queue, and no other thread is behind
\* its test then.
LEMMA TestHoldsInductive ==
    ASSUME TypeOK, Exclusion, TestHolds, [Next]_vars
    PROVE  TestHolds'
<1>1. ASSUME UNCHANGED queue,
             \A u \in Thread : pc'[u] = "take" => pc[u] = "take" \/ ~MustWait(u)
      PROVE  TestHolds'
  <2>1. ASSUME NEW u \in Thread, pc'[u] = "take" PROVE ~MustWait(u)'
    <3>1. ~MustWait(u)
      BY <1>1, <2>1 DEF TestHolds
    <3> QED
      BY <1>1, <3>1 DEF MustWait
  <2> QED
    BY <1>1, <2>1 DEF TestHolds
<1>2. ASSUME NEW p \in Producer, CallPush(p) PROVE TestHolds'
  BY <1>1, <1>2 DEF CallPush, Goto, TypeOK, Thread
<1>3. ASSUME NEW c \in Consumer, CallPop(c) PROVE TestHolds'
  BY <1>1, <1>3 DEF CallPop, Goto, TypeOK, Thread
<1>4. ASSUME NEW t \in Thread, Step(t) PROVE TestHolds'
  BY <1>1, <1>4 DEF Step, Lock, Relock, Wait, Leave, Unlock, Goto, TypeOK
<1>5. ASSUME NEW p \in Producer, PushTake(p) PROVE TestHolds'
  <2>1. p \in Thread /\ val[p] \in Value
    BY DEF Thread, TypeOK
  <2>2. Len(queue) < MaxSize /\ Len(queue') = Len(queue) + 1 /\ Len(queue) \in Nat
    BY <1>5, <2>1, TakeFacts, AppendType, LenType DEF PushTake, TypeOK
  <2>3. Len(queue') <= MaxSize
    BY <2>2, SizeAssumption
  <2>4. ASSUME NEW u \in Thread, pc'[u] = "take" PROVE FALSE
    <3>1. u # p /\ pc[u] = "take"
      BY <1>5, <2>1, <2>4 DEF PushTake, Goto, TypeOK
    <3> QED
      BY <1>5, <2>1, <3>1 DEF PushTake, Exclusion
  <2> QED
    BY <2>3, <2>4 DEF TestHolds
<1>6. ASSUME NEW c \in Consumer, PopTake(c) PROVE TestHolds'
  <2>1. c \in Thread
    BY DEF Thread
  <2>2. queue # <<>>
    BY <1>6, <2>1, TakeFacts DEF PopTake
  <2>3. Len(queue) \in Nat /\ Len(queue') = Len(queue) - 1
    BY <1>6, <2>2, HeadTail DEF PopTake, TypeOK
  <2>4. Len(queue') <= MaxSize
    BY <2>3, SizeAssumption DEF TestHolds
  <2>5. ASSUME NEW u \in Thread, pc'[u] = "take" PROVE FALSE
    <3>1. u # c /\ pc[u] = "take"
      BY <1>6, <2>1, <2>5 DEF PopTake, Goto, TypeOK
    <3> QED
      BY <1>6, <2>1, <3>1 DEF PopTake, Exclusion
  <2> QED
    BY <2>4, <2>5 DEF TestHolds
<1>7. ASSUME NEW t \in Thread, NEW S \in SUBSET Thread, SignalTo(t, S) PROVE TestHolds'
  BY <1>1, <1>7, SignalFacts
<1>8. ASSUME NEW t \in Thread, SpuriousWakeup(t) PROVE TestHolds'
  BY <1>1, <1>8 DEF SpuriousWakeup, Goto, TypeOK
<1>9. CASE UNCHANGED vars
  BY <1>1, <1>9 DEF vars
<1>10. Producer \subseteq Thread /\ Consumer \subseteq Thread
  BY DEF Thread
<1> QED
  BY <1>2, <1>3, <1>4, <1>5, <1>6, <1>7, <1>8, <1>9, <1>10
  DEF Next, Push, Pop, PushSignal, PopSignal

-----------------------------------------------------------------------------
(***************************************************************************)
(* No wake-up is lost.                                                     *)
(***************************************************************************)
LEMMA Sides ==
    /\ IsFiniteSet(Producer) /\ IsFiniteSet(Consumer)
    /\ Producer \subseteq Thread /\ Consumer \subseteq Thread
    /\ Producer \cap Consumer = {}
BY ThreadAssumption DEF Thread

\* The steps after which nobody has begun to wait, given up or paid a signal,
\* and the queue is as before.
LEMMA KeptByBoth ==
    ASSUME TypeOK, NoLostWakeup, UNCHANGED queue,
           \A u \in Thread :
               /\ pc'[u] = "wait" => pc[u] = "wait"
               /\ pc[u] \in {"relock", "test", "take"}
                      => pc'[u] \in {"relock", "test", "take"}
               /\ pc[u] \in {"unlock", "signal"} => pc'[u] \in {"unlock", "signal"}
    PROVE  NoLostWakeup'
<1>1. Len(queue) \in Nat /\ MaxSize - Len(queue) \in Int
  BY LenType, SizeAssumption DEF TypeOK
<1>2. ASSUME NEW S \in SUBSET Thread
      PROVE  /\ Waiting(pc', S) \subseteq Waiting(pc, S)
             /\ Rising(pc, S) \subseteq Rising(pc', S)
             /\ Owing(pc, S) \subseteq Owing(pc', S)
  BY DEF Waiting, Rising, Owing
<1>3. Half(Consumer, Producer, pc', Len(queue))
  BY <1>1, <1>2, Sides, Halves, HalfKept
<1>4. Half(Producer, Consumer, pc', MaxSize - Len(queue))
  BY <1>1, <1>2, Sides, Halves, HalfKept
<1> QED
  BY <1>3, <1>4, HalvesNext

\* A thread that starts to wait finds nothing it could have.
LEMMA WaitKeeps ==
    ASSUME TypeOK, NoLostWakeup, NEW t \in Thread, Wait(t)
    PROVE  NoLostWakeup'
<1>1. /\ Len(queue) \in Nat /\ MaxSize - Len(queue) \in Int
      /\ queue = <<>> => Len(queue) = 0
  BY LenType, SizeAssumption DEF TypeOK
<1>2. /\ pc[t] = "test" /\ MustWait(t) /\ UNCHANGED queue
      /\ pc'[t] = "wait" /\ \A u \in Thread \ {t} : pc'[u] = pc[u]
  BY DEF Wait, Goto, TypeOK
<1>3. ASSUME NEW S \in SUBSET Thread
      PROVE  /\ Owing(pc, S) \subseteq Owing(pc', S)
             /\ t \notin S => /\ Waiting(pc', S) \subseteq Waiting(pc, S)
                              /\ Rising(pc, S) \subseteq Rising(pc', S)
  BY <1>2 DEF Waiting, Rising, Owing
<1>4. Half(Consumer, Producer, pc', Len(queue))
  <2>1. CASE t \in Consumer
    <3>1. Len(queue) <= 0
      BY <1>1, <1>2, <2>1 DEF MustWait
    <3> QED
      BY <1>1, <3>1, Sides, HalfNothing
  <2>2. CASE t \notin Consumer
    BY <1>1, <1>3, <2>2, Sides, Halves, HalfKept
  <2> QED
    BY <2>1, <2>2
<1>5. Half(Producer, Consumer, pc', MaxSize - Len(queue))
  <2>1. CASE t \in Producer
    <3>1. MaxSize - Len(queue) <= 0
      BY <1>1, <1>2, <2>1, Sides, SizeAssumption DEF MustWait
    <3> QED
      BY <1>1, <3>1, Sides, HalfNothing
  <2>2. CASE t \notin Producer
    BY <1>1, <1>3, <2>2, Sides, Halves, HalfKept
  <2> QED
    BY <2>1, <2>2
<1> QED
  BY <1>2, <1>4, <1>5, HalvesNext

\* What a thread that takes or adds does to the sets of its side.
LEMMA TakeMoves ==
    ASSUME TypeOK, NEW t \in Thread, pc[t] = "take", Goto(t, "unlock"),
           NEW S \in SUBSET Thread
    PROVE  /\ Waiting(pc', S) \subseteq Waiting(pc, S)
           /\ t \in S => /\ t \in Rising(pc, S) /\ Rising(pc', S) = Rising(pc, S) \ {t}
                         /\ t \notin Owing(pc, S)
                         /\ Owing(pc', S) = Owing(pc, S) \cup {t}
           /\ t \notin S => Rising(pc', S) = Rising(pc, S) /\ Owing(pc', S) = Owing(pc, S)
<1>1. pc'[t] = "unlock" /\ \A u \in Thread \ {t} : pc'[u] = pc[u]
  BY DEF Goto, TypeOK
<1> QED
  BY <1>1 DEF Waiting, Rising, Owing

LEMMA PopTakeKeeps ==
    ASSUME TypeOK, TestHolds, NoLostWakeup, NEW c \in Consumer, PopTake(c)
    PROVE  NoLostWakeup'
<1>1. c \in Thread /\ c \notin Producer /\ pc[c] = "take" /\ Goto(c, "unlock")
  BY Sides DEF PopTake
<1>2. Len(queue) \in Nat /\ Len(queue') = Len(queue) - 1
  BY <1>1, TakeFacts, HeadTail DEF PopTake, TypeOK
<1>8. /\ Waiting(pc', Producer) \subseteq Waiting(pc, Producer)
      /\ Waiting(pc', Consumer) \subseteq Waiting(pc, Consumer)
      /\ c \in Rising(pc, Consumer) /\ Rising(pc', Consumer) = Rising(pc, Consumer) \ {c}
      /\ c \notin Owing(pc, Consumer) /\ Owing(pc', Consumer) = Owing(pc, Consumer) \cup {c}
      /\ Rising(pc', Producer) = Rising(pc, Producer) /\ Owing(pc', Producer) = Owing(pc, Producer)
  BY <1>1, TakeMoves, Sides
<1>9. /\ Half(Consumer, Producer, pc, Len(queue))
      /\ Half(Producer, Consumer, pc, MaxSize - Len(queue))
  BY Halves
<1>3. Half(Consumer, Producer, pc', Len(queue) - 1)
  BY <1>2, <1>8, <1>9, Sides, HalfTaken
<1>4. MaxSize - Len(queue) \in Int
  BY <1>2, SizeAssumption
<1>5. Half(Producer, Consumer, pc', (MaxSize - Len(queue)) + 1)
  BY <1>4, <1>8, <1>9, Sides, HalfAdded
<1>6. MaxSize - Len(queue') = (MaxSize - Len(queue)) + 1
  BY <1>2, SizeAssumption
<1> QED
  BY <1>2, <1>3, <1>5, <1>6, HalvesNext

LEMMA PushTakeKeeps ==
    ASSUME TypeOK, NoLostWakeup, NEW p \in Producer, PushTake(p)
    PROVE  NoLostWakeup'
<1>1. p \in Thread /\ p \notin Consumer /\ pc[p] = "take" /\ Goto(p, "unlock")
  BY Sides DEF PushTake
<1>2. Len(queue) \in Nat /\ Len(queue') = Len(queue) + 1
  BY <1>1, LenType, AppendType DEF PushTake, TypeOK
<1>8. /\ Waiting(pc', Producer) \subseteq Waiting(pc, Producer)
      /\ Waiting(pc', Consumer) \subseteq Waiting(pc, Consumer)
      /\ p \in Rising(pc, Producer) /\ Rising(pc', Producer) = Rising(pc, Producer) \ {p}
      /\ p \notin Owing(pc, Producer) /\ Owing(pc', Producer) = Owing(pc, Producer) \cup {p}
      /\ Rising(pc', Consumer) = Rising(pc, Consumer) /\ Owing(pc', Consumer) = Owing(pc, Consumer)
  BY <1>1, TakeMoves, Sides
<1>9. /\ Half(Consumer, Producer, pc, Len(queue))
      /\ Half(Producer, Consumer, pc, MaxSize - Len(queue))
  BY Halves
<1>3. Half(Consumer, Producer, pc', Len(queue) + 1)
  BY <1>2, <1>8, <1>9, Sides, HalfAdded
<1>4. MaxSize - Len(queue) \in Int
  BY <1>2, SizeAssumption
<1>5. Half(Producer, Consumer, pc', (MaxSize - Len(queue)) - 1)
  BY <1>4, <1>8, <1>9, Sides, HalfTaken
<1>6. MaxSize - Len(queue') = (MaxSize - Len(queue)) - 1
  BY <1>2, SizeAssumption
<1> QED
  BY <1>2, <1>3, <1>5, <1>6, HalvesNext

\* A signal that finds nobody is not needed, one that wakes a thread is replaced
\* by that thread; the other side does not notice.
LEMMA SignalKeepsHalf ==
    ASSUME TypeOK, NEW S, NEW T, NEW n \in Int, NEW t \in T, SignalTo(t, S),
           S \subseteq Thread, T \subseteq Thread, S \cap T = {},
           IsFiniteSet(S), IsFiniteSet(T), Half(S, T, pc, n)
    PROVE  Half(S, T, pc', n)
<1>0. t \in Thread /\ t \notin S
  OBVIOUS
<1>1. pc[t] = "signal" /\ pc'[t] = "idle"
  BY <1>0, SignalFacts
<1>2. CASE Waiting(pc, S) = {} /\ \A u \in Thread \ {t} : pc'[u] = pc[u]
  <2>1. Waiting(pc', S) = {}
    BY <1>0, <1>2 DEF Waiting
  <2> QED
    BY <2>1 DEF Half
<1>3. ASSUME NEW w \in S, pc[w] = "wait", pc'[w] = "relock", w # t,
             \A u \in Thread \ {t, w} : pc'[u] = pc[u]
      PROVE  Half(S, T, pc', n)
  <2>1. Waiting(pc, S) # {}
    BY <1>3 DEF Waiting
  <2>2. w \notin Rising(pc, S) /\ Rising(pc', S) = Rising(pc, S) \cup {w}
    BY <1>0, <1>3 DEF Rising
  <2>3. t \in Owing(pc, T) /\ Owing(pc', T) = Owing(pc, T) \ {t}
    BY <1>1, <1>3 DEF Owing
  <2> QED
    BY <2>1, <2>2, <2>3, HalfSignalled
<1> QED
  BY <1>0, <1>2, <1>3, SignalFacts

LEMMA SignalKeepsOther ==
    ASSUME TypeOK, NEW S, NEW T, NEW n \in Int, NEW t \in T, SignalTo(t, S),
           S \subseteq Thread, T \subseteq Thread, S \cap T = {},
           IsFiniteSet(S), IsFiniteSet(T), Half(T, S, pc, n)
    PROVE  Half(T, S, pc', n)
<1>0. t \in Thread /\ t \notin S
  OBVIOUS
<1>1. pc[t] = "signal" /\ pc'[t] = "idle"
  BY <1>0, SignalFacts
<1>2. \A u \in T \ {t} : pc'[u] = pc[u]
  BY <1>0, SignalFacts
<1>3. \A u \in S : pc'[u] = pc[u] \/ (pc[u] = "wait" /\ pc'[u] = "relock")
  <2>1. \A u \in S : u \in Thread \ {t}
    BY <1>0
  <2>2. CASE \A u \in Thread \ {t} : pc'[u] = pc[u]
    BY <2>1, <2>2
  <2>3. ASSUME NEW w \in S, pc[w] = "wait", pc'[w] = "relock",
               \A u \in Thread \ {t, w} : pc'[u] = pc[u]
        PROVE  \A u \in S : pc'[u] = pc[u] \/ (pc[u] = "wait" /\ pc'[u] = "relock")
    BY <2>1, <2>3
  <2> QED
    BY <1>0, <2>2, <2>3, SignalFacts
<1>4. /\ Waiting(pc', T) \subseteq Waiting(pc, T)
      /\ Rising(pc, T) \subseteq Rising(pc', T)
  BY <1>1, <1>2 DEF Waiting, Rising
<1>5. Owing(pc, S) \subseteq Owing(pc', S)
  BY <1>3 DEF Owing
<1> QED
  BY <1>4, <1>5, HalfKept

LEMMA WakeupInductive ==
    ASSUME TypeOK, TestHolds, NoLostWakeup, [Next]_vars
    PROVE  NoLostWakeup'
<1>0. Len(queue) \in Int /\ MaxSize - Len(queue) \in Int
  BY LenType, SizeAssumption DEF TypeOK
<1>1. ASSUME NEW p \in Producer, CallPush(p) PROVE NoLostWakeup'
  BY <1>1, Sides, KeptByBoth DEF CallPush, Goto, TypeOK
<1>2. ASSUME NEW c \in Consumer, CallPop(c) PROVE NoLostWakeup'
  BY <1>2, Sides, KeptByBoth DEF CallPop, Goto, TypeOK
<1>3. ASSUME NEW t \in Thread, Lock(t) \/ Relock(t) \/ Leave(t) \/ Unlock(t)
                                  \/ SpuriousWakeup(t)
      PROVE  NoLostWakeup'
  BY <1>3, KeptByBoth DEF Lock, Relock, Leave, Unlock, SpuriousWakeup, Goto, TypeOK
<1>4. ASSUME NEW p \in Producer, PushSignal(p) PROVE NoLostWakeup'
  <2>1. SignalTo(p, Consumer) /\ p \in Thread /\ UNCHANGED queue
    BY <1>4, Sides DEF PushSignal, SignalTo
  <2>2. Half(Consumer, Producer, pc', Len(queue))
    BY <1>0, <2>1, Sides, Halves, SignalKeepsHalf
  <2>3. Half(Producer, Consumer, pc', MaxSize - Len(queue))
    BY <1>0, <2>1, Sides, Halves, SignalKeepsOther
  <2> QED
    BY <2>1, <2>2, <2>3, HalvesNext
<1>5. ASSUME NEW c \in Consumer, PopSignal(c) PROVE NoLostWakeup'
  <2>1. SignalTo(c, Producer) /\ c \in Thread /\ UNCHANGED queue
    BY <1>5, Sides DEF PopSignal, SignalTo
  <2>2. Half(Producer, Consumer, pc', MaxSize - Len(queue))
    BY <1>0, <2>1, Sides, Halves, SignalKeepsHalf
  <2>3. Half(Consumer, Producer, pc', Len(queue))
    BY <1>0, <2>1, Sides, Halves, SignalKeepsOther
  <2> QED
    BY <2>1, <2>2, <2>3, HalvesNext
<1>6. CASE UNCHANGED vars
  BY <1>6, KeptByBoth DEF vars
<1> QED
  BY <1>1, <1>2, <1>3, <1>4, <1>5, <1>6, Sides, WaitKeeps, PopTakeKeeps, PushTakeKeeps
  DEF Next, Push, Pop, Step

-----------------------------------------------------------------------------
(***************************************************************************)
(* The invariant.                                                          *)
(***************************************************************************)
LEMMA InitIInv ==
    ASSUME Init
    PROVE  IInv
<1>1. TypeOK /\ Exclusion
  BY ThreadAssumption DEF Init, TypeOK, Exclusion, Location
<1>2. TestHolds
  BY SizeAssumption DEF Init, TestHolds
<1>3. NoLostWakeup
  <2>1. At(Consumer, "wait") = {} /\ At(Producer, "wait") = {}
    BY Sides DEF Init, At
  <2> QED
    BY <2>1 DEF NoLostWakeup
<1> QED
  BY <1>1, <1>2, <1>3 DEF IInv

LEMMA StepIInv ==
    ASSUME IInv, [Next]_vars
    PROVE  IInv'
BY TypeInductive, ExclusionInductive, TestHoldsInductive, WakeupInductive DEF IInv

\* The types, the mutual exclusion, the tested conditions and the wake-ups of
\* Push and Pop, for any number of threads and any size of the queue.
THEOREM Invariance == Spec => []IInv
BY InitIInv, StepIInv, PTL DEF Spec

\* front(), pop() and push() of the std::queue are only reached under the
\* condition of the while loop before them.
THEOREM SpecTestHolds == Spec => []TestHolds
<1>1. IInv => TestHolds
  BY DEF IInv
<1> QED
  BY <1>1, Invariance, PTL

\* The signals of Push and Pop, sent after the mutex is free, leave no thread
\* asleep for whom there is something and whom nobody is going to wake.
THEOREM SpecNoLostWakeup == Spec => []NoLostWakeup
<1>1. IInv => NoLostWakeup
  BY DEF IInv
<1> QED
  BY <1>1, Invariance, PTL

-----------------------------------------------------------------------------
(***************************************************************************)
(* The refinement: PushTake and PopTake are the moments at which the calls *)
(* take effect.                                                            *)
(***************************************************************************)
Phase(l) ==
    IF l = "idle" THEN "none" ELSE IF l \in {"unlock", "signal"} THEN "done" ELSE "open"
Calls == [t \in Thread |-> Phase(pc[t])]

\* The calls as the abstract buffer sees them, when the thread t moves.
LEMMA CallsMove ==
    ASSUME TypeOK, NEW t \in Thread, NEW l \in Location, Goto(t, l)
    PROVE  /\ Calls' = [Calls EXCEPT ![t] = Phase(l)]
           /\ Phase(l) = Phase(pc[t]) => Calls' = Calls
BY DEF Calls, Goto, TypeOK

LEMMA CallsSignal ==
    ASSUME TypeOK, NEW t \in Thread, NEW S \in SUBSET Thread, SignalTo(t, S)
    PROVE  Calls[t] = "done" /\ Calls' = [Calls EXCEPT ![t] = "none"]
<1>1. pc[t] = "signal" /\ pc'[t] = "idle"
  BY SignalFacts
<1>2. \A u \in Thread \ {t} : pc'[u] = pc[u] \/ (pc[u] = "wait" /\ pc'[u] = "relock")
  <2>1. CASE \A u \in Thread \ {t} : pc'[u] = pc[u]
    BY <2>1
  <2>2. ASSUME NEW w \in S, pc[w] = "wait", pc'[w] = "relock",
               \A u \in Thread \ {t, w} : pc'[u] = pc[u]
        PROVE  \A u \in Thread \ {t} :
                   pc'[u] = pc[u] \/ (pc[u] = "wait" /\ pc'[u] = "relock")
    BY <2>2
  <2> QED
    BY <2>1, <2>2, SignalFacts
<1>3. \A u \in Thread \ {t} : Phase(pc'[u]) = Phase(pc[u])
  BY <1>2 DEF Phase
<1> QED
  BY <1>1, <1>3 DEF Calls, Phase

LEMMA BufferStep ==
    ASSUME TypeOK, TestHolds, [Next]_vars
    PROVE  [B!Next]_(B!vars)
<1>0. B!vars = <<queue, Calls, val>> /\ B!Thread = Thread
  BY DEF B!vars, B!Thread, Thread, Calls, Phase
<1>1. ASSUME NEW p \in Producer, CallPush(p) PROVE B!CallPush(p)
  <2>1. p \in Thread /\ pc[p] = "idle" /\ Goto(p, "lock") /\ "lock" \in Location
    BY <1>1 DEF CallPush, Thread, Location
  <2>2. Calls[p] = "none" /\ Calls' = [Calls EXCEPT ![p] = "open"]
    BY <2>1, CallsMove DEF Calls, Phase
  <2>3. \E v \in Value : val' = [val EXCEPT ![p] = v] /\ UNCHANGED queue
    BY <1>1 DEF CallPush
  <2> QED
    BY <2>2, <2>3 DEF B!CallPush, Calls, Phase
<1>2. ASSUME NEW c \in Consumer, CallPop(c) PROVE B!CallPop(c)
  <2>1. c \in Thread /\ pc[c] = "idle" /\ Goto(c, "lock") /\ "lock" \in Location
    BY <1>2 DEF CallPop, Thread, Location
  <2>2. Calls[c] = "none" /\ Calls' = [Calls EXCEPT ![c] = "open"]
    BY <2>1, CallsMove DEF Calls, Phase
  <2> QED
    BY <1>2, <2>2 DEF B!CallPop, Calls, Phase, CallPop
<1>3. ASSUME NEW p \in Producer, PushTake(p) PROVE B!Push(p)
  <2>1. p \in Thread /\ pc[p] = "take" /\ Goto(p, "unlock") /\ "unlock" \in Location
    BY <1>3 DEF PushTake, Thread, Location
  <2>2. Calls[p] = "open" /\ Calls' = [Calls EXCEPT ![p] = "done"]
    BY <2>1, CallsMove DEF Calls, Phase
  <2>3. Len(queue) < MaxSize
    BY <2>1, TakeFacts
  <2> QED
    BY <1>3, <2>2, <2>3 DEF B!Push, Calls, Phase, PushTake
<1>4. ASSUME NEW c \in Consumer, PopTake(c) PROVE B!Pop(c)
  <2>1. c \in Thread /\ pc[c] = "take" /\ Goto(c, "unlock") /\ "unlock" \in Location
    BY <1>4 DEF PopTake, Thread, Location
  <2>2. Calls[c] = "open" /\ Calls' = [Calls EXCEPT ![c] = "done"]
    BY <2>1, CallsMove DEF Calls, Phase
  <2>3. queue # <<>>
    BY <2>1, TakeFacts
  <2> QED
    BY <1>4, <2>2, <2>3 DEF B!Pop, Calls, Phase, PopTake
<1>5. ASSUME NEW t \in Thread, NEW S \in SUBSET Thread, SignalTo(t, S)
      PROVE  B!Return(t)
  <2>1. Calls[t] = "done" /\ Calls' = [Calls EXCEPT ![t] = "none"]
    BY <1>5, CallsSignal
  <2> QED
    BY <1>5, <2>1 DEF B!Return, Calls, Phase, SignalTo
\* The other steps are inside a call, before or after the moment it takes effect.
<1>6. ASSUME NEW t \in Thread, Step(t) \/ SpuriousWakeup(t) PROVE UNCHANGED B!vars
  <2>1. PICK l \in Location : Goto(t, l) /\ Phase(l) = Phase(pc[t])
    BY <1>6 DEF Step, SpuriousWakeup, Lock, Relock, Wait, Leave, Unlock, Location, Phase
  <2>2. Calls' = Calls
    BY <2>1, CallsMove
  <2>3. UNCHANGED <<queue, val>>
    BY <1>6 DEF Step, SpuriousWakeup, Lock, Relock, Wait, Leave, Unlock
  <2> QED
    BY <1>0, <2>2, <2>3 DEF B!vars, Calls, Phase
<1>7. CASE UNCHANGED vars
  BY <1>7 DEF vars, B!vars
<1> QED
  BY <1>0, <1>1, <1>2, <1>3, <1>4, <1>5, <1>6, <1>7, Sides
  DEF Next, Push, Pop, PushSignal, PopSignal, B!Next

\* Push and Pop behave like the operations of a bounded first-in-first-out
\* buffer, each at one moment between its call and its return.
THEOREM SpecImplementsBuffer == Spec => ImplementsBuffer
<1>1. Init => B!Init
  BY DEF Init, B!Init, B!Thread, Thread
<1>2. IInv /\ [Next]_vars => [B!Next]_(B!vars)
  BY BufferStep DEF IInv
<1> QED
  BY <1>1, <1>2, Invariance, PTL DEF Spec, ImplementsBuffer, B!Spec
=============================================================================
