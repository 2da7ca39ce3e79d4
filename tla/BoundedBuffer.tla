--------------------------- MODULE BoundedBuffer ---------------------------
(***************************************************************************)
(* What a blocking queue promises to the threads that share it: every call *)
(* of Push and Pop takes effect at one moment between the call and its     *)
(* return, on one first-in-first-out buffer of at most MaxSize values; a   *)
(* Push waits for room and a Pop for a value.                              *)
(***************************************************************************)
EXTENDS Naturals, Sequences

CONSTANTS Producer, Consumer, Value, MaxSize

VARIABLES
    items,  \* the values in the buffer
    call,   \* of each thread: "none", "open" (called), "done" (in effect)
    val     \* of each thread: the argument of its Push, the result of its Pop

vars == <<items, call, val>>

Thread == Producer \cup Consumer

Init ==
    /\ items = <<>>
    /\ call = [t \in Thread |-> "none"]
    /\ val \in [Thread -> Value]

CallPush(p) == \E v \in Value :
    /\ call[p] = "none"
    /\ call' = [call EXCEPT ![p] = "open"]
    /\ val' = [val EXCEPT ![p] = v]
    /\ UNCHANGED items

CallPop(c) ==
    /\ call[c] = "none"
    /\ call' = [call EXCEPT ![c] = "open"]
    /\ UNCHANGED <<items, val>>

Push(p) ==
    /\ call[p] = "open" /\ Len(items) < MaxSize
    /\ items' = Append(items, val[p])
    /\ call' = [call EXCEPT ![p] = "done"]
    /\ UNCHANGED val

Pop(c) ==
    /\ call[c] = "open" /\ items # <<>>
    /\ val' = [val EXCEPT ![c] = Head(items)]
    /\ items' = Tail(items)
    /\ call' = [call EXCEPT ![c] = "done"]

Return(t) ==
    /\ call[t] = "done"
    /\ call' = [call EXCEPT ![t] = "none"]
    /\ UNCHANGED <<items, val>>

Next ==
    \/ \E p \in Producer : CallPush(p) \/ Push(p)
    \/ \E c \in Consumer : CallPop(c) \/ Pop(c)
    \/ \E t \in Thread : Return(t)

Spec == Init /\ [][Next]_vars
=============================================================================
