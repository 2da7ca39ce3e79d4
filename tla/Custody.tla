------------------------------- MODULE Custody -------------------------------
(***************************************************************************)
(* What the threads of a proxy that hands connections over promise about   *)
(* them: a connection is passed from hand to hand, it is in two hands at   *)
(* no moment, and once it is gone nobody has it.                           *)
(***************************************************************************)
CONSTANTS Conn, Proc

VARIABLE hands  \* the set of hands each connection is in

Main    == <<"main">>
Way(i)  == <<"way", i>>   \* on its way to a processor
With(i) == <<"with", i>>
Gone    == <<"gone">>

Init == hands = [c \in Conn |-> {}]

Pass(c, from, to) == hands[c] = from /\ hands' = [hands EXCEPT ![c] = to]

Begin(c)   == Pass(c, {}, {Main})
Send(c, i) == Pass(c, {}, {Way(i)}) \/ Pass(c, {Main}, {Way(i)})
Take(c, i) == Pass(c, {Way(i)}, {With(i)})
End(c)     == hands[c] # {Gone} /\ hands' = [hands EXCEPT ![c] = {Gone}]

Next ==
    \E c \in Conn : Begin(c) \/ End(c) \/ \E i \in Proc : Send(c, i) \/ Take(c, i)

Spec == Init /\ [][Next]_hands
=============================================================================
