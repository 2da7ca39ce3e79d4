------------------------------ MODULE MCProxyV1 ------------------------------
(* ProxyV1 on small instances: model values and what the remote ends do.   *)
EXTENDS ProxyV1

CONSTANTS c1, c2, w1, w2

\* One session whose ends may do everything; two sessions, one of which waits
\* for the processors that the clients of the other keep.
OneAlone == (S(c1) :> Act) @@ (C(c1) :> Act) @@ (S(c2) :> {}) @@ (C(c2) :> {})
TwoAtOnce ==
    (S(c1) :> {"head"}) @@ (C(c1) :> {"head"})
    @@ (S(c2) :> {"head", "fin"}) @@ (C(c2) :> {})
SmallPlans == {OneAlone, TwoAtOnce}
=============================================================================
