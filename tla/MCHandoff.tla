----------------------------- MODULE MCHandoff -----------------------------
(* Handoff on small instances: model values and addresses.                 *)
EXTENDS Handoff, TLC

CONSTANTS c1, c2, c3

Addresses == {16, 32, 48}
Clients   == Permutations(Conn)
=============================================================================
