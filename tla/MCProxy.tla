------------------------------ MODULE MCProxy ------------------------------
(* Proxy on a small instance: model values and addresses.  Modulo three    *)
(* they select processors 1, 2 and 1.                                      *)
EXTENDS Proxy

CONSTANTS c1, c2

Addresses == {16, 32, 64}
=============================================================================
