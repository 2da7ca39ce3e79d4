------------------------------ MODULE MCRelay ------------------------------
(* Relay on small instances: scripts of the remote ends and model values.  *)
EXTENDS RelayLink

CONSTANTS h1, h2, h3, h4, p1, p2

\* One connection: the client sends two frames, the first of two chunks and
\* the second of one; the broker answers with a frame and then sends one that
\* is refused.
OneScript ==
    (<<p1, "S">> :> <<"part", "end", "end">>) @@ (<<p1, "C">> :> <<"end", "bad">>)

\* Two connections with one frame in one direction each.
TwoScript ==
    (<<p1, "S">> :> <<"end">>) @@ (<<p1, "C">> :> <<>>)
    @@ (<<p2, "S">> :> <<>>) @@ (<<p2, "C">> :> <<"end">>)

Addresses == Permutations(Handle)
=============================================================================
