-------------------------------- MODULE Link --------------------------------
(***************************************************************************)
(* What the proxy promises the two ends of a connection, whatever it does  *)
(* inside: each direction is a reliable first-in first-out link, until it  *)
(* is cut.  A cut drops some of the newest chunks that are under way and   *)
(* lets no other enter; what is left may still arrive, in order.  Chunk j  *)
(* sent in direction d is <<d, j>>.                                        *)
(***************************************************************************)
EXTENDS Integers, Sequences

CONSTANTS Dir,   \* directions, one for each socket whose remote end receives
          Limit  \* Limit[d]: chunks that may be sent in direction d, a number

VARIABLES sent, \* sent[d]: number of chunks sent in direction d
          way,  \* way[d]: the chunks under way, oldest first
          got,  \* got[d]: the chunks received
          cut   \* cut[d]: the direction takes no more chunks

Amount == UNION {0..Limit[d] : d \in Dir}

vars == <<sent, way, got, cut>>

Init ==
    /\ sent = [d \in Dir |-> 0]
    /\ way = [d \in Dir |-> <<>>]
    /\ got = [d \in Dir |-> <<>>]
    /\ cut = [d \in Dir |-> FALSE]

\* The next chunk enters the link, or is lost because the link is cut.
Send(d) ==
    /\ sent[d] < Limit[d]
    /\ sent' = [sent EXCEPT ![d] = @ + 1]
    /\ way' = [way EXCEPT ![d] = IF cut[d] THEN @
                                ELSE Append(@, <<d, sent[d] + 1>>)]
    /\ UNCHANGED <<got, cut>>

Deliver(d) ==
    /\ way[d] # <<>>
    /\ got' = [got EXCEPT ![d] = Append(@, Head(way[d]))]
    /\ way' = [way EXCEPT ![d] = Tail(@)]
    /\ UNCHANGED <<sent, cut>>

\* The directions of D are cut; each keeps a prefix of what was under way.
Cut(D) ==
    /\ \E keep \in [D -> Amount] :
          /\ \A d \in D : keep[d] <= Len(way[d])
          /\ way' = [d \in Dir |-> IF d \in D THEN SubSeq(way[d], 1, keep[d])
                                   ELSE way[d]]
    /\ cut' = [d \in Dir |-> cut[d] \/ d \in D]
    /\ UNCHANGED <<sent, got>>

Next ==
    \/ \E d \in Dir : Send(d) \/ Deliver(d)
    \/ \E D \in (SUBSET Dir) \ {{}} : Cut(D)

Spec == Init /\ [][Next]_vars
=============================================================================
