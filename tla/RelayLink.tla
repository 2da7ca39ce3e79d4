----------------------------- MODULE RelayLink -----------------------------
(***************************************************************************)
(* Relay implements Link: what is under way in the direction of socket s   *)
(* is spread over the send buffer of s, the packet and the queue of its    *)
(* handle, the packet its partner is reading and the receive buffer of the *)
(* partner's socket, in this order.                                        *)
(***************************************************************************)
EXTENDS Relay, SequencesExt

HandleOf(s) == CHOOSE h \in Handle : fd[h] = s

Abs(w) == [i \in DOMAIN w |-> <<Other(w[i][1]), w[i][2]>>]

UnderWay(s) ==
    IF Open(s)
    THEN LET h == HandleOf(s) IN
         snd[s] \o outSave[h] \o FlattenSeq(outQ[h])
            \o inSave[partner[h]] \o rcv[Other(s)]
    ELSE snd[s]

Severed(s) == Reset(s) \/ (s[1] \in started /\ ~Open(s))

L == INSTANCE Link WITH
        Dir   <- Sock,
        Limit <- [s \in Sock |-> Len(Script[Other(s)])],
        sent  <- [s \in Sock |-> sentN[Other(s)]],
        way   <- [s \in Sock |-> IF Reset(s) THEN <<>> ELSE Abs(UnderWay(s))],
        got   <- [s \in Sock |-> Abs(got[s])],
        cut   <- [s \in Sock |-> Severed(s)]

\* Every behaviour of the thread, the main thread's hand-overs and the remote
\* ends is one of reliable ordered links that may be cut: a frame on its way
\* through the buffers and queues of two handles is never lost, doubled,
\* overtaken or moved to another connection, and nothing enters a link that
\* ClearFHPair or a reset has cut.
ImplementsLink == L!Spec
=============================================================================
