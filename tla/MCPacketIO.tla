----------------------------- MODULE MCPacketIO -----------------------------
(***************************************************************************)
(* Constant values for TLC: a stream of NumPackets short frames.  The last *)
(* one of MCPayload announces a payload that is too long.                  *)
(***************************************************************************)
EXTENDS PacketIO

\* Where each frame starts when their payloads are p.
StartOf(p) ==
    LET s[k \in 1..Len(p)+1] == IF k = 1 THEN 0 ELSE s[k-1] + HEADER_SIZE + p[k-1]
    IN  s

MCPayload == <<3, 1, 2, 4>>
MCStart == StartOf(MCPayload)

\* A frame with no payload in front of another one.
EmptyPayload == <<3, 2, 0, 1>>
EmptyStart == StartOf(EmptyPayload)
=============================================================================
