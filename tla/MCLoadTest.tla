----------------------------- MODULE MCLoadTest -----------------------------
(* LoadTest with two workers, at most one file and a channel of one record; *)
(* two reads to a write, as many reads as writes by the fallback, an      *)
(* empty and a negative deck, and an empty list of files.                   *)
EXTENDS LoadTest

CONSTANTS w1, w2

Config(t, r, w, n) == [Type |-> t, ReadFactor |-> r, WriteFactor |-> w, NumFiles |-> n]

MCConfigs ==
    {Config("READ", 5, 5, n) : n \in {0, 1}} \cup {Config("WRITE", 5, 5, 1)}
    \cup {Config("READ_WRITE", f[1], f[2], 1) :
              f \in {<<2, 1>>, <<3, -1>>, <<0, 0>>, <<1, -2>>}}
=============================================================================
