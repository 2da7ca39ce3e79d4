-------------------------- MODULE RelayDataProofs --------------------------
(***************************************************************************)
(* Proofs about the data of Relay, for any number of connections,          *)
(* addresses, frames and events per epoll_wait: what the buffers of the    *)
(* handles and of the sockets hold (StreamInv, from which StreamIntegrity),*)
(* that each direction of a connection is a Link, step by step, and that   *)
(* nothing is left lying when the thread has nothing to do (NothingLeft).  *)
(***************************************************************************)
EXTENDS RelayProofs, RelayLink, WellFoundedInduction

USE DEF main

-----------------------------------------------------------------------------
(***************************************************************************)
(* Numbers and sequences.                                                  *)
(***************************************************************************)
LEMMA AddNat == \A a, b \in Nat : a + b \in Nat
OBVIOUS

LEMMA AddLeq == \A a, b, m, n \in Nat : a + b <= m /\ m <= n => a + b <= n
OBVIOUS

LEMMA RunEmpty == ASSUME NEW t, NEW n PROVE Run(<<>>, t, n)
BY DEF Run

LEMMA RunTail ==
    ASSUME NEW w \in Seq(Chunk), w # <<>>, NEW t, NEW n \in Int, Run(w, t, n)
    PROVE  /\ Head(w) = <<t, n + 1>> /\ Run(Tail(w), t, n + 1)
           /\ Len(Tail(w)) = Len(w) - 1
BY DEF Run

LEMMA RunAppend ==
    ASSUME NEW w \in Seq(Chunk), NEW t, NEW n \in Int, Run(w, t, n),
           NEW x, x = <<t, n + Len(w) + 1>>
    PROVE  Run(Append(w, x), t, n)
<1>1. Len(w) \in Nat /\ Len(Append(w, x)) = Len(w) + 1
      /\ \A i \in 1..Len(w) : Append(w, x)[i] = w[i]
      /\ Append(w, x)[Len(w) + 1] = x
  OBVIOUS
<1> QED
  BY <1>1 DEF Run

LEMMA ChainEmpty == ASSUME NEW t, NEW n \in Nat PROVE Chain(<<>>, t, n, n)
<1> DEFINE at == [i \in 1..1 |-> n]
<1>1. Len(<<>>) = 0
  BY EmptyType
<1>2. at \in [1..1 -> 0..n] /\ at[1] = n
  OBVIOUS
<1>3. at \in [1..(Len(<<>>) + 1) -> 0..n] /\ at[Len(<<>>) + 1] = n
  BY <1>1, <1>2
<1>4. 1..Len(<<>>) = {}
  BY <1>1
<1> HIDE DEF at
<1> QED
  BY <1>2, <1>3, <1>4 DEF Chain

LEMMA ChainTail ==
    ASSUME NEW q \in Seq(Seq(Chunk) \ {<<>>}), q # <<>>, NEW t, NEW lo \in Nat,
           NEW hi \in Int, Chain(q, t, lo, hi)
    PROVE  /\ Run(Head(q), t, lo) /\ lo + Len(Head(q)) <= hi
           /\ Chain(Tail(q), t, lo + Len(Head(q)), hi)
<1> DEFINE n == Len(q)
           F == Seq(Chunk) \ {<<>>}
           m == lo + Len(Head(q))
<1>1. PICK at \in [1..(n + 1) -> 0..hi] :
        /\ at[1] = lo /\ at[n + 1] = hi
        /\ \A k \in 1..n : Run(q[k], t, at[k]) /\ at[k + 1] = at[k] + Len(q[k])
  BY DEF Chain
<1>2. /\ n \in Nat /\ n >= 1 /\ Head(q) = q[1] /\ Tail(q) \in Seq(F)
      /\ Len(Tail(q)) = n - 1 /\ \A k \in 1..(n - 1) : Tail(q)[k] = q[k + 1]
  OBVIOUS
<1>3. Run(Head(q), t, lo) /\ at[2] = m
  BY <1>1, <1>2
<1> HIDE DEF n, m
<1>5. m \in Int /\ m <= hi
  BY <1>1, <1>2, <1>3
<1> DEFINE up == [k \in 1..n |-> at[k + 1]]
<1>6. up \in [1..n -> 0..hi]
  BY <1>1, <1>2
<1>7. up[1] = m /\ up[n] = hi
  BY <1>1, <1>2, <1>3
<1>8. ASSUME NEW k \in 1..(n - 1)
      PROVE  Run(Tail(q)[k], t, up[k]) /\ up[k + 1] = up[k] + Len(Tail(q)[k])
  <2>1. k \in 1..n /\ k + 1 \in 1..n /\ Tail(q)[k] = q[k + 1]
    BY <1>2
  <2>2. up[k] = at[k + 1] /\ up[k + 1] = at[(k + 1) + 1]
    BY <2>1
  <2> QED
    BY <1>1, <2>1, <2>2
<1>9. Len(Tail(q)) + 1 = n
  BY <1>2
<1> HIDE DEF up
<1>10. Chain(Tail(q), t, m, hi)
  <2>1. up \in [1..(Len(Tail(q)) + 1) -> 0..hi] /\ up[Len(Tail(q)) + 1] = hi
    BY <1>6, <1>7, <1>9
  <2>2. \A k \in 1..Len(Tail(q)) :
          Run(Tail(q)[k], t, up[k]) /\ up[k + 1] = up[k] + Len(Tail(q)[k])
    BY <1>2, <1>8
  <2> QED
    BY <1>7, <2>1, <2>2 DEF Chain
<1> QED
  BY <1>3, <1>5, <1>10 DEF m

LEMMA ChainAppend ==
    ASSUME NEW q \in Seq(Seq(Chunk) \ {<<>>}), NEW f \in Seq(Chunk), NEW t,
           NEW lo \in Nat, NEW hi \in Int, Chain(q, t, lo, hi), Run(f, t, hi)
    PROVE  Chain(Append(q, f), t, lo, hi + Len(f))
<1> DEFINE n == Len(q)
           top == hi + Len(f)
<1>1. PICK at \in [1..(n + 1) -> 0..hi] :
        /\ at[1] = lo /\ at[n + 1] = hi
        /\ \A k \in 1..n : Run(q[k], t, at[k]) /\ at[k + 1] = at[k] + Len(q[k])
  BY DEF Chain
<1>2. n \in Nat /\ Len(Append(q, f)) = n + 1
      /\ (\A k \in 1..n : Append(q, f)[k] = q[k]) /\ Append(q, f)[n + 1] = f
  OBVIOUS
<1> HIDE DEF n
<1> DEFINE up == [k \in 1..(n + 2) |-> IF k <= n + 1 THEN at[k] ELSE top]
<1>3. up \in [1..(n + 2) -> 0..top]
  <2>1. hi \in 0..hi /\ Len(f) \in Nat
    <3>1. n + 1 \in 1..(n + 1)
      BY <1>2
    <3>2. at[n + 1] \in 0..hi
      BY <1>1, <3>1
    <3> QED
      BY <1>1, <3>2
  <2>2. ASSUME NEW k \in 1..(n + 2) PROVE up[k] \in 0..top
    <3>1. CASE k <= n + 1
      BY <1>1, <1>2, <2>1, <3>1
    <3>2. CASE k > n + 1
      BY <1>2, <2>1, <3>2
    <3> QED
      BY <1>2, <3>1, <3>2
  <2> QED
    BY <2>2
<1>4. up[1] = lo /\ up[n + 2] = top /\ up[n + 1] = hi
  BY <1>1, <1>2
<1>5. ASSUME NEW k \in 1..(n + 1)
      PROVE  Run(Append(q, f)[k], t, up[k])
             /\ up[k + 1] = up[k] + Len(Append(q, f)[k])
  <2>0. k \in 1..n \/ k = n + 1
    BY <1>2
  <2>1. CASE k \in 1..n
    <3>1. up[k] = at[k] /\ up[k + 1] = at[k + 1] /\ Append(q, f)[k] = q[k]
      BY <1>2, <2>1
    <3> QED
      BY <1>1, <2>1, <3>1
  <2>2. CASE k = n + 1
    <3>1. up[k] = hi /\ up[k + 1] = top /\ Append(q, f)[k] = f
      BY <1>2, <1>4, <2>2
    <3> QED
      BY <3>1
  <2> QED
    BY <2>0, <2>1, <2>2
<1>6. Len(Append(q, f)) + 1 = n + 2
  BY <1>2
<1> HIDE DEF up, top
<1>7. Chain(Append(q, f), t, lo, top)
  <2>1. \A k \in 1..Len(Append(q, f)) :
           Run(Append(q, f)[k], t, up[k]) /\ up[k + 1] = up[k] + Len(Append(q, f)[k])
    BY <1>2, <1>5
  <2>2. up \in [1..(Len(Append(q, f)) + 1) -> 0..top]
        /\ up[1] = lo /\ up[Len(Append(q, f)) + 1] = top
    BY <1>3, <1>4, <1>6
  <2> QED
    BY <2>1, <2>2 DEF Chain
<1> QED
  BY <1>7 DEF top

LEMMA ChainLow ==
    ASSUME NEW q \in Seq(Seq(Chunk) \ {<<>>}), NEW t, NEW lo, NEW hi \in Int,
           Chain(q, t, lo, hi)
    PROVE  lo \in 0..hi
<1>1. Len(q) \in Nat
  OBVIOUS
<1> QED
  BY <1>1 DEF Chain

-----------------------------------------------------------------------------
\* The primed invariants spelled out.
LEMMA InPrime ==
    ASSUME NEW h
    PROVE  InInv(h)' <=>
             LET s == fd'[h]
                 n == sentN'[s] - Len(rcv'[s]) IN
             Run(inSave'[h], s, n - Len(inSave'[h])) /\ Run(rcv'[s], s, n)
BY DEF InInv, PassedN, ReadN

LEMMA OutPrime ==
    ASSUME NEW h
    PROVE  OutInv(h)' <=>
             LET s == fd'[h]
                 p == partner'[h]
                 n == Len(got'[s]) + Len(snd'[s]) IN
             peer'[s] \notin {"rst", "finrst"} =>
               /\ Run(outSave'[h], Other(s), n)
               /\ Chain(outQ'[h], Other(s), n + Len(outSave'[h]),
                        sentN'[fd'[p]] - Len(rcv'[fd'[p]]) - Len(inSave'[p]))
BY DEF OutInv, Reset, WrittenN, PassedN, ReadN

LEMMA EndPrime ==
    ASSUME NEW s
    PROVE  EndInv(s)' <=>
             /\ Run(got'[s], Other(s), 0) /\ Len(got'[s]) <= sentN'[Other(s)]
             /\ peer'[s] \notin {"rst", "finrst"} =>
                  /\ Run(snd'[s], Other(s), Len(got'[s]))
                  /\ Len(got'[s]) + Len(snd'[s]) <= sentN'[Other(s)]
             /\ s[1] \notin started' =>
                  /\ sentN'[s] = 0 /\ got'[s] = <<>> /\ snd'[s] = <<>>
                  /\ rcv'[s] = <<>>
BY DEF EndInv, Reset, WrittenN

LEMMA InNext ==
    ASSUME NEW h, NEW s, NEW n, NEW m, fd'[h] = s,
           sentN'[s] - Len(rcv'[s]) = n, n - Len(inSave'[h]) = m,
           Run(inSave'[h], s, m), Run(rcv'[s], s, n)
    PROVE  InInv(h)'
BY InPrime

LEMMA OutNext ==
    ASSUME NEW h, NEW s, NEW p, NEW n, NEW m, fd'[h] = s, partner'[h] = p,
           Len(got'[s]) + Len(snd'[s]) = n,
           sentN'[fd'[p]] - Len(rcv'[fd'[p]]) - Len(inSave'[p]) = m,
           peer'[s] \notin {"rst", "finrst"} =>
             /\ Run(outSave'[h], Other(s), n)
             /\ Chain(outQ'[h], Other(s), n + Len(outSave'[h]), m)
    PROVE  OutInv(h)'
BY OutPrime

\* A step that leaves the buffers of a handle and of its socket alone.
LEMMA KeepIn ==
    ASSUME NEW h \in Handle, InInv(h),
           fd'[h] = fd[h], inSave'[h] = inSave[h],
           rcv'[fd[h]] = rcv[fd[h]], sentN'[fd[h]] = sentN[fd[h]]
    PROVE  InInv(h)'
BY InPrime DEF InInv, PassedN, ReadN

\* The same for what it has to write: how far its partner has come is all that
\* matters of the partner.
LEMMA KeepOut ==
    ASSUME NEW h \in Handle, OutInv(h),
           fd'[h] = fd[h], partner'[h] = partner[h],
           fd'[partner[h]] = fd[partner[h]],
           outSave'[h] = outSave[h], outQ'[h] = outQ[h],
           peer'[fd[h]] = peer[fd[h]]
             \/ peer[fd[h]] = "open" \/ peer'[fd[h]] \in {"rst", "finrst"},
           Len(got'[fd[h]]) + Len(snd'[fd[h]]) = WrittenN(fd[h]),
           sentN'[fd[partner[h]]] - Len(rcv'[fd[partner[h]]])
             - Len(inSave'[partner[h]]) = PassedN(partner[h])
    PROVE  OutInv(h)'
BY OutPrime DEF OutInv, Reset

LEMMA KeepEnd ==
    ASSUME TypeOK, NEW s \in Sock, EndInv(s), got'[s] = got[s],
           snd'[s] = snd[s] \/ snd'[s] = <<>>,
           peer'[s] = peer[s] \/ peer[s] = "open" \/ peer'[s] \in {"rst", "finrst"},
           sentN'[Other(s)] = sentN[Other(s)] \/ sentN'[Other(s)] = sentN[Other(s)] + 1,
           s[1] \notin started' =>
             /\ s[1] \notin started /\ sentN'[s] = sentN[s]
             /\ rcv'[s] = rcv[s] \/ rcv'[s] = <<>>
    PROVE  EndInv(s)'
<1>1. sentN[Other(s)] \in Nat /\ got[s] \in Seq(Chunk) /\ snd[s] \in Seq(Chunk)
  BY SockFacts DEF TypeOK
<1>2. Len(got[s]) \in Nat /\ Len(snd[s]) \in Nat /\ Len(<<>>) = 0
  BY <1>1, EmptyType
<1>3. Len(got'[s]) <= sentN'[Other(s)] /\ Run(got'[s], Other(s), 0)
  BY <1>1, <1>2 DEF EndInv
<1>4. ASSUME peer'[s] \notin {"rst", "finrst"}
      PROVE  /\ Run(snd'[s], Other(s), Len(got'[s]))
             /\ Len(got'[s]) + Len(snd'[s]) <= sentN'[Other(s)]
  <2>1. ~Reset(s)
    BY <1>4 DEF Reset
  <2>2. Run(snd[s], Other(s), Len(got[s]))
        /\ Len(got[s]) + Len(snd[s]) <= sentN[Other(s)]
    BY <2>1 DEF EndInv, WrittenN
  <2>3. Run(snd'[s], Other(s), Len(got'[s]))
    BY <2>2, RunEmpty
  <2>4. Len(got'[s]) + Len(snd'[s]) <= sentN[Other(s)]
    <3>1. CASE snd'[s] = snd[s]
      BY <2>2, <3>1
    <3>2. CASE snd'[s] = <<>>
      <4>1. Len(snd'[s]) = 0 /\ Len(got'[s]) = Len(got[s])
            /\ Len(got[s]) <= sentN[Other(s)]
        BY <1>2, <3>2 DEF EndInv
      <4> QED
        BY <1>2, <4>1
    <3> QED
      BY <3>1, <3>2
  <2> QED
    <3>1. sentN[Other(s)] <= sentN'[Other(s)] /\ sentN'[Other(s)] \in Nat
      BY <1>1
    <3>2. Len(got'[s]) \in Nat /\ Len(snd'[s]) \in Nat
      BY <1>2
    <3> QED
      BY <1>1, <2>3, <2>4, <3>1, <3>2, AddLeq
<1>5. ASSUME s[1] \notin started'
      PROVE  sentN'[s] = 0 /\ got'[s] = <<>> /\ snd'[s] = <<>> /\ rcv'[s] = <<>>
  BY <1>5 DEF EndInv
<1> QED
  BY <1>3, <1>4, <1>5, EndPrime

\* Numbers of chunks are numbers.
LEMMA Counts ==
    ASSUME TypeOK, Paired, NEW h \in Handle, Live(h)
    PROVE  LET s == fd[h] IN
           /\ s \in Sock
           /\ Len(inSave[h]) \in Nat /\ Len(outSave[h]) \in Nat
           /\ Len(rcv[s]) \in Nat /\ Len(snd[s]) \in Nat /\ Len(got[s]) \in Nat
           /\ sentN[s] \in Nat /\ WrittenN(s) \in Nat
           /\ ReadN(h) \in Int /\ PassedN(h) \in Int /\ PassedN(h) <= sentN[s]
<1>1. fd[h] \in Sock
  BY PairFacts
<1>2. /\ inSave[h] \in Seq(Chunk) /\ outSave[h] \in Seq(Chunk)
      /\ rcv[fd[h]] \in Seq(Chunk) /\ snd[fd[h]] \in Seq(Chunk)
      /\ got[fd[h]] \in Seq(Chunk) /\ sentN[fd[h]] \in Nat
  BY <1>1 DEF TypeOK
<1>3. /\ Len(inSave[h]) \in Nat /\ Len(outSave[h]) \in Nat
      /\ Len(rcv[fd[h]]) \in Nat /\ Len(snd[fd[h]]) \in Nat
      /\ Len(got[fd[h]]) \in Nat
  BY <1>2
<1>4. WrittenN(fd[h]) \in Nat
  BY <1>3, AddNat DEF WrittenN
<1>6. ReadN(h) \in Int
  BY <1>2, <1>3 DEF ReadN
<1>5. PassedN(h) \in Int /\ PassedN(h) <= sentN[fd[h]]
  BY <1>2, <1>3 DEF ReadN, PassedN
<1> QED
  BY <1>1, <1>2, <1>3, <1>4, <1>5, <1>6

\* The frame DoWrite works on comes next in the stream, what it leaves follows.
LEMMA FrameRun ==
    ASSUME TypeOK, Paired, NEW h \in Handle, Live(h), HasOut(h),
           OutInv(h), ~Reset(fd[h])
    PROVE  LET t == Other(fd[h])
               n == WrittenN(fd[h]) IN
           /\ Run(Frame(h), t, n)
           /\ Chain(RestQ(h), t, n + Len(Frame(h)), PassedN(partner[h]))
<1> DEFINE t == Other(fd[h])
           n == WrittenN(fd[h])
           hi == PassedN(partner[h])
<1>1. n \in Nat /\ hi \in Int
  BY PairFacts, Counts
<1>2. Run(outSave[h], t, n) /\ Chain(outQ[h], t, n + Len(outSave[h]), hi)
  BY DEF OutInv
<1> HIDE DEF t, n, hi
<1>3. ASSUME outSave[h] # <<>>
      PROVE  Run(Frame(h), t, n) /\ Chain(RestQ(h), t, n + Len(Frame(h)), hi)
  BY <1>2, <1>3 DEF Frame, RestQ
<1>4. ASSUME outSave[h] = <<>>
      PROVE  Run(Frame(h), t, n) /\ Chain(RestQ(h), t, n + Len(Frame(h)), hi)
  <2>1. outQ[h] # <<>> /\ outQ[h] \in Seq(Seq(Chunk) \ {<<>>})
    BY <1>4 DEF HasOut, TypeOK
  <2>2. Chain(outQ[h], t, n, hi)
    BY <1>1, <1>2, <1>4, EmptyType
  <2>3. Run(Head(outQ[h]), t, n)
        /\ Chain(Tail(outQ[h]), t, n + Len(Head(outQ[h])), hi)
    BY <1>1, <2>1, <2>2, ChainTail
  <2> QED
    BY <1>4, <2>3 DEF Frame, RestQ
<1> QED
  BY <1>3, <1>4 DEF t, n, hi

-----------------------------------------------------------------------------
\* What DoRead takes from a socket is the next chunk of its stream.
LEMMA NextChunk ==
    ASSUME TypeOK, Paired, NEW h \in Handle, Live(h), InInv(h), rcv[fd[h]] # <<>>
    PROVE  LET w == rcv[fd[h]]
               x == Head(w) IN
           /\ Run(Tail(w), fd[h], ReadN(h) + 1) /\ Len(Tail(w)) = Len(w) - 1
           /\ Run(Append(inSave[h], x), fd[h], PassedN(h))
           /\ Append(inSave[h], x) \in Seq(Chunk)
           /\ Len(Append(inSave[h], x)) = Len(inSave[h]) + 1
<1> DEFINE w == rcv[fd[h]]
           n == ReadN(h)
           m == PassedN(h)
<1>1. w \in Seq(Chunk) /\ inSave[h] \in Seq(Chunk) /\ n \in Int /\ m \in Int
  BY Counts DEF TypeOK
<1>2. Len(inSave[h]) \in Nat /\ n = m + Len(inSave[h])
  BY <1>1 DEF PassedN
<1>3. Run(inSave[h], fd[h], m) /\ Run(w, fd[h], n)
  BY DEF InInv
<1> HIDE DEF w, n, m
<1>4. /\ Head(w) = <<fd[h], n + 1>> /\ Run(Tail(w), fd[h], n + 1)
      /\ Len(Tail(w)) = Len(w) - 1
  BY <1>1, <1>3, RunTail DEF w
<1>5. Head(w) \in Chunk
  BY <1>1, HeadTail DEF w
<1>6. Run(Append(inSave[h], Head(w)), fd[h], m)
  BY <1>1, <1>2, <1>3, <1>4, RunAppend
<1>7. Append(inSave[h], Head(w)) \in Seq(Chunk)
      /\ Len(Append(inSave[h], Head(w))) = Len(inSave[h]) + 1
  BY <1>1, <1>5, AppendType
<1> QED
  BY <1>4, <1>6, <1>7 DEF w, n, m

LEMMA ReadPartData ==
    ASSUME StreamInv, ReadPart
    PROVE  Streams'
<1> DEFINE c == cur
           s == fd[cur]
           x == Head(rcv[fd[cur]])
<1>1. TypeOK /\ Paired /\ Contained /\ Streams
  BY DEF StreamInv, IInv
<1>2. c \in Handle /\ Live(c)
  BY <1>1 DEF Contained, ReadPart
<1>3. s \in Sock /\ rcv[s] # <<>> /\ InInv(c)
  BY <1>1, <1>2, PairFacts DEF ReadPart, Extends, Streams
<1>4. /\ inSave'[c] = Append(inSave[c], x) /\ rcv'[s] = Tail(rcv[s])
      /\ \A h \in Handle \ {c} : inSave'[h] = inSave[h]
      /\ \A t \in Sock \ {s} : rcv'[t] = rcv[t]
      /\ UNCHANGED <<fd, partner, outSave, outQ, snd, remote, started>>
  BY <1>1, <1>2, <1>3 DEF ReadPart, TypeOK
<1>5. /\ Run(rcv'[s], s, ReadN(c) + 1) /\ Len(rcv'[s]) = Len(rcv[s]) - 1
      /\ Run(inSave'[c], s, PassedN(c)) /\ Len(inSave'[c]) = Len(inSave[c]) + 1
  BY <1>1, <1>2, <1>3, <1>4, NextChunk
<1>6. /\ sentN'[s] - Len(rcv'[s]) = ReadN(c) + 1
      /\ sentN'[s] - Len(rcv'[s]) - Len(inSave'[c]) = PassedN(c)
  <2>1. sentN[s] \in Nat /\ Len(rcv[s]) \in Nat /\ Len(inSave[c]) \in Nat
    BY <1>1, <1>2, Counts
  <2>2. /\ rcv \in [Sock -> Seq(Chunk)] /\ sentN \in [Sock -> Nat] /\ s \in Sock
        /\ inSave \in [Handle -> Seq(Chunk)] /\ c \in Handle
        /\ sentN'[s] = sentN[s] /\ fd \in [Handle -> Sock \cup {NULL}]
    BY <1>1, <1>2, <1>3, <1>4 DEF TypeOK, remote
  <2> QED
    BY <1>5, <2>1, <2>2 DEF ReadN, PassedN
<1> HIDE DEF c, s, x
<1>7. ASSUME NEW t \in Sock PROVE EndInv(t)'
  <2>1. EndInv(t) /\ s[1] \in started
    BY <1>1, <1>2 DEF Streams, Contained, s, c
  <2> QED
    BY <1>1, <1>4, <2>1, KeepEnd DEF remote
<1>8. ASSUME NEW h \in Handle, Live(h) PROVE InInv(h)' /\ OutInv(h)'
  <2>1. InInv(h) /\ OutInv(h) /\ fd[h] \in Sock /\ fd[partner[h]] \in Sock
        /\ partner[h] \in Handle
    BY <1>1, <1>8, PairFacts DEF Streams
  <2>2. /\ fd'[h] = fd[h] /\ partner'[h] = partner[h]
        /\ fd'[partner[h]] = fd[partner[h]]
        /\ outSave'[h] = outSave[h] /\ outQ'[h] = outQ[h]
        /\ peer' = peer /\ sentN' = sentN /\ got' = got /\ snd' = snd
    BY <1>4 DEF remote
  <2>3. \A g \in Handle \ {c} : fd[g] # s
    BY <1>1, <1>2, PairFacts DEF s, c
  <2>4. InInv(h)'
    <3>1. CASE h = c
      BY <1>5, <1>6, <2>2, <3>1, InPrime DEF s, c
    <3>2. CASE h # c
      BY <1>4, <2>1, <2>2, <2>3, <3>2, KeepIn
    <3> QED
      BY <3>1, <3>2
  <2>5. sentN'[fd[partner[h]]] - Len(rcv'[fd[partner[h]]])
          - Len(inSave'[partner[h]]) = PassedN(partner[h])
    <3>1. CASE partner[h] = c
      BY <1>6, <3>1 DEF s, c
    <3>2. CASE partner[h] # c
      BY <1>4, <2>1, <2>2, <2>3, <3>2 DEF PassedN, ReadN
    <3> QED
      BY <3>1, <3>2
  <2>6. OutInv(h)'
    BY <2>1, <2>2, <2>5, KeepOut DEF WrittenN
  <2> QED
    BY <2>4, <2>6
<1> QED
  BY <1>4, <1>7, <1>8 DEF Streams, Live

\* A whole frame goes to the end of the partner's queue, where it belongs.
LEMMA ReadFrameData ==
    ASSUME StreamInv, ReadFrame
    PROVE  Streams'
<1>1. TypeOK /\ Paired /\ Contained /\ Streams
  BY DEF StreamInv, IInv
<1>0. PICK c \in Handle, p \in Handle, s \in Sock :
        c = cur /\ p = partner[c] /\ s = fd[c] /\ Live(c)
  BY <1>1, PairFacts DEF Contained, ReadFrame
<1> DEFINE f == Append(inSave[c], Head(rcv[s]))
<1>2. c \in Handle /\ Live(c) /\ p \in Handle /\ p # c /\ Live(p) /\ partner[p] = c
  BY <1>0, <1>1, PairFacts
<1>3. s \in Sock /\ rcv[s] # <<>> /\ InInv(c) /\ fd[p] = Other(s) /\ fd[p] \in Sock
  BY <1>0, <1>1, <1>2, PairFacts DEF ReadFrame, Completes, Streams
<1>4. /\ inSave'[c] = <<>> /\ rcv'[s] = Tail(rcv[s]) /\ outQ'[p] = Append(outQ[p], f)
      /\ \A h \in Handle \ {c} : inSave'[h] = inSave[h]
      /\ \A h \in Handle \ {p} : outQ'[h] = outQ[h]
      /\ \A t \in Sock \ {s} : rcv'[t] = rcv[t]
      /\ UNCHANGED <<fd, partner, outSave, snd, remote, started>>
  BY <1>0, <1>1, <1>2, <1>3 DEF ReadFrame, TypeOK
<1>5. /\ Run(rcv'[s], s, ReadN(c) + 1) /\ Len(rcv'[s]) = Len(rcv[s]) - 1
      /\ Run(f, s, PassedN(c)) /\ f \in Seq(Chunk) /\ Len(f) = Len(inSave[c]) + 1
  BY <1>0, <1>1, <1>2, <1>3, <1>4, NextChunk
<1>6. /\ sentN'[s] - Len(rcv'[s]) = ReadN(c) + 1
      /\ sentN'[s] - Len(rcv'[s]) - Len(inSave'[c]) = ReadN(c) + 1
      /\ PassedN(c) + Len(f) = ReadN(c) + 1
  <2>1. sentN[s] \in Nat /\ Len(rcv[s]) \in Nat /\ Len(inSave[c]) \in Nat
        /\ Len(inSave'[c]) = 0 /\ ReadN(c) \in Int
    BY <1>0, <1>1, <1>2, <1>4, Counts, EmptyType
  <2>2. /\ rcv \in [Sock -> Seq(Chunk)] /\ sentN \in [Sock -> Nat] /\ s \in Sock
        /\ inSave \in [Handle -> Seq(Chunk)] /\ c \in Handle
        /\ sentN'[s] = sentN[s] /\ fd \in [Handle -> Sock \cup {NULL}]
    BY <1>1, <1>2, <1>3, <1>4 DEF TypeOK, remote
  <2>3. ReadN(c) = sentN[s] - Len(rcv[s]) /\ PassedN(c) = ReadN(c) - Len(inSave[c])
    BY <1>0 DEF ReadN, PassedN
  <2>4. Len(rcv'[s]) = Len(rcv[s]) - 1 /\ Len(f) = Len(inSave[c]) + 1
    BY <1>5
  <2> HIDE DEF f
  <2>5. sentN'[s] - Len(rcv'[s]) = ReadN(c) + 1
    BY <2>1, <2>2, <2>3, <2>4
  <2>6. PassedN(c) + Len(f) = ReadN(c) + 1
    BY <2>1, <2>2, <2>3, <2>4
  <2> QED
    BY <2>1, <2>2, <2>3, <2>4, <2>5, <2>6
<1> HIDE DEF f
<1>7. ASSUME NEW t \in Sock PROVE EndInv(t)'
  <2>1. EndInv(t) /\ s[1] \in started
    BY <1>0, <1>1, <1>2 DEF Streams, Contained
  <2> QED
    BY <1>1, <1>4, <2>1, KeepEnd DEF remote
<1>8. \A g \in Handle \ {c} : fd[g] # s
  BY <1>0, <1>1, <1>2, PairFacts
<1>9. ASSUME NEW h \in Handle, Live(h) PROVE InInv(h)'
  <2>1. InInv(h) /\ fd[h] \in Sock /\ fd'[h] = fd[h] /\ sentN' = sentN
    BY <1>1, <1>4, <1>9, PairFacts DEF Streams, remote
  <2>2. CASE h = c
    <3>1. Run(inSave'[c], s, sentN'[s] - Len(rcv'[s]) - Len(inSave'[c]))
          /\ Run(rcv'[s], s, sentN'[s] - Len(rcv'[s]))
      BY <1>4, <1>5, <1>6, RunEmpty
    <3> QED
      BY <1>0, <2>1, <2>2, <3>1, InPrime
  <2>3. CASE h # c
    BY <1>4, <1>8, <2>1, <2>3, KeepIn
  <2> QED
    BY <2>2, <2>3
<1>10. OutInv(p)'
  <2>1. OutInv(p) /\ WrittenN(fd[p]) \in Nat /\ Len(outSave[p]) \in Nat
        /\ PassedN(c) \in Int /\ outQ[p] \in Seq(Seq(Chunk) \ {<<>>})
    BY <1>1, <1>2, Counts DEF Streams, TypeOK
  <2>2. Other(fd[p]) = s
    BY <1>3, SockFacts
  <2>3. WrittenN(fd[p]) + Len(outSave[p]) \in Nat
    BY <2>1, AddNat
  <2>4. ASSUME ~Reset(fd[p])
        PROVE  /\ Run(outSave[p], s, WrittenN(fd[p]))
               /\ Chain(outQ'[p], s, WrittenN(fd[p]) + Len(outSave[p]), ReadN(c) + 1)
    <3>1. /\ Run(outSave[p], s, WrittenN(fd[p]))
          /\ Chain(outQ[p], s, WrittenN(fd[p]) + Len(outSave[p]), PassedN(c))
      BY <1>2, <2>1, <2>2, <2>4 DEF OutInv
    <3> QED
      BY <1>4, <1>5, <1>6, <2>1, <2>3, <3>1, ChainAppend
  <2>5. /\ fd'[p] = fd[p] /\ partner'[p] = c /\ fd'[c] = s /\ outSave'[p] = outSave[p]
        /\ peer'[fd[p]] = peer[fd[p]] /\ got' = got /\ snd' = snd
    BY <1>0, <1>2, <1>4 DEF remote
  <2>6. Len(got'[fd[p]]) + Len(snd'[fd[p]]) = WrittenN(fd[p])
    BY <2>5 DEF WrittenN
  <2>7. peer'[fd[p]] \notin {"rst", "finrst"} => ~Reset(fd[p])
    BY <2>5 DEF Reset
  <2>8. sentN'[fd'[c]] - Len(rcv'[fd'[c]]) - Len(inSave'[c]) = ReadN(c) + 1
    BY <1>6, <2>5
  <2>9. peer'[fd[p]] \notin {"rst", "finrst"} =>
           /\ Run(outSave'[p], Other(fd[p]), WrittenN(fd[p]))
           /\ Chain(outQ'[p], Other(fd[p]), WrittenN(fd[p]) + Len(outSave'[p]),
                    ReadN(c) + 1)
    BY <2>2, <2>4, <2>5, <2>7
  <2> QED
    BY <2>5, <2>6, <2>8, <2>9, OutNext
<1>11. ASSUME NEW h \in Handle \ {p}, Live(h) PROVE OutInv(h)'
  <2>1. OutInv(h) /\ partner[h] \in Handle /\ partner[h] # c /\ fd[partner[h]] \in Sock
    BY <1>0, <1>1, <1>11, PairFacts DEF Streams
  <2>2. sentN'[fd[partner[h]]] - Len(rcv'[fd[partner[h]]])
          - Len(inSave'[partner[h]]) = PassedN(partner[h])
    BY <1>4, <1>8, <2>1 DEF PassedN, ReadN, remote
  <2> QED
    BY <1>4, <1>11, <2>1, <2>2, KeepOut DEF WrittenN, remote
<1>12. \A h \in Handle : Live(h) => InInv(h)' /\ OutInv(h)'
  BY <1>2, <1>9, <1>10, <1>11
<1> QED
  BY <1>4, <1>7, <1>12 DEF Streams, Live

-----------------------------------------------------------------------------
\* DoWrite works on the frame that comes next, and leaves the rest of it and
\* of the queue.
LEMMA WriteData ==
    ASSUME StreamInv, WriteChunk \/ WriteBlocked
    PROVE  Streams'
<1>1. TypeOK /\ Paired /\ Contained /\ Streams
  BY DEF StreamInv, IInv
<1>2. PICK c \in Handle, p \in Handle, s \in Sock :
        c = cur /\ p = partner[c] /\ s = fd[c] /\ Live(c)
  BY <1>1, PairFacts DEF Contained, WriteChunk, WriteBlocked
<1>3. Live(p) /\ p # c /\ HasOut(c) /\ ~Reset(s) /\ OutInv(c) /\ EndInv(s)
      /\ s[1] \in started
  BY <1>1, <1>2, PairFacts DEF WriteChunk, WriteBlocked, Streams, Contained
<1>4. PICK F \in Seq(Chunk), n \in Nat, hi \in Int, t \in Sock :
        F = Frame(c) /\ F # <<>> /\ n = WrittenN(s) /\ hi = PassedN(p) /\ t = Other(s)
  BY <1>1, <1>2, <1>3, FrameFacts, Counts, SockFacts
<1>5. /\ outQ'[c] = RestQ(c)
      /\ \A h \in Handle \ {c} : outSave'[h] = outSave[h] /\ outQ'[h] = outQ[h]
      /\ UNCHANGED <<fd, partner, inSave, rcv, remote, started>>
  <2>1. CASE WriteChunk
    BY <1>1, <1>2, <2>1 DEF WriteChunk, TypeOK
  <2>2. CASE WriteBlocked
    BY <1>1, <1>2, <2>2 DEF WriteBlocked, TypeOK
  <2> QED
    BY <2>1, <2>2
<1>6. Run(F, t, n) /\ Chain(outQ'[c], t, n + Len(F), hi)
  BY <1>1, <1>2, <1>3, <1>4, <1>5, FrameRun
<1>7. \A h \in Handle \ {c} : Live(h) => fd[h] # s
  BY <1>1, <1>2, PairFacts
<1>8. ASSUME NEW h \in Handle, Live(h) PROVE InInv(h)'
  BY <1>1, <1>5, <1>8, KeepIn DEF Streams, remote
<1>9. ASSUME \A q \in Sock \ {s} : snd'[q] = snd[q], NEW h \in Handle \ {c}, Live(h)
      PROVE  OutInv(h)'
  <2>1. OutInv(h) /\ partner[h] \in Handle /\ fd[h] \in Sock \ {s}
    BY <1>1, <1>7, <1>9, PairFacts DEF Streams
  <2>2. /\ sentN'[fd[partner[h]]] - Len(rcv'[fd[partner[h]]])
             - Len(inSave'[partner[h]]) = PassedN(partner[h])
        /\ Len(got'[fd[h]]) + Len(snd'[fd[h]]) = WrittenN(fd[h])
    BY <1>5, <1>9, <2>1 DEF PassedN, ReadN, WrittenN, remote
  <2> QED
    BY <1>5, <2>1, <2>2, KeepOut DEF remote
<1>10. ASSUME \A q \in Sock \ {s} : snd'[q] = snd[q], EndInv(s)', OutInv(c)'
       PROVE  Streams'
  <2>1. ASSUME NEW q \in Sock PROVE EndInv(q)'
    BY <1>1, <1>5, <1>10, KeepEnd DEF Streams, remote
  <2>2. \A h \in Handle : Live(h) => InInv(h)' /\ OutInv(h)'
    BY <1>8, <1>9, <1>10
  <2> QED
    BY <1>5, <2>1, <2>2 DEF Streams, Live
<1>11. fd'[c] = s /\ partner'[c] = p /\ peer'[s] = peer[s]
       /\ sentN'[fd'[p]] - Len(rcv'[fd'[p]]) - Len(inSave'[p]) = hi
  BY <1>2, <1>4, <1>5 DEF remote, PassedN, ReadN
<1>12. CASE WriteBlocked
  <2>1. snd' = snd /\ outSave'[c] = F
    BY <1>1, <1>2, <1>4, <1>12 DEF WriteBlocked, Blocked, TypeOK
  <2>2. EndInv(s)'
    BY <1>1, <1>3, <1>5, <2>1, KeepEnd DEF remote
  <2>3. OutInv(c)'
    BY <1>4, <1>5, <1>6, <1>11, <2>1, OutNext DEF WrittenN, remote
  <2> QED
    BY <1>10, <2>1, <2>2, <2>3
<1>13. CASE WriteChunk
  <2>1. /\ snd'[s] = Append(snd[s], Head(F)) /\ outSave'[c] = Tail(F)
        /\ \A q \in Sock \ {s} : snd'[q] = snd[q]
    BY <1>1, <1>2, <1>4, <1>13 DEF WriteChunk, Written, TypeOK
  <2>2. /\ Head(F) = <<t, n + 1>> /\ Run(Tail(F), t, n + 1)
        /\ Len(Tail(F)) = Len(F) - 1 /\ Head(F) \in Chunk /\ Len(F) \in Nat \ {0}
    BY <1>4, <1>6, RunTail, HeadTail
  <2>3. PICK A \in Seq(Chunk), W \in Seq(Chunk) : A = got[s] /\ W = snd[s]
    BY <1>1 DEF TypeOK
  <2>4. n = Len(A) + Len(W) /\ Len(A) \in Nat /\ Len(W) \in Nat
    BY <1>4, <2>3 DEF WrittenN
  <2>5. Run(A, t, 0) /\ Len(A) <= sentN[t] /\ Run(W, t, Len(A))
    BY <1>3, <1>4, <2>3 DEF EndInv
  <2>6. Head(F) = <<t, Len(A) + Len(W) + 1>>
    BY <2>2, <2>4
  <2>7. Run(snd'[s], t, Len(A)) /\ Len(snd'[s]) = Len(W) + 1
    <3>1. Run(Append(W, Head(F)), t, Len(A))
      <4>1. Len(A) \in Int
        BY <2>4
      <4> QED
        BY <2>5, <2>6, <4>1, RunAppend
    <3> QED
      BY <2>1, <2>2, <2>3, <3>1, AppendType
  <2>8. got'[s] = A /\ Len(got'[s]) + Len(snd'[s]) = n + 1
    <3>1. got'[s] = A
      BY <1>5, <2>3 DEF remote
    <3>2. Len(A) + (Len(W) + 1) = n + 1
      BY <2>4
    <3> QED
      BY <2>7, <3>1, <3>2
  <2>11. n + 1 <= sentN[t]
    <3>1. n + Len(F) \in 0..hi
      BY <1>1, <1>3, <1>4, <1>5, <1>6, ChainLow, FrameFacts
    <3>2. hi <= sentN[t] /\ sentN[t] \in Nat
      BY <1>1, <1>2, <1>3, <1>4, PairFacts, Counts
    <3> QED
      BY <1>4, <2>2, <3>1, <3>2
  <2>12. EndInv(s)'
    <3>1. sentN'[t] = sentN[t] /\ started' = started
      BY <1>5 DEF remote
    <3> QED
      BY <1>3, <1>4, <2>5, <2>7, <2>8, <2>11, <3>1, EndPrime
  <2>9. n + 1 + Len(Tail(F)) = n + Len(F)
    BY <1>4, <2>2
  <2>10. OutInv(c)'
    BY <1>4, <1>6, <1>11, <2>1, <2>2, <2>8, <2>9, OutNext
  <2> QED
    BY <1>10, <2>1, <2>10, <2>12
<1> QED
  BY <1>12, <1>13

-----------------------------------------------------------------------------
\* What clears a pair leaves the remote ends and the set of connections alone.
LEMMA ClearStep ==
    ASSUME IInv, Clears
    PROVE  \E h \in Handle :
              Live(h) /\ ClearFHPair(h) /\ UNCHANGED <<remote, started>>
<1>1. CASE ReadBad \/ ReadClosed \/ WriteErr \/ AdoptFailed
  <2>1. PICK h \in Handle : Live(h) /\ ClearFHPair(h)
    BY <1>1, ClearFacts
  <2> QED
    BY <1>1, <2>1 DEF ReadBad, ReadClosed, WriteErr, AdoptFailed
<1>2. ASSUME NEW c \in Pair, OnConnectFailed(c)
      PROVE  \E h \in Handle :
                Live(h) /\ ClearFHPair(h) /\ UNCHANGED <<remote, started>>
  <2>1. PICK h \in Handle : Live(h) /\ ClearFHPair(h)
    BY <1>2, ConnectFailedFacts DEF IInv
  <2> QED
    BY <1>2, <2>1 DEF OnConnectFailed
<1> QED
  BY <1>1, <1>2 DEF Clears

\* Clearing a pair takes what its sockets had received, and perhaps what they
\* had still to send; nothing of another pair.
LEMMA ClearData ==
    ASSUME StreamInv, Clears
    PROVE  Streams'
<1>1. IInv /\ TypeOK /\ Paired /\ Contained /\ Streams
  BY DEF StreamInv, IInv
<1>2. PICK g \in Handle :
        Live(g) /\ ClearFHPair(g) /\ UNCHANGED <<remote, started>>
  BY <1>1, ClearStep
<1> DEFINE H == {g, partner[g]}
<1>3. Delete(H) /\ UNCHANGED <<remote, started>>
  BY <1>2 DEF ClearFHPair
<1>4. ASSUME NEW s \in Sock PROVE EndInv(s)'
  <2>1. EndInv(s) /\ (snd'[s] = snd[s] \/ snd'[s] = <<>>)
        /\ (rcv'[s] = rcv[s] \/ rcv'[s] = <<>>)
    BY <1>1, <1>3 DEF Streams, Delete
  <2> QED
    BY <1>1, <1>3, <2>1, KeepEnd DEF remote
<1>5. ASSUME NEW h \in Handle, fd'[h] # NULL PROVE InInv(h)' /\ OutInv(h)'
  <2>1. h \notin H /\ Live(h) /\ fd'[h] = fd[h]
    BY <1>3, <1>5 DEF Delete, Live
  <2>2. /\ InInv(h) /\ OutInv(h) /\ partner[h] \in Handle /\ partner[h] \notin H
        /\ fd[h] \in Sock /\ fd[partner[h]] \in Sock
    BY <1>1, <1>2, <2>1, PairFacts DEF Streams
  <2>3. \A x \in H : fd[x] # fd[h] /\ fd[x] # fd[partner[h]]
    BY <1>1, <1>2, <2>1, <2>2, PairFacts
  <2>4. /\ fd'[partner[h]] = fd[partner[h]] /\ partner'[h] = partner[h]
        /\ inSave'[h] = inSave[h] /\ inSave'[partner[h]] = inSave[partner[h]]
        /\ outSave'[h] = outSave[h] /\ outQ'[h] = outQ[h]
    BY <1>3, <2>1, <2>2 DEF Delete
  <2>5. /\ rcv'[fd[h]] = rcv[fd[h]] /\ snd'[fd[h]] = snd[fd[h]]
        /\ rcv'[fd[partner[h]]] = rcv[fd[partner[h]]]
    BY <1>3, <2>2, <2>3 DEF Delete
  <2>6. /\ sentN'[fd[partner[h]]] - Len(rcv'[fd[partner[h]]])
             - Len(inSave'[partner[h]]) = PassedN(partner[h])
        /\ Len(got'[fd[h]]) + Len(snd'[fd[h]]) = WrittenN(fd[h])
    BY <1>3, <2>4, <2>5 DEF PassedN, ReadN, WrittenN, remote
  <2>7. InInv(h)'
    BY <1>3, <2>1, <2>2, <2>4, <2>5, KeepIn DEF remote
  <2> QED
    BY <1>3, <2>1, <2>2, <2>4, <2>6, <2>7, KeepOut DEF remote
<1> QED
  BY <1>4, <1>5 DEF Streams, Live

\* A connection begins with nothing under way.
LEMMA HandoverData ==
    ASSUME StreamInv, Handover
    PROVE  Streams'
<1>1. TypeOK /\ Paired /\ Contained /\ Apart /\ Streams
  BY DEF StreamInv, IInv
<1>2. PICK c \in Pair, hs \in Handle, hc \in Handle :
        /\ hs # hc /\ ~Live(hs) /\ ~Live(hc)
        /\ c \notin started /\ started' = started \cup {c}
        /\ fd' = [fd EXCEPT ![hs] = <<c, "S">>, ![hc] = <<c, "C">>]
        /\ partner' = [partner EXCEPT ![hs] = hc, ![hc] = hs]
        /\ UNCHANGED <<inSave, outSave, outQ, rcv, snd, remote>>
  BY <1>1, HandoverFacts
<1>3. /\ fd'[hs] = <<c, "S">> /\ fd'[hc] = <<c, "C">>
      /\ partner'[hs] = hc /\ partner'[hc] = hs
      /\ \A g \in Handle \ {hs, hc} : fd'[g] = fd[g] /\ partner'[g] = partner[g]
  BY <1>1, <1>2 DEF TypeOK
<1>4. c \notin started /\ started' = started \cup {c}
      /\ UNCHANGED <<inSave, outSave, outQ, rcv, snd, remote>>
  BY <1>2
<1>5. ASSUME NEW s \in Sock PROVE EndInv(s)'
  BY <1>1, <1>4, <1>5, KeepEnd DEF Streams, remote
<1>6. ASSUME NEW h \in {hs, hc} PROVE InInv(h)' /\ OutInv(h)'
  <2>1. PICK g \in {hs, hc}, s \in Sock, t \in Sock :
          /\ fd'[h] = s /\ partner'[h] = g /\ fd'[g] = t /\ s[1] = c /\ t[1] = c
    BY <1>3 DEF Sock, Side
  <2>2. /\ inSave'[h] = <<>> /\ outSave'[h] = <<>> /\ outQ'[h] = <<>>
        /\ inSave'[g] = <<>>
    BY <1>1, <1>2, <1>4 DEF Contained, HasOut
  <2>3. /\ sentN'[s] = 0 /\ got'[s] = <<>> /\ snd'[s] = <<>> /\ rcv'[s] = <<>>
        /\ sentN'[t] = 0 /\ rcv'[t] = <<>>
    BY <1>1, <1>4, <2>1 DEF Streams, EndInv, remote
  <2>4. /\ Run(<<>>, s, 0) /\ Run(<<>>, Other(s), 0) /\ Chain(<<>>, Other(s), 0, 0)
        /\ Len(<<>>) = 0
    BY RunEmpty, ChainEmpty, EmptyType
  <2>5. InInv(h)'
    BY <2>1, <2>2, <2>3, <2>4, InNext
  <2>6. /\ Len(got'[s]) + Len(snd'[s]) = 0
        /\ sentN'[fd'[g]] - Len(rcv'[fd'[g]]) - Len(inSave'[g]) = 0
        /\ 0 + Len(outSave'[h]) = 0
    <3>1. /\ Len(got'[s]) = 0 /\ Len(snd'[s]) = 0 /\ Len(outSave'[h]) = 0
          /\ sentN'[fd'[g]] = 0 /\ Len(rcv'[fd'[g]]) = 0 /\ Len(inSave'[g]) = 0
      BY <2>1, <2>2, <2>3, <2>4
    <3>2. 0 + 0 = 0 /\ 0 - 0 - 0 = 0
      OBVIOUS
    <3> QED
      BY <3>1, <3>2, Zenon
  <2> QED
    BY <2>1, <2>2, <2>4, <2>5, <2>6, OutNext
<1>7. ASSUME NEW h \in Handle \ {hs, hc}, fd'[h] # NULL PROVE InInv(h)' /\ OutInv(h)'
  <2>1. Live(h) /\ fd'[h] = fd[h] /\ partner'[h] = partner[h]
    BY <1>3, <1>7 DEF Live
  <2>2. InInv(h) /\ OutInv(h) /\ partner[h] \in Handle \ {hs, hc}
    BY <1>1, <1>2, <2>1, PairFacts DEF Streams
  <2>3. /\ fd'[partner[h]] = fd[partner[h]]
        /\ sentN'[fd[partner[h]]] - Len(rcv'[fd[partner[h]]])
             - Len(inSave'[partner[h]]) = PassedN(partner[h])
        /\ Len(got'[fd[h]]) + Len(snd'[fd[h]]) = WrittenN(fd[h])
    BY <1>3, <1>4, <2>2 DEF PassedN, ReadN, WrittenN, remote
  <2> QED
    BY <1>4, <2>1, <2>2, <2>3, KeepIn, KeepOut DEF remote
<1> QED
  BY <1>5, <1>6, <1>7 DEF Streams, Live

-----------------------------------------------------------------------------
\* A remote end sends the next chunk of its own stream.
LEMMA SendData ==
    ASSUME StreamInv, NEW s \in Sock, PeerSend(s)
    PROVE  Streams'
<1>1. TypeOK /\ Paired /\ Contained /\ Streams
  BY DEF StreamInv, IInv
<1>2. PICK W \in Seq(Chunk), n \in Nat : W = rcv[s] /\ n = sentN[s]
  BY <1>1 DEF TypeOK
<1>3. /\ rcv'[s] = Append(W, <<s, n + 1>>) /\ sentN'[s] = n + 1
      /\ \A q \in Sock \ {s} : rcv'[q] = rcv[q] /\ sentN'[q] = sentN[q]
      /\ UNCHANGED <<handles, snd, peer, got, started>>
  BY <1>1, <1>2 DEF PeerSend, TypeOK
<1>8. s[1] \in started
  BY <1>1, SockFacts DEF PeerSend, Up, Contained, Live, Open
<1>4. Len(rcv'[s]) = Len(W) + 1 /\ Len(W) \in Nat
  BY <1>2, <1>3
<1>5. ASSUME NEW q \in Sock PROVE EndInv(q)'
  <2>1. EndInv(q)
    BY <1>1 DEF Streams
  <2>2. sentN'[Other(q)] = sentN[Other(q)] \/ sentN'[Other(q)] = sentN[Other(q)] + 1
    BY <1>2, <1>3, SockFacts
  <2> QED
    BY <1>1, <1>3, <1>8, <2>1, <2>2, KeepEnd
<1>6. ASSUME NEW h \in Handle, Live(h)
      PROVE  /\ sentN'[fd[h]] - Len(rcv'[fd[h]]) = ReadN(h)
             /\ sentN'[fd[h]] - Len(rcv'[fd[h]]) - Len(inSave'[h]) = PassedN(h)
             /\ Run(rcv'[fd[h]], fd[h], ReadN(h))
  <2>1. fd[h] \in Sock /\ inSave'[h] = inSave[h] /\ InInv(h)
    BY <1>1, <1>3, <1>6, PairFacts DEF handles, Streams
  <2>2. CASE fd[h] = s
    <3>1. ReadN(h) = n - Len(W) /\ n + 1 - (Len(W) + 1) = n - Len(W)
          /\ n - Len(W) \in Int
      BY <1>2, <1>4, <2>2 DEF ReadN
    <3>2. Run(W, s, n - Len(W)) /\ n - Len(W) + Len(W) + 1 = n + 1
      BY <1>2, <1>4, <2>1, <2>2, <3>1 DEF InInv
    <3>3. Run(rcv'[s], s, n - Len(W))
      BY <1>3, <3>1, <3>2, RunAppend
    <3>4. sentN'[s] - Len(rcv'[s]) = ReadN(h)
      BY <1>3, <1>4, <3>1
    <3> QED
      BY <2>1, <2>2, <3>1, <3>3, <3>4 DEF PassedN
  <2>3. CASE fd[h] # s
    BY <1>3, <2>1, <2>3 DEF ReadN, PassedN, InInv
  <2> QED
    BY <2>2, <2>3
<1>7. ASSUME NEW h \in Handle, Live(h) PROVE InInv(h)' /\ OutInv(h)'
  <2>1. InInv(h) /\ OutInv(h) /\ partner[h] \in Handle /\ Live(partner[h])
    BY <1>1, <1>7, PairFacts DEF Streams
  <2>2. fd' = fd /\ partner' = partner /\ inSave' = inSave /\ outSave' = outSave
        /\ outQ' = outQ /\ got' = got /\ snd' = snd /\ peer' = peer
    BY <1>3 DEF handles
  <2>3. InInv(h)'
    <3>1. Run(inSave'[h], fd[h], PassedN(h))
      BY <2>1, <2>2 DEF InInv
    <3> QED
      BY <1>6, <1>7, <2>2, <3>1, InPrime
  <2> QED
    BY <1>6, <2>1, <2>2, <2>3, KeepOut DEF WrittenN
<1> QED
  BY <1>3, <1>5, <1>7 DEF Streams, Live, handles

\* It receives the next chunk of the other's.
LEMMA RecvData ==
    ASSUME StreamInv, NEW s \in Sock, PeerRecv(s)
    PROVE  Streams'
<1>1. TypeOK /\ Paired /\ Contained /\ Streams
  BY DEF StreamInv, IInv
<1>2. PICK A \in Seq(Chunk), W \in Seq(Chunk), t \in Sock :
        A = got[s] /\ W = snd[s] /\ t = Other(s) /\ W # <<>>
  BY <1>1, SockFacts DEF TypeOK, PeerRecv
<1>3. /\ got'[s] = Append(A, Head(W)) /\ snd'[s] = Tail(W) /\ ~Reset(s)
      /\ \A q \in Sock \ {s} : got'[q] = got[q] /\ snd'[q] = snd[q]
      /\ UNCHANGED <<handles, rcv, peer, sentN, started>>
  BY <1>1, <1>2 DEF PeerRecv, TypeOK
<1>4. /\ Run(A, t, 0) /\ Run(W, t, Len(A)) /\ Len(A) + Len(W) <= sentN[t]
      /\ s[1] \in started
  BY <1>1, <1>2, <1>3 DEF Streams, EndInv, WrittenN
<1>5. Len(A) \in Nat /\ Len(A) \in Int /\ 0 \in Int /\ Len(A) + 1 = 0 + Len(A) + 1
      /\ Len(W) \in Nat /\ Len(W) > 0
  BY <1>2
<1>6. /\ Head(W) = <<t, Len(A) + 1>> /\ Run(Tail(W), t, Len(A) + 1)
      /\ Len(Tail(W)) = Len(W) - 1 /\ Head(W) \in Chunk
  BY <1>2, <1>4, <1>5, RunTail, HeadTail
<1>7. Run(got'[s], t, 0) /\ Len(got'[s]) = Len(A) + 1
  <2>1. Head(W) = <<t, 0 + Len(A) + 1>>
    BY <1>5, <1>6
  <2>2. Run(Append(A, Head(W)), t, 0)
    BY <1>4, <1>5, <2>1, RunAppend
  <2> QED
    BY <1>3, <1>6, <2>2, AppendType
<1>8. Len(got'[s]) + Len(snd'[s]) = Len(A) + Len(W)
  <2>1. (Len(A) + 1) + (Len(W) - 1) = Len(A) + Len(W)
    BY <1>5
  <2>2. Len(snd'[s]) = Len(W) - 1
    BY <1>3, <1>6
  <2> QED
    BY <1>7, <2>1, <2>2
<1>9. EndInv(s)'
  <2>1. sentN'[t] = sentN[t] /\ sentN[t] \in Nat /\ started' = started
    BY <1>1, <1>3 DEF TypeOK
  <2>2. Len(A) + 1 <= sentN[t]
    BY <1>4, <1>5, <2>1
  <2> QED
    BY <1>2, <1>3, <1>4, <1>6, <1>7, <1>8, <2>1, <2>2, EndPrime
<1>10. ASSUME NEW q \in Sock \ {s} PROVE EndInv(q)'
  BY <1>1, <1>3, <1>10, KeepEnd DEF Streams
<1>11. ASSUME NEW h \in Handle, Live(h) PROVE InInv(h)' /\ OutInv(h)'
  <2>1. InInv(h) /\ OutInv(h) /\ fd[h] \in Sock
    BY <1>1, <1>11, PairFacts DEF Streams
  <2>2. Len(got'[fd[h]]) + Len(snd'[fd[h]]) = WrittenN(fd[h])
    <3>1. CASE fd[h] = s
      BY <1>2, <1>8, <3>1 DEF WrittenN
    <3>2. CASE fd[h] # s
      BY <1>3, <2>1, <3>2 DEF WrittenN
    <3> QED
      BY <3>1, <3>2
  <2>3. sentN'[fd[partner[h]]] - Len(rcv'[fd[partner[h]]])
          - Len(inSave'[partner[h]]) = PassedN(partner[h])
    BY <1>3 DEF PassedN, ReadN, handles
  <2> QED
    BY <1>3, <2>1, <2>2, <2>3, KeepIn, KeepOut DEF handles
<1> QED
  BY <1>3, <1>9, <1>10, <1>11 DEF Streams, Live, handles

\* A shutdown changes no data, and a reset loses the send buffer.
LEMMA EndData ==
    ASSUME StreamInv, NEW s \in Sock, PeerFin(s) \/ PeerReset(s)
    PROVE  Streams'
<1>1. TypeOK /\ Paired /\ Contained /\ Streams
  BY DEF StreamInv, IInv
<1>2. /\ peer'[s] \in {"rst", "finrst"} \/ (peer[s] = "open" /\ snd'[s] = snd[s])
      /\ \A q \in Sock \ {s} : peer'[q] = peer[q] /\ snd'[q] = snd[q]
      /\ snd'[s] = snd[s] \/ snd'[s] = <<>>
      /\ UNCHANGED <<handles, rcv, sentN, got, started>>
  BY <1>1 DEF PeerFin, PeerReset, TypeOK
<1>3. ASSUME NEW q \in Sock PROVE EndInv(q)'
  <2>1. EndInv(q) /\ (snd'[q] = snd[q] \/ snd'[q] = <<>>)
        /\ (peer'[q] = peer[q] \/ peer[q] = "open" \/ peer'[q] \in {"rst", "finrst"})
    BY <1>1, <1>2 DEF Streams
  <2> QED
    BY <1>1, <1>2, <2>1, KeepEnd
<1>4. ASSUME NEW h \in Handle, Live(h) PROVE InInv(h)' /\ OutInv(h)'
  <2>1. InInv(h) /\ OutInv(h) /\ fd[h] \in Sock
    BY <1>1, <1>4, PairFacts DEF Streams
  <2>2. fd' = fd /\ partner' = partner /\ inSave' = inSave /\ outSave' = outSave
        /\ outQ' = outQ /\ rcv' = rcv /\ sentN' = sentN /\ got' = got
    BY <1>2 DEF handles
  <2>3. InInv(h)'
    BY <2>1, <2>2, KeepIn
  <2>4. CASE peer'[fd[h]] \in {"rst", "finrst"}
    BY <2>2, <2>3, <2>4 DEF OutInv, Reset
  <2>5. CASE peer'[fd[h]] \notin {"rst", "finrst"}
    <3>1. snd'[fd[h]] = snd[fd[h]]
          /\ (peer'[fd[h]] = peer[fd[h]] \/ peer[fd[h]] = "open")
      BY <1>2, <2>1, <2>5
    <3>2. /\ Len(got'[fd[h]]) + Len(snd'[fd[h]]) = WrittenN(fd[h])
          /\ sentN'[fd[partner[h]]] - Len(rcv'[fd[partner[h]]])
               - Len(inSave'[partner[h]]) = PassedN(partner[h])
      BY <2>2, <3>1 DEF WrittenN, PassedN, ReadN
    <3>3. /\ fd'[h] = fd[h] /\ partner'[h] = partner[h]
          /\ fd'[partner[h]] = fd[partner[h]]
          /\ outSave'[h] = outSave[h] /\ outQ'[h] = outQ[h]
      BY <2>2
    <3> QED
      BY <2>1, <2>3, <3>1, <3>2, <3>3, KeepOut
  <2> QED
    BY <2>4, <2>5
<1> QED
  BY <1>2, <1>3, <1>4 DEF Streams, Live, handles

\* The other steps touch no data.
LEMMA OtherData ==
    ASSUME Streams, UNCHANGED <<handles, rcv, snd, remote>>, started \subseteq started'
    PROVE  Streams'
<1>1. fd' = fd /\ partner' = partner /\ inSave' = inSave /\ outSave' = outSave
      /\ outQ' = outQ /\ rcv' = rcv /\ snd' = snd /\ peer' = peer
      /\ sentN' = sentN /\ got' = got /\ started \subseteq started'
  BY DEF handles, remote
<1>2. ASSUME NEW q \in Sock PROVE EndInv(q)'
  BY <1>1, EndPrime DEF Streams, EndInv, Reset, WrittenN
<1>3. ASSUME NEW h \in Handle, Live(h) PROVE InInv(h)' /\ OutInv(h)'
  BY <1>1, <1>3, KeepIn, KeepOut DEF Streams, WrittenN, PassedN, ReadN
<1> QED
  BY <1>1, <1>2, <1>3 DEF Streams, Live

LEMMA InitStreams == Init => StreamInv
<1> SUFFICES ASSUME Init PROVE Streams
  BY InitInv DEF StreamInv
<1>1. ASSUME NEW s \in Sock PROVE EndInv(s)
  BY EmptyType, RunEmpty, SockFacts DEF Init, EndInv, WrittenN
<1>2. \A h \in Handle : ~Live(h)
  BY DEF Init, Live
<1> QED
  BY <1>1, <1>2 DEF Streams

LEMMA StepStreams == StreamInv /\ [Next]_vars => StreamInv'
<1> SUFFICES ASSUME StreamInv, [Next]_vars PROVE Streams'
  BY StepInv DEF StreamInv
<1>1. Streams
  BY DEF StreamInv
<1>2. CASE ReadPart \/ ReadFrame
  BY <1>2, ReadPartData, ReadFrameData
<1>3. CASE WriteChunk \/ WriteBlocked
  BY <1>3, WriteData
<1>4. CASE Clears
  BY <1>4, ClearData
<1>5. CASE Handover
  BY <1>5, HandoverData
<1>6. CASE Remote
  BY <1>6, SendData, RecvData, EndData DEF Remote
<1>7. CASE \/ Wait \/ ReadBlocked \/ Arm \/ WriteDone \/ WriteSigpipe
           \/ DispatchPipe \/ Adopt \/ AdoptFreed \/ PipeDrained
           \/ \E e \in batch : Dispatch(e) \/ DispatchFreed(e) \/ DispatchOther(e)
           \/ \E c \in Pair : OnConnected(c) \/ ConnectFreed(c)
           \/ UNCHANGED vars
  <2>1. UNCHANGED <<handles, rcv, snd, remote, started>>
    BY <1>7 DEF Wait, ReadBlocked, Arm, WriteDone, WriteSigpipe, DispatchPipe,
           Adopt, AdoptFreed, PipeDrained, Dispatch, DispatchFreed, DispatchOther,
           OnConnected, ConnectFreed, vars
  <2> QED
    BY <1>1, <2>1, OtherData
<1>8. CASE Prepares
  <2>1. UNCHANGED <<handles, rcv, snd, remote>> /\ started \subseteq started'
    BY <1>8, PrepareFacts DEF StreamInv, IInv
  <2> QED
    BY <1>1, <2>1, OtherData
<1> QED
  BY <1>2, <1>3, <1>4, <1>5, <1>6, <1>7, <1>8
     DEF Next, Thread, Read, Write, Pipe, Main, Loop, Connect, Prepares, Clears

\* The chunks under way from one end of a connection to the other are, from the
\* send buffer back through DoWrite's packet, the queue, DoRead's packet and the
\* receive buffer, consecutive chunks of one stream (fdhandle.cpp:14-66).
THEOREM SpecStreamInv == Spec => []StreamInv
BY InitStreams, StepStreams, PTL DEF Spec

\* What an end has received is a prefix of what the other end of its connection
\* sent, for any number of connections, addresses and frames (fdhandle.cpp:14-66).
THEOREM SpecStreamIntegrity == Spec => []StreamIntegrity
<1>1. ASSUME StreamInv, NEW s \in Sock
      PROVE  /\ Len(got[s]) <= sentN[Other(s)]
             /\ \A j \in 1..Len(got[s]) : got[s][j] = <<Other(s), j>>
  BY <1>1 DEF StreamInv, Streams, EndInv, Run
<1>2. StreamInv => StreamIntegrity
  BY <1>1 DEF StreamIntegrity
<1> QED
  BY <1>2, SpecStreamInv, PTL

-----------------------------------------------------------------------------
(***************************************************************************)
(* Relay implements Link.  What is under way in one direction is spread    *)
(* over five buffers, but StreamInv makes it one stretch of one stream     *)
(* (WayIs): from the last chunk received to EndN.  A step of Link moves one *)
(* of the two bounds, a stutter moves neither.                             *)
(***************************************************************************)
Marks == Sock \X Int

\* The p chunks that follow the first n of the stream of t.
Stretch(t, n, p) == [i \in 1..p |-> <<t, n + i>>]

LEMMA StretchFacts ==
    ASSUME NEW t \in Sock, NEW n \in Int, NEW p \in Nat
    PROVE  /\ Stretch(t, n, p) \in Seq(Marks) /\ Len(Stretch(t, n, p)) = p
           /\ \A i \in 1..p : Stretch(t, n, p)[i] = <<t, n + i>>
<1>1. Stretch(t, n, p) \in [1..p -> Marks]
  BY DEF Stretch, Marks
<1>2. \A i \in 1..p : Stretch(t, n, p)[i] = <<t, n + i>>
  BY DEF Stretch
<1> QED
  BY <1>1, <1>2

\* Sequences are equal when their lengths and their elements are.
LEMMA SameSeq ==
    ASSUME NEW a \in Seq(Marks), NEW b \in Seq(Marks), Len(a) = Len(b),
           \A i \in 1..Len(a) : a[i] = b[i]
    PROVE  a = b
OBVIOUS

LEMMA StretchEmpty ==
    ASSUME NEW t \in Sock, NEW n \in Int PROVE Stretch(t, n, 0) = <<>>
<1>1. Stretch(t, n, 0) \in Seq(Marks) /\ Len(Stretch(t, n, 0)) = 0
  BY StretchFacts
<1> QED
  BY <1>1

LEMMA RunStretch ==
    ASSUME NEW w \in Seq(Chunk), NEW t, NEW n \in Int, Run(w, t, n)
    PROVE  w = Stretch(t, n, Len(w))
<1>1. w = [i \in 1..Len(w) |-> w[i]]
  OBVIOUS
<1> QED
  BY <1>1 DEF Stretch, Run

LEMMA StretchJoin ==
    ASSUME NEW t \in Sock, NEW n \in Int, NEW p \in Nat, NEW q \in Nat
    PROVE  Stretch(t, n, p) \o Stretch(t, n + p, q) = Stretch(t, n, p + q)
<1>1. PICK a : a = Stretch(t, n, p)
  OBVIOUS
<1>2. PICK b : b = Stretch(t, n + p, q)
  OBVIOUS
<1>3. PICK c : c = Stretch(t, n, p + q)
  OBVIOUS
<1>4. a \in Seq(Marks) /\ Len(a) = p /\ \A i \in 1..p : a[i] = <<t, n + i>>
  BY <1>1, StretchFacts
<1>5. b \in Seq(Marks) /\ Len(b) = q /\ \A i \in 1..q : b[i] = <<t, (n + p) + i>>
  BY <1>2, StretchFacts
<1>6. c \in Seq(Marks) /\ Len(c) = p + q
      /\ \A i \in 1..(p + q) : c[i] = <<t, n + i>>
  <2>1. p + q \in Nat
    OBVIOUS
  <2> QED
    BY <1>3, <2>1, StretchFacts
<1>7. /\ a \o b \in Seq(Marks) /\ Len(a \o b) = p + q
      /\ \A i \in 1..(p + q) : (a \o b)[i] = IF i <= p THEN a[i] ELSE b[i - p]
  BY <1>4, <1>5, ConcatProperties
<1>8. ASSUME NEW i \in 1..(p + q) PROVE (a \o b)[i] = c[i]
  <2>1. CASE i <= p
    <3>1. i \in 1..p /\ (a \o b)[i] = a[i]
      BY <1>7, <2>1
    <3> QED
      BY <1>4, <1>6, <3>1
  <2>2. CASE ~(i <= p)
    <3>1. i - p \in 1..q /\ (n + p) + (i - p) = n + i
      BY <2>2
    <3>2. (a \o b)[i] = b[i - p]
      BY <1>7, <2>2
    <3>3. b[i - p] = <<t, n + i>>
      BY <1>5, <3>1
    <3> QED
      BY <1>6, <3>2, <3>3
  <2> QED
    BY <2>1, <2>2
<1>9. a \o b = c
  BY <1>6, <1>7, <1>8, SameSeq
<1> QED
  BY <1>1, <1>2, <1>3, <1>9

LEMMA StretchSub ==
    ASSUME NEW t \in Sock, NEW n \in Int, NEW p \in Nat, NEW q \in Nat, q <= p
    PROVE  SubSeq(Stretch(t, n, p), 1, q) = Stretch(t, n, q)
<1>1. PICK a : a = Stretch(t, n, p)
  OBVIOUS
<1>2. PICK b : b = Stretch(t, n, q)
  OBVIOUS
<1>3. a \in Seq(Marks) /\ Len(a) = p /\ \A i \in 1..p : a[i] = <<t, n + i>>
  BY <1>1, StretchFacts
<1>4. b \in Seq(Marks) /\ Len(b) = q /\ \A i \in 1..q : b[i] = <<t, n + i>>
  BY <1>2, StretchFacts
<1>5. /\ SubSeq(a, 1, q) \in Seq(Marks) /\ Len(SubSeq(a, 1, q)) = q
      /\ \A i \in 1..q : SubSeq(a, 1, q)[i] = a[i]
  BY <1>3
<1>6. ASSUME NEW i \in 1..q PROVE SubSeq(a, 1, q)[i] = b[i]
  <2>1. i \in 1..p
    OBVIOUS
  <2> QED
    BY <1>3, <1>4, <1>5, <2>1
<1>7. SubSeq(a, 1, q) = b
  BY <1>4, <1>5, <1>6, SameSeq
<1> QED
  BY <1>1, <1>2, <1>7

LEMMA StretchAppend ==
    ASSUME NEW t \in Sock, NEW n \in Int, NEW p \in Nat
    PROVE  Append(Stretch(t, n, p), <<t, n + p + 1>>) = Stretch(t, n, p + 1)
<1>1. PICK a : a = Stretch(t, n, p)
  OBVIOUS
<1>2. PICK b : b = Stretch(t, n, p + 1)
  OBVIOUS
<1>3. PICK x : x = <<t, n + p + 1>>
  OBVIOUS
<1>4. a \in Seq(Marks) /\ Len(a) = p /\ \A i \in 1..p : a[i] = <<t, n + i>>
  BY <1>1, StretchFacts
<1>5. b \in Seq(Marks) /\ Len(b) = p + 1
      /\ \A i \in 1..(p + 1) : b[i] = <<t, n + i>>
  <2>1. p + 1 \in Nat
    OBVIOUS
  <2> QED
    BY <1>2, <2>1, StretchFacts
<1>6. x \in Marks /\ b[p + 1] = x
  <2>1. p + 1 \in 1..(p + 1) /\ n + (p + 1) = n + p + 1 /\ n + p + 1 \in Int
    OBVIOUS
  <2> QED
    BY <1>3, <1>5, <2>1 DEF Marks
<1>7. /\ Append(a, x) \in Seq(Marks) /\ Len(Append(a, x)) = p + 1
      /\ \A i \in 1..p : Append(a, x)[i] = a[i]
      /\ Append(a, x)[p + 1] = x
  BY <1>4, <1>6
<1>8. ASSUME NEW i \in 1..(p + 1) PROVE Append(a, x)[i] = b[i]
  <2>0. i \in 1..p \/ i = p + 1
    OBVIOUS
  <2>1. CASE i \in 1..p
    BY <1>4, <1>5, <1>7, <2>1
  <2>2. CASE i = p + 1
    BY <1>6, <1>7, <2>2
  <2> QED
    BY <2>0, <2>1, <2>2
<1>9. Append(a, x) = b
  BY <1>5, <1>7, <1>8, SameSeq
<1> QED
  BY <1>1, <1>2, <1>3, <1>9

LEMMA StretchTail ==
    ASSUME NEW t \in Sock, NEW n \in Int, NEW p \in Nat
    PROVE  /\ Stretch(t, n, p + 1) # <<>>
           /\ Head(Stretch(t, n, p + 1)) = <<t, n + 1>>
           /\ Tail(Stretch(t, n, p + 1)) = Stretch(t, n + 1, p)
<1>1. PICK a : a = Stretch(t, n, p + 1)
  OBVIOUS
<1>2. PICK b : b = Stretch(t, n + 1, p)
  OBVIOUS
<1>3. a \in Seq(Marks) /\ Len(a) = p + 1
      /\ \A i \in 1..(p + 1) : a[i] = <<t, n + i>>
  <2>1. p + 1 \in Nat
    OBVIOUS
  <2> QED
    BY <1>1, <2>1, StretchFacts
<1>4. b \in Seq(Marks) /\ Len(b) = p
      /\ \A i \in 1..p : b[i] = <<t, (n + 1) + i>>
  BY <1>2, StretchFacts
<1>5. /\ a # <<>> /\ Head(a) = a[1] /\ Tail(a) \in Seq(Marks) /\ Len(Tail(a)) = p
      /\ \A i \in 1..p : Tail(a)[i] = a[i + 1]
  BY <1>3
<1>6. ASSUME NEW i \in 1..p PROVE Tail(a)[i] = b[i]
  <2>1. i + 1 \in 1..(p + 1) /\ n + (i + 1) = (n + 1) + i
    OBVIOUS
  <2> QED
    BY <1>3, <1>4, <1>5, <2>1
<1>7. Tail(a) = b
  BY <1>4, <1>5, <1>6, SameSeq
<1>8. Head(a) = <<t, n + 1>>
  BY <1>3, <1>5
<1> QED
  BY <1>1, <1>2, <1>5, <1>7, <1>8

LEMMA AbsStretch ==
    ASSUME NEW t \in Sock, NEW n \in Int, NEW p \in Nat
    PROVE  Abs(Stretch(t, n, p)) = Stretch(Other(t), n, p)
<1>1. DOMAIN Stretch(t, n, p) = 1..p
  BY DEF Stretch
<1>2. \A i \in 1..p : Stretch(t, n, p)[i] = <<t, n + i>>
  BY DEF Stretch
<1>3. Abs(Stretch(t, n, p)) = [i \in 1..p |-> <<Other(t), n + i>>]
  BY <1>1, <1>2 DEF Abs
<1> QED
  BY <1>3 DEF Stretch

\* The least number with a property: what stands for induction here.
LEMMA Least ==
    ASSUME NEW T, T \subseteq Nat, T # {}
    PROVE  \E k \in T : \A j \in T : ~(j < k)
<1>1. PICK k \in T : \A j \in T : ~(<<j, k>> \in OpToRel(<, Nat))
  BY NatLessThanWellFounded, WFMin
<1>2. \A j \in T : j < k => <<j, k>> \in OpToRel(<, Nat)
  BY DEF OpToRel
<1> QED
  BY <1>1, <1>2

\* The frames of a queue follow each other, so none begins before the first.
LEMMA ChainRise ==
    ASSUME NEW n \in Nat, NEW hi \in Int, NEW at \in [1..(n + 1) -> 0..hi],
           \A k \in 1..n : at[k] <= at[k + 1]
    PROVE  \A k \in 1..(n + 1) : at[1] <= at[k]
<1> DEFINE T == {k \in Nat : k \in 1..(n + 1) /\ ~(at[1] <= at[k])}
<1>1. T = {}
  <2> SUFFICES ASSUME T # {} PROVE FALSE
    OBVIOUS
  <2>1. PICK k \in T : \A j \in T : ~(j < k)
    BY Least
  <2>2. k \in 1..(n + 1) /\ ~(at[1] <= at[k]) /\ 1 \in 1..(n + 1)
    BY <2>1
  <2>3. at[1] \in Int /\ at[k] \in Int /\ k # 1
    BY <2>2
  <2>4. k - 1 \in Nat /\ k - 1 \in 1..n /\ k - 1 \in 1..(n + 1) /\ (k - 1) + 1 = k
        /\ k - 1 < k
    BY <2>2, <2>3
  <2>5. at[1] <= at[k - 1]
    BY <2>1, <2>4
  <2>6. at[k - 1] <= at[k] /\ at[k - 1] \in Int
    BY <2>4
  <2> QED
    BY <2>2, <2>3, <2>5, <2>6
<1> QED
  BY <1>1

\* FlattenSeq chooses the function that joins the first i sequences of q.
Flat(f, q) ==
    f = [i \in 1..Len(q) |-> IF i = 1 THEN q[i] ELSE f[i-1] \o q[i]]

LEMMA FlatFacts ==
    ASSUME NEW q \in Seq(Seq(Chunk) \ {<<>>}), NEW f, Flat(f, q)
    PROVE  /\ Len(q) >= 1 => f[1] = q[1]
           /\ \A i \in 2..Len(q) : f[i] = f[i-1] \o q[i]
<1> DEFINE g(h) == [i \in 1..Len(q) |-> IF i = 1 THEN q[i] ELSE h[i-1] \o q[i]]
<1>1. f = g(f)
  BY DEF Flat
<1>2. \A i \in 1..Len(q) : f[i] = IF i = 1 THEN q[i] ELSE f[i-1] \o q[i]
  <2>1. \A i \in 1..Len(q) : g(f)[i] = IF i = 1 THEN q[i] ELSE f[i-1] \o q[i]
    OBVIOUS
  <2> HIDE DEF g
  <2> QED
    BY <1>1, <2>1
<1>3. Len(q) \in Nat
  OBVIOUS
<1>4. ASSUME Len(q) >= 1 PROVE f[1] = q[1]
  BY <1>2, <1>3, <1>4
<1>5. ASSUME NEW i \in 2..Len(q) PROVE f[i] = f[i-1] \o q[i]
  <2>1. i \in 1..Len(q) /\ i # 1
    BY <1>3
  <2> QED
    BY <1>2, <2>1
<1> QED
  BY <1>4, <1>5

LEMMA FlattenStretch ==
    ASSUME NEW q \in Seq(Seq(Chunk) \ {<<>>}), NEW t \in Sock, NEW lo \in Nat,
           NEW hi \in Int, Chain(q, t, lo, hi)
    PROVE  lo <= hi /\ FlattenSeq(q) = Stretch(t, lo, hi - lo)
<1> DEFINE n == Len(q)
<1>1. PICK at \in [1..(n + 1) -> 0..hi] :
        /\ at[1] = lo /\ at[n + 1] = hi
        /\ \A k \in 1..n : Run(q[k], t, at[k]) /\ at[k + 1] = at[k] + Len(q[k])
  BY DEF Chain
<1>2. n \in Nat /\ \A k \in 1..n : q[k] \in Seq(Chunk) /\ Len(q[k]) \in Nat
  OBVIOUS
<1>3. CASE n = 0
  <2>1. q = <<>> /\ lo = hi
    BY <1>1, <1>3
  <2> QED
    BY <1>3, <2>1, StretchEmpty DEF FlattenSeq
<1>4. CASE n # 0
  <2> DEFINE g == [i \in 1..n |-> Stretch(t, lo, at[i + 1] - lo)]
             f == CHOOSE x : Flat(x, q)
  <2> HIDE DEF n
  <2>1. \A k \in 1..(n + 1) : at[k] \in Int /\ lo <= at[k]
    <3>1. ASSUME NEW k \in 1..n PROVE at[k] <= at[k + 1]
      <4>1. k \in 1..(n + 1) /\ at[k] \in Int /\ Len(q[k]) \in Nat
        BY <1>2
      <4>2. at[k + 1] = at[k] + Len(q[k])
        BY <1>1
      <4> QED
        BY <4>1, <4>2
    <3>2. \A k \in 1..(n + 1) : at[1] <= at[k]
      BY <1>2, <3>1, ChainRise
    <3> QED
      BY <1>1, <3>2
  <2>2. ASSUME NEW i \in 1..n
        PROVE  g[i] = IF i = 1 THEN q[i] ELSE g[i-1] \o q[i]
    <3>1. i + 1 \in 1..(n + 1) /\ i \in 1..(n + 1)
      BY <1>2
    <3>2. PICK a \in Int : a = at[i]
      BY <2>1, <3>1
    <3>3. PICK b \in Int : b = at[i + 1]
      BY <2>1, <3>1
    <3>4. PICK l \in Nat : l = Len(q[i])
      BY <1>2
    <3>5. lo <= a /\ b = a + l /\ q[i] = Stretch(t, a, l)
      BY <1>1, <1>2, <2>1, <3>1, <3>2, <3>3, <3>4, RunStretch
    <3>6. g[i] = Stretch(t, lo, b - lo)
      BY <3>3
    <3>7. CASE i = 1
      <4>1. a = lo /\ b - lo = l
        BY <1>1, <3>2, <3>5, <3>7
      <4> QED
        BY <3>5, <3>6, <3>7, <4>1
    <3>8. CASE i # 1
      <4>1. i - 1 \in 1..n /\ (i - 1) + 1 = i
        BY <1>2, <3>8
      <4>2. g[i-1] = Stretch(t, lo, a - lo)
        BY <3>2, <4>1
      <4>3. a - lo \in Nat /\ lo + (a - lo) = a /\ (a - lo) + l = b - lo
        BY <3>5
      <4>4. Stretch(t, lo, a - lo) \o Stretch(t, a, l) = Stretch(t, lo, b - lo)
        <5>1. PICK p \in Nat : p = a - lo
          BY <4>3
        <5>0. lo \in Int
          OBVIOUS
        <5>2. Stretch(t, lo, p) \o Stretch(t, lo + p, l) = Stretch(t, lo, p + l)
          BY <5>0, StretchJoin
        <5> QED
          BY <4>3, <5>1, <5>2
      <4> QED
        BY <3>5, <3>6, <3>8, <4>2, <4>4
    <3> QED
      BY <3>7, <3>8
  <2>3. \E x : Flat(x, q)
    <3>1. g = [i \in 1..n |-> g[i]]
      OBVIOUS
    <3> HIDE DEF g
    <3>2. g = [i \in 1..n |-> IF i = 1 THEN q[i] ELSE g[i-1] \o q[i]]
      BY <2>2, <3>1
    <3>3. Flat(g, q)
      BY <3>2 DEF Flat, n
    <3> QED
      BY <3>3
  <2>4. Flat(f, q)
    BY <2>3
  <2>5. f[1] = q[1] /\ \A i \in 2..n : f[i] = f[i-1] \o q[i]
    <3> HIDE DEF f
    <3>1. Len(q) >= 1 /\ n = Len(q)
      BY <1>2, <1>4 DEF n
    <3> QED
      BY <2>4, <3>1, FlatFacts
  <2>6. FlattenSeq(q) = f[n]
    <3>1. Len(q) # 0
      BY <1>4 DEF n
    <3> QED
      BY <3>1 DEF FlattenSeq, Flat, n
  <2> HIDE DEF f, g
  <2> DEFINE T == {k \in Nat : k \in 1..n /\ f[k] # g[k]}
  <2>7. T = {}
    <3> SUFFICES ASSUME T # {} PROVE FALSE
      OBVIOUS
    <3>1. PICK k \in T : \A j \in T : ~(j < k)
      BY Least
    <3>2. k \in 1..n /\ f[k] # g[k]
      BY <3>1
    <3>3. 1 \in 1..n /\ f[1] = g[1]
      BY <1>2, <1>4, <2>2, <2>5
    <3>4. k # 1
      BY <3>2, <3>3
    <3>5. k - 1 \in Nat /\ k - 1 \in 1..n /\ k - 1 < k /\ k \in 2..n
      BY <1>2, <3>2, <3>4
    <3>6. f[k-1] = g[k-1]
      BY <3>1, <3>5
    <3>7. f[k] = f[k-1] \o q[k] /\ g[k] = g[k-1] \o q[k]
      BY <2>2, <2>5, <3>2, <3>4, <3>5
    <3> QED
      BY <3>2, <3>6, <3>7
  <2>8. n \in 1..n /\ n + 1 \in 1..(n + 1)
    BY <1>2, <1>4
  <2>9. f[n] = g[n]
    BY <2>7, <2>8
  <2>10. g[n] = Stretch(t, lo, hi - lo)
    BY <1>1, <2>8 DEF g
  <2> QED
    BY <1>1, <2>1, <2>6, <2>8, <2>9, <2>10
<1> QED
  BY <1>3, <1>4

LEMMA JoinTo ==
    ASSUME NEW t \in Sock, NEW a \in Int, NEW b \in Int, NEW c \in Int,
           a <= b, b <= c
    PROVE  Stretch(t, a, b - a) \o Stretch(t, b, c - b) = Stretch(t, a, c - a)
<1>1. PICK p \in Nat : p = b - a
  OBVIOUS
<1>2. PICK q \in Nat : q = c - b
  OBVIOUS
<1>3. a + p = b /\ p + q = c - a
  BY <1>1, <1>2
<1>4. Stretch(t, a, p) \o Stretch(t, a + p, q) = Stretch(t, a, p + q)
  BY StretchJoin
<1> QED
  BY <1>1, <1>2, <1>3, <1>4

\* How far the chunks that will still arrive at the end of s reach.
EndN(s) ==
    IF Reset(s) THEN Len(got[s])
    ELSE IF Open(s) THEN sentN[Other(s)] ELSE WrittenN(s)

Way(s) == IF Reset(s) THEN <<>> ELSE Abs(UnderWay(s))

\* From the send buffer of s back to the receive buffer of the other socket.
LEMMA OpenWay ==
    ASSUME StreamInv, NEW s \in Sock, Open(s), ~Reset(s)
    PROVE  /\ Len(got[s]) <= sentN[Other(s)]
           /\ UnderWay(s) = Stretch(Other(s), Len(got[s]),
                                    sentN[Other(s)] - Len(got[s]))
<1> DEFINE h == HandleOf(s)
           p == partner[h]
<1>1. TypeOK /\ Paired /\ Streams
  BY DEF StreamInv, IInv
<1>2. h \in Handle /\ fd[h] = s
  BY DEF Open, HandleOf
<1> HIDE DEF h
<1>3. Live(h)
  BY <1>2, SockFacts DEF Live
<1>4. p \in Handle /\ Live(p) /\ fd[p] = Other(s)
  BY <1>1, <1>2, <1>3, PairFacts
<1>5. PICK t \in Sock : t = Other(s)
  BY SockFacts
<1>6. /\ snd[s] \in Seq(Chunk) /\ outSave[h] \in Seq(Chunk)
      /\ outQ[h] \in Seq(Seq(Chunk) \ {<<>>})
      /\ inSave[p] \in Seq(Chunk) /\ rcv[t] \in Seq(Chunk)
  BY <1>1, <1>2, <1>4, <1>5 DEF TypeOK
<1>7. PICK G \in Nat : G = Len(got[s])
  BY <1>1, <1>2, <1>3, Counts
<1>8. PICK W \in Nat : W = WrittenN(s)
  BY <1>1, <1>2, <1>3, Counts
<1>9. PICK a \in Nat : a = Len(outSave[h])
  BY <1>1, <1>2, <1>3, Counts
<1>10. PICK P \in Int : P = PassedN(p)
  BY <1>1, <1>2, <1>3, <1>4, Counts
<1>11. PICK b \in Nat : b = Len(inSave[p])
  BY <1>1, <1>4, Counts
<1>12. PICK N \in Nat : N = sentN[t]
  BY <1>1, <1>4, <1>5, Counts
<1>13. PICK c \in Nat : c = Len(rcv[t])
  BY <1>1, <1>4, <1>5, Counts
<1>14. W = G + Len(snd[s]) /\ Len(snd[s]) \in Nat
  BY <1>1, <1>2, <1>3, <1>7, <1>8, Counts DEF WrittenN
<1>15. ReadN(p) = N - c /\ P = (N - c) - b
  BY <1>4, <1>5, <1>10, <1>11, <1>12, <1>13 DEF ReadN, PassedN
<1>m. PICK M \in Nat : M = W + a
  OBVIOUS
<1>r. PICK R \in Int : R = N - c
  OBVIOUS
<1>16. snd[s] = Stretch(t, G, W - G)
  <2>1. Run(snd[s], t, G)
    BY <1>1, <1>5, <1>7 DEF Streams, EndInv
  <2>2. Len(snd[s]) = W - G /\ G \in Int
    BY <1>14
  <2> QED
    BY <1>6, <2>1, <2>2, RunStretch
<1>17. Run(outSave[h], t, W) /\ Chain(outQ[h], t, M, P)
  <2>1. OutInv(h)
    BY <1>1, <1>2, <1>3 DEF Streams
  <2> QED
    BY <1>2, <1>5, <1>8, <1>9, <1>10, <1>m, <2>1 DEF OutInv
<1>18. outSave[h] = Stretch(t, W, M - W)
  <2>1. Len(outSave[h]) = M - W /\ W \in Int
    BY <1>9, <1>m
  <2>2. outSave[h] = Stretch(t, W, Len(outSave[h]))
    BY <1>6, <1>17, <2>1, RunStretch
  <2> QED
    BY <2>1, <2>2, Zenon
<1>19. M <= P /\ FlattenSeq(outQ[h]) = Stretch(t, M, P - M)
  BY <1>6, <1>17, FlattenStretch
<1>20. Run(inSave[p], t, P) /\ Run(rcv[t], t, R)
  <2>1. InInv(p)
    BY <1>1, <1>4 DEF Streams
  <2> QED
    BY <1>4, <1>5, <1>10, <1>15, <1>r, <2>1 DEF InInv
<1>21. inSave[p] = Stretch(t, P, R - P)
  <2>1. Len(inSave[p]) = R - P
    BY <1>11, <1>15, <1>r
  <2>2. inSave[p] = Stretch(t, P, Len(inSave[p]))
    BY <1>6, <1>20, RunStretch
  <2> QED
    BY <2>1, <2>2, Zenon
<1>22. rcv[t] = Stretch(t, R, N - R)
  <2>1. Len(rcv[t]) = N - R
    BY <1>13, <1>r
  <2>2. rcv[t] = Stretch(t, R, Len(rcv[t]))
    BY <1>6, <1>20, RunStretch
  <2> QED
    BY <2>1, <2>2, Zenon
<1>23. snd[s] \o outSave[h] = Stretch(t, G, M - G)
  <2>0. PICK l \in Nat : W = G + l
    BY <1>14
  <2>1. G <= W /\ W <= M /\ G \in Int /\ W \in Int /\ M \in Int
    BY <1>m, <2>0
  <2>2. Stretch(t, G, W - G) \o Stretch(t, W, M - W)
          = Stretch(t, G, M - G)
    BY <2>1, JoinTo, ZenonT(40)
  <2> QED
    BY <1>16, <1>18, <2>2, Zenon
<1> DEFINE A == snd[s] \o outSave[h]
           B == A \o FlattenSeq(outQ[h])
           C == B \o inSave[p]
<1> HIDE DEF A
<1>24. B = Stretch(t, G, P - G)
  <2>1. G <= M /\ G \in Int /\ M \in Int
    BY <1>14, <1>m
  <2>2. Stretch(t, G, M - G) \o Stretch(t, M, P - M)
          = Stretch(t, G, P - G)
    BY <1>19, <2>1, JoinTo, ZenonT(40)
  <2>3. A = Stretch(t, G, M - G)
    BY <1>23 DEF A
  <2> QED
    BY <1>19, <2>2, <2>3
<1> HIDE DEF B
<1>25. G <= P /\ P <= R /\ R <= N /\ G <= R /\ G <= N
      /\ G \in Int /\ R \in Int /\ N \in Int
  BY <1>14, <1>15, <1>19, <1>m, <1>r
<1>26. C = Stretch(t, G, R - G)
  <2>0. G <= P /\ P <= R /\ G \in Int /\ R \in Int
    BY <1>25
  <2>1. Stretch(t, G, P - G) \o Stretch(t, P, R - P)
          = Stretch(t, G, R - G)
    BY <2>0, JoinTo, ZenonT(40)
  <2> QED
    BY <1>21, <1>24, <2>1, Zenon
<1> HIDE DEF C
<1>27. C \o rcv[t] = Stretch(t, G, N - G)
  <2>0. G <= R /\ R <= N /\ G \in Int /\ R \in Int /\ N \in Int
    BY <1>25
  <2>1. Stretch(t, G, R - G) \o Stretch(t, R, N - R)
          = Stretch(t, G, N - G)
    BY <2>0, JoinTo, ZenonT(40)
  <2> QED
    BY <1>22, <1>26, <2>1, Zenon
<1> QED
  BY <1>5, <1>7, <1>12, <1>25, <1>27 DEF UnderWay, h, A, B, C

LEMMA WayIs ==
    ASSUME StreamInv, NEW s \in Sock
    PROVE  /\ Len(got[s]) \in Nat /\ EndN(s) \in Nat /\ Len(got[s]) <= EndN(s)
           /\ Way(s) = Stretch(s, Len(got[s]), EndN(s) - Len(got[s]))
           /\ Abs(got[s]) = Stretch(s, 0, Len(got[s]))
<1>1. TypeOK /\ EndInv(s)
  BY DEF StreamInv, IInv, Streams
<1>2. PICK t \in Sock : t = Other(s) /\ Other(t) = s
  BY SockFacts
<1>3. got[s] \in Seq(Chunk) /\ snd[s] \in Seq(Chunk) /\ sentN[t] \in Nat
  BY <1>1 DEF TypeOK
<1>4. PICK G \in Nat : G = Len(got[s])
  BY <1>3
<1>5. PICK l \in Nat : l = Len(snd[s])
  BY <1>3
<1>6. Abs(got[s]) = Stretch(s, 0, G)
  <2>1. got[s] = Stretch(t, 0, G)
    BY <1>1, <1>2, <1>3, <1>4, RunStretch DEF EndInv
  <2> QED
    BY <1>2, <2>1, AbsStretch
<1>7. CASE Reset(s)
  <2>1. Way(s) = <<>> /\ EndN(s) = G /\ G - G = 0
    BY <1>4, <1>7 DEF Way, EndN
  <2> QED
    BY <1>4, <1>6, <2>1, StretchEmpty
<1>8. CASE ~Reset(s) /\ Open(s)
  <2>1. Way(s) = Abs(UnderWay(s)) /\ EndN(s) = sentN[t]
    BY <1>2, <1>8 DEF Way, EndN
  <2>2. G <= sentN[t] /\ UnderWay(s) = Stretch(t, G, sentN[t] - G)
    BY <1>2, <1>4, <1>8, OpenWay
  <2>3. sentN[t] - G \in Nat
    BY <1>3, <2>2
  <2>4. Abs(Stretch(t, G, sentN[t] - G)) = Stretch(s, G, sentN[t] - G)
    BY <1>2, <2>3, AbsStretch
  <2> QED
    BY <1>3, <1>4, <1>6, <2>1, <2>2, <2>4
<1>9. CASE ~Reset(s) /\ ~Open(s)
  <2>1. Way(s) = Abs(snd[s]) /\ EndN(s) = G + l
    BY <1>4, <1>5, <1>9 DEF Way, EndN, UnderWay, WrittenN
  <2>2. snd[s] = Stretch(t, G, l)
    BY <1>1, <1>2, <1>3, <1>4, <1>5, <1>9, RunStretch DEF EndInv
  <2>3. Way(s) = Stretch(s, G, l) /\ (G + l) - G = l /\ G <= G + l /\ G + l \in Nat
    BY <1>2, <2>1, <2>2, AbsStretch
  <2> QED
    BY <1>4, <1>6, <2>1, <2>3
<1> QED
  BY <1>7, <1>8, <1>9

\* The variables of Link.
LSent == [s \in Sock |-> sentN[Other(s)]]
LWay  == [s \in Sock |-> Way(s)]
LGot  == [s \in Sock |-> Abs(got[s])]
LCut  == [s \in Sock |-> Severed(s)]

LEMMA LinkVars == UNCHANGED <<LSent, LWay, LGot, LCut>> => UNCHANGED L!vars
BY DEF L!vars, LSent, LWay, LGot, LCut, Way

LEMMA LinkInit ==
    LSent = [d \in Sock |-> 0] /\ LWay = [d \in Sock |-> <<>>]
      /\ LGot = [d \in Sock |-> <<>>] /\ LCut = [d \in Sock |-> FALSE]
    => L!Init
BY DEF L!Init, LSent, LWay, LGot, LCut, Way

LEMMA LinkSend ==
    ASSUME NEW d \in Sock,
           LSent[d] < Len(Script[Other(d)]),
           LSent' = [LSent EXCEPT ![d] = LSent[d] + 1],
           LWay' = [LWay EXCEPT ![d] = IF LCut[d] THEN LWay[d]
                                       ELSE Append(LWay[d], <<d, LSent[d] + 1>>)],
           LGot' = LGot, LCut' = LCut
    PROVE  L!Send(d)
BY DEF L!Send, LSent, LWay, LGot, LCut, Way

LEMMA LinkDeliver ==
    ASSUME NEW d \in Sock, LWay[d] # <<>>,
           LGot' = [LGot EXCEPT ![d] = Append(LGot[d], Head(LWay[d]))],
           LWay' = [LWay EXCEPT ![d] = Tail(LWay[d])],
           LSent' = LSent, LCut' = LCut
    PROVE  L!Deliver(d)
BY DEF L!Deliver, LSent, LWay, LGot, LCut, Way

LEMMA LinkCut ==
    ASSUME NEW D \in SUBSET Sock, NEW keep \in [D -> Nat],
           \A d \in D : keep[d] <= Len(LWay[d]) /\ keep[d] <= Len(Script[Other(d)]),
           LWay' = [d \in Sock |-> IF d \in D THEN SubSeq(LWay[d], 1, keep[d])
                                   ELSE LWay[d]],
           LCut' = [d \in Sock |-> LCut[d] \/ d \in D],
           LSent' = LSent, LGot' = LGot
    PROVE  L!Cut(D)
<1>1. keep \in [D -> L!Amount]
  <2>1. ASSUME NEW d \in D PROVE keep[d] \in L!Amount
    <3>1. Other(d) \in Sock /\ Len(Script[Other(d)]) \in Nat
      BY RelayAssumption, SockFacts
    <3>2. keep[d] \in 0..Len(Script[Other(d)])
      BY <3>1
    <3> QED
      BY <3>2 DEF L!Amount
  <2> QED
    BY <2>1
<1>2. \A d \in D : keep[d] <= Len(LWay[d])
  OBVIOUS
<1> QED
  BY <1>1, <1>2 DEF L!Cut, LSent, LWay, LGot, LCut, Way

\* What WayIs says of every socket, before and after a step.
Ways ==
    \A s \in Sock :
        /\ Len(got[s]) \in Nat /\ EndN(s) \in Nat /\ Len(got[s]) <= EndN(s)
        /\ Way(s) = Stretch(s, Len(got[s]), EndN(s) - Len(got[s]))
        /\ Abs(got[s]) = Stretch(s, 0, Len(got[s]))

LEMMA AllWays == StreamInv => Ways
BY WayIs DEF Ways

LEMMA NextWays == StreamInv' => Ways'
BY AllWays, PTL

LEMMA EndNext ==
    ASSUME NEW s
    PROVE  EndN(s)' = IF peer'[s] \in {"rst", "finrst"} THEN Len(got'[s])
                      ELSE IF \E h \in Handle : fd'[h] = s THEN sentN'[Other(s)]
                      ELSE Len(got'[s]) + Len(snd'[s])
BY DEF EndN, Reset, Open, WrittenN

LEMMA SeveredNext ==
    ASSUME NEW s
    PROVE  Severed(s)' <=> \/ peer'[s] \in {"rst", "finrst"}
                           \/ s[1] \in started' /\ ~\E h \in Handle : fd'[h] = s
BY DEF Severed, Reset, Open

\* The chunks under way at the end of a step, from how far they reach.
LEMMA SameWay ==
    ASSUME Ways, Ways', NEW s \in Sock, got'[s] = got[s], EndN(s)' = EndN(s)
    PROVE  Way(s)' = Way(s) /\ Abs(got[s])' = Abs(got[s])
<1>1. Len(got'[s]) = Len(got[s])
  OBVIOUS
<1>2. /\ Way(s) = Stretch(s, Len(got[s]), EndN(s) - Len(got[s]))
      /\ Abs(got[s]) = Stretch(s, 0, Len(got[s]))
  BY DEF Ways
<1>3. /\ Way(s)' = Stretch(s, Len(got'[s]), EndN(s)' - Len(got'[s]))
      /\ Abs(got[s])' = Stretch(s, 0, Len(got'[s]))
  BY DEF Ways, Stretch
<1> QED
  BY <1>1, <1>2, <1>3

LEMMA SameCut ==
    ASSUME NEW D \in SUBSET Sock,
           \A s \in Sock : Severed(s)' <=> Severed(s) \/ s \in D
    PROVE  LCut' = [d \in Sock |-> LCut[d] \/ d \in D]
<1>1. \A s \in Sock : Severed(s) \in BOOLEAN /\ Severed(s)' \in BOOLEAN
  BY DEF Severed
<1>2. \A s \in Sock : Severed(s)' = (Severed(s) \/ s \in D)
  BY <1>1
<1> QED
  BY <1>2 DEF LCut

LEMMA SameCuts ==
    ASSUME \A s \in Sock : Severed(s)' <=> Severed(s)
    PROVE  LCut' = LCut
<1>1. \A s \in Sock : Severed(s) \in BOOLEAN /\ Severed(s)' \in BOOLEAN
  BY DEF Severed
<1>2. \A s \in Sock : Severed(s)' = Severed(s)
  BY <1>1
<1> QED
  BY <1>2 DEF LCut

\* A step that moves chunks within the proxy.
LEMMA LinkStutter ==
    ASSUME Ways, Ways',
           \A s \in Sock : /\ got'[s] = got[s] /\ sentN'[s] = sentN[s]
                           /\ EndN(s)' = EndN(s) /\ (Severed(s)' <=> Severed(s))
    PROVE  UNCHANGED L!vars
<1>1. \A s \in Sock : Other(s) \in Sock
  BY SockFacts
<1>2. LSent' = LSent
  BY <1>1 DEF LSent
<1>3. \A s \in Sock : Way(s)' = Way(s) /\ Abs(got[s])' = Abs(got[s])
  BY SameWay
<1>4. LWay' = LWay /\ LGot' = LGot
  BY <1>3 DEF LWay, LGot
<1>5. LCut' = LCut
  BY SameCuts
<1> QED
  BY <1>2, <1>4, <1>5, LinkVars

LEMMA QuietLink ==
    ASSUME Ways, Ways', fd' = fd, UNCHANGED <<sentN, got, started>>,
           \A s \in Sock : peer'[s] \in {"rst", "finrst"} <=> Reset(s),
           \A s \in Sock : ~Open(s) => snd'[s] = snd[s]
    PROVE  UNCHANGED L!vars
<1>1. ASSUME NEW s \in Sock PROVE EndN(s)' = EndN(s)
  BY EndNext DEF EndN, Open, WrittenN
<1>2. ASSUME NEW s \in Sock PROVE Severed(s)' <=> Severed(s)
  BY SeveredNext DEF Severed, Open
<1> QED
  BY <1>1, <1>2, LinkStutter

\* A new connection: nothing has been sent on it.
LEMMA HandoverLink ==
    ASSUME StreamInv, Ways, Ways', Handover
    PROVE  UNCHANGED L!vars
<1>1. TypeOK /\ Contained /\ Apart /\ Streams
  BY DEF StreamInv, IInv
<1>2. PICK c \in Pair, hs \in Handle, hc \in Handle :
        /\ hs # hc /\ ~Live(hs) /\ ~Live(hc)
        /\ c \notin started /\ started' = started \cup {c}
        /\ fd' = [fd EXCEPT ![hs] = <<c, "S">>, ![hc] = <<c, "C">>]
        /\ partner' = [partner EXCEPT ![hs] = hc, ![hc] = hs]
        /\ UNCHANGED <<inSave, outSave, outQ, rcv, snd, remote>>
  BY <1>1, HandoverFacts
<1>3. /\ fd'[hs] = <<c, "S">> /\ fd'[hc] = <<c, "C">>
      /\ \A g \in Handle \ {hs, hc} : fd'[g] = fd[g]
  BY <1>1, <1>2 DEF TypeOK
<1>4. c \notin started /\ started' = started \cup {c} /\ UNCHANGED <<snd, remote>>
  BY <1>2
<1>5. ASSUME NEW s \in Sock, s[1] # c
      PROVE  EndN(s)' = EndN(s) /\ (Severed(s)' <=> Severed(s))
  <2>1. (\E h \in Handle : fd'[h] = s) <=> Open(s)
    <3>1. fd[hs] # s /\ fd[hc] # s
      BY <1>2, SockFacts DEF Live
    <3>2. fd'[hs] # s /\ fd'[hc] # s
      BY <1>3, <1>5
    <3> QED
      BY <1>3, <3>1, <3>2 DEF Open
  <2>2. s[1] \in started' <=> s[1] \in started
    BY <1>4, <1>5
  <2> QED
    BY <1>4, <2>1, <2>2, EndNext, SeveredNext
       DEF EndN, Severed, Reset, WrittenN, remote
<1>6. ASSUME NEW s \in Sock, s[1] = c
      PROVE  EndN(s)' = EndN(s) /\ (Severed(s)' <=> Severed(s))
  <2>1. \E h \in Handle : fd'[h] = s
    BY <1>3, <1>6 DEF Sock, Side
  <2>2. ~Open(s) /\ s[1] \notin started
    <3>1. ASSUME NEW h \in Handle, fd[h] = s PROVE FALSE
      BY <1>1, <1>4, <1>6, <3>1, SockFacts DEF Contained, Live
    <3> QED
      BY <1>4, <1>6, <3>1 DEF Open
  <2>3. Other(s) \in Sock /\ Other(s)[1] = c
    BY <1>6, SockFacts DEF Other
  <2>4. sentN[Other(s)] = 0 /\ got[s] = <<>> /\ snd[s] = <<>>
    BY <1>1, <1>4, <1>6, <2>3 DEF Streams, EndInv
  <2>5. Len(got[s]) = 0 /\ Len(snd[s]) = 0 /\ 0 + 0 = 0
    BY <2>4, EmptyType
  <2>6. EndN(s) = 0
    BY <2>2, <2>5 DEF EndN, WrittenN
  <2>7. EndN(s)' = 0
    BY <1>4, <2>1, <2>4, <2>5, EndNext DEF remote
  <2> QED
    BY <1>4, <2>1, <2>2, <2>6, <2>7, SeveredNext DEF Severed, Reset, remote
<1> QED
  BY <1>4, <1>5, <1>6, LinkStutter DEF remote

\* A remote end sends its next chunk: it enters the link of the other socket.
LEMMA SendLink ==
    ASSUME StreamInv, Ways, Ways', NEW t \in Sock, PeerSend(t)
    PROVE  L!Send(Other(t))
<1>1. PICK d \in Sock : d = Other(t) /\ Other(d) = t /\ d # t
  BY SockFacts
<1>2. TypeOK /\ Paired
  BY DEF StreamInv, IInv
<1>3. Open(d)
  <2>1. PICK h \in Handle : fd[h] = t
    BY DEF PeerSend, Up, Open
  <2>2. Live(h)
    BY <2>1, SockFacts DEF Live
  <2> QED
    BY <1>1, <1>2, <2>1, <2>2, PairFacts DEF Open
<1>4. /\ sentN[t] \in Nat /\ sentN[t] < Len(Script[t])
      /\ sentN'[t] = sentN[t] + 1
      /\ \A s \in Sock \ {t} : sentN'[s] = sentN[s]
      /\ UNCHANGED <<fd, snd, peer, got, started>>
  BY <1>2 DEF PeerSend, TypeOK, handles
<1>5. ASSUME NEW s \in Sock, s # d PROVE sentN'[Other(s)] = sentN[Other(s)]
  <2>1. Other(s) \in Sock /\ Other(s) # t
    BY <1>1, <1>5, SockFacts
  <2> QED
    BY <1>4, <2>1
<1>6. ASSUME NEW s \in Sock, s # d \/ Reset(s) PROVE EndN(s)' = EndN(s)
  BY <1>4, <1>5, <1>6, EndNext DEF EndN, Reset, Open, WrittenN
<1>7. LSent' = [LSent EXCEPT ![d] = LSent[d] + 1] /\ LSent[d] = sentN[t]
  BY <1>1, <1>4, <1>5 DEF LSent
<1>8. LGot' = LGot
  BY <1>4 DEF LGot, Abs
<1>9. \A s \in Sock : Severed(s)' <=> Severed(s)
  BY <1>4, SeveredNext DEF Severed, Reset, Open
<1>10. LCut' = LCut /\ (LCut[d] <=> Reset(d))
  BY <1>3, <1>9, SameCuts DEF LCut, Severed
<1>11. LWay' = [LWay EXCEPT ![d] = IF LCut[d] THEN LWay[d]
                                   ELSE Append(LWay[d], <<d, LSent[d] + 1>>)]
  <2>1. \A s \in Sock \ {d} : Way(s)' = Way(s)
    BY <1>4, <1>6, SameWay
  <2>2. CASE Reset(d)
    <3>1. Way(d)' = Way(d)
      BY <1>4, <1>6, <2>2, SameWay
    <3> QED
      BY <1>10, <2>1, <2>2, <3>1 DEF LWay
  <2>3. CASE ~Reset(d)
    <3>1. PICK G \in Nat : G = Len(got[d])
      BY DEF Ways
    <3>2. PICK N \in Nat : N = sentN[t]
      BY <1>4
    <3>3. EndN(d) = N /\ EndN(d)' = N + 1
      BY <1>1, <1>3, <1>4, <2>3, <3>2, EndNext DEF EndN, Reset, Open
    <3>4. G <= N /\ Way(d) = Stretch(d, G, N - G)
      BY <3>1, <3>3 DEF Ways
    <3>5. Way(d)' = Stretch(d, G, (N + 1) - G)
      BY <1>4, <3>1, <3>3 DEF Ways, Stretch
    <3>6. PICK p \in Nat : p = N - G
      BY <3>4
    <3>7. (N + 1) - G = p + 1 /\ N + 1 = G + p + 1 /\ G \in Int
      BY <3>6
    <3>8. Append(Stretch(d, G, p), <<d, G + p + 1>>) = Stretch(d, G, p + 1)
      BY <3>7, StretchAppend
    <3>9. Way(d)' = Append(Way(d), <<d, N + 1>>)
      BY <3>4, <3>5, <3>6, <3>7, <3>8
    <3>10. LSent[d] + 1 = N + 1 /\ ~LCut[d]
      BY <1>7, <1>10, <2>3, <3>2
    <3> QED
      BY <2>1, <3>9, <3>10 DEF LWay
  <2> QED
    BY <2>2, <2>3
<1>12. LSent[d] < Len(Script[Other(d)])
  BY <1>1, <1>4, <1>7
<1> QED
  BY <1>1, <1>7, <1>8, <1>10, <1>11, <1>12, LinkSend

\* A remote end receives a chunk: it leaves the link.
LEMMA RecvLink ==
    ASSUME StreamInv, Ways, Ways', NEW d \in Sock, PeerRecv(d)
    PROVE  L!Deliver(d)
<1>1. TypeOK
  BY DEF StreamInv, IInv
<1>2. /\ ~Reset(d) /\ snd[d] # <<>>
      /\ got'[d] = Append(got[d], Head(snd[d])) /\ snd'[d] = Tail(snd[d])
      /\ \A s \in Sock \ {d} : got'[s] = got[s] /\ snd'[s] = snd[s]
      /\ UNCHANGED <<fd, peer, sentN, started>>
  BY <1>1 DEF PeerRecv, TypeOK, handles
<1>3. PICK G \in Nat : G = Len(got[d])
  BY DEF Ways
<1>4. PICK E \in Nat : E = EndN(d)
  BY DEF Ways
<1>5. /\ Len(got'[d]) = G + 1 /\ Len(snd[d]) \in Nat
      /\ Len(snd'[d]) = Len(snd[d]) - 1
  <2>1. got[d] \in Seq(Chunk) /\ snd[d] \in Seq(Chunk)
    BY <1>1 DEF TypeOK
  <2>2. Head(snd[d]) \in Chunk
    BY <1>2, <2>1, HeadTail
  <2>3. Len(Append(got[d], Head(snd[d]))) = Len(got[d]) + 1
    BY <2>1, <2>2, AppendType
  <2>4. Len(snd[d]) \in Nat /\ Len(Tail(snd[d])) = Len(snd[d]) - 1
    BY <1>2, <2>1
  <2> QED
    BY <1>2, <1>3, <2>3, <2>4
<1>6. EndN(d)' = E
  <2>1. CASE Open(d)
    BY <1>2, <1>4, <2>1, EndNext DEF EndN, Reset, Open
  <2>2. CASE ~Open(d)
    <3>1. E = G + Len(snd[d])
      BY <1>2, <1>3, <1>4, <2>2 DEF EndN, WrittenN
    <3>2. EndN(d)' = Len(got'[d]) + Len(snd'[d])
      BY <1>2, <2>2, EndNext DEF Reset, Open
    <3>3. Len(got'[d]) + Len(snd'[d]) = G + Len(snd[d])
      <4>1. PICK l \in Nat : l = Len(snd[d])
        BY <1>5
      <4>2. (G + 1) + (l - 1) = G + l
        OBVIOUS
      <4> QED
        BY <1>5, <4>1, <4>2
    <3> QED
      BY <3>1, <3>2, <3>3
  <2> QED
    BY <2>1, <2>2
<1>7. ASSUME NEW s \in Sock, s # d PROVE Way(s)' = Way(s) /\ Abs(got[s])' = Abs(got[s])
  <2>1. EndN(s)' = EndN(s) /\ got'[s] = got[s]
    BY <1>2, <1>7, EndNext DEF EndN, Reset, Open, WrittenN
  <2> QED
    BY <2>1, SameWay
<1>8. LCut' = LCut /\ LSent' = LSent
  <2>1. \A s \in Sock : Severed(s)' <=> Severed(s)
    BY <1>2, SeveredNext DEF Severed, Reset, Open
  <2> QED
    BY <1>2, <2>1, SameCuts DEF LSent
<1>9. /\ Way(d) = Stretch(d, G, E - G) /\ Abs(got[d]) = Stretch(d, 0, G)
      /\ Way(d)' = Stretch(d, G + 1, E - (G + 1)) /\ G + 1 <= E
      /\ Abs(got[d])' = Stretch(d, 0, G + 1)
  BY <1>3, <1>4, <1>5, <1>6 DEF Ways, Stretch
<1>10. PICK p \in Nat : p = E - (G + 1)
  BY <1>9
<1>11. E - G = p + 1 /\ G \in Int
  BY <1>10
<1>12. /\ Way(d) # <<>> /\ Head(Way(d)) = <<d, G + 1>>
       /\ Way(d)' = Tail(Way(d))
  <2>1. /\ Stretch(d, G, p + 1) # <<>>
        /\ Head(Stretch(d, G, p + 1)) = <<d, G + 1>>
        /\ Tail(Stretch(d, G, p + 1)) = Stretch(d, G + 1, p)
    BY <1>11, StretchTail
  <2> QED
    BY <1>9, <1>10, <1>11, <2>1
<1>13. Abs(got[d])' = Append(Abs(got[d]), <<d, G + 1>>)
  <2>1. 0 \in Int /\ 0 + G + 1 = G + 1
    OBVIOUS
  <2>2. Append(Stretch(d, 0, G), <<d, 0 + G + 1>>) = Stretch(d, 0, G + 1)
    BY <2>1, StretchAppend
  <2> QED
    BY <1>9, <2>1, <2>2
<1>14. LWay' = [LWay EXCEPT ![d] = Tail(LWay[d])] /\ LWay[d] # <<>>
  BY <1>7, <1>12 DEF LWay
<1>15. LGot' = [LGot EXCEPT ![d] = Append(LGot[d], Head(LWay[d]))]
  BY <1>7, <1>12, <1>13 DEF LGot, LWay
<1> QED
  BY <1>8, <1>14, <1>15, LinkDeliver

\* A step that cuts the directions of D: each keeps a prefix of what was under way.
LEMMA CutLink ==
    ASSUME Ways, Ways', NEW D \in SUBSET Sock,
           UNCHANGED <<got, sentN>>,
           \A s \in Sock \ D : EndN(s)' = EndN(s),
           \A s \in D : /\ EndN(s)' <= EndN(s)
                        /\ EndN(s)' - Len(got[s]) <= Len(Script[Other(s)]),
           \A s \in Sock : Severed(s)' <=> Severed(s) \/ s \in D
    PROVE  L!Cut(D)
<1> DEFINE keep == [s \in D |-> EndN(s)' - Len(got[s])]
<1>1. ASSUME NEW s \in D
      PROVE  /\ keep[s] \in Nat /\ keep[s] <= Len(Way(s))
             /\ keep[s] <= Len(Script[Other(s)])
             /\ Way(s)' = SubSeq(Way(s), 1, keep[s])
  <2>1. PICK G \in Nat : G = Len(got[s])
    BY DEF Ways
  <2>2. PICK E \in Nat : E = EndN(s)
    BY DEF Ways
  <2>3. PICK F \in Nat : F = EndN(s)'
    BY DEF Ways
  <2>4. G <= F /\ F <= E
    BY <2>1, <2>2, <2>3 DEF Ways
  <2>5. PICK p \in Nat : p = E - G
    BY <2>4
  <2>6. PICK q \in Nat : q = F - G
    BY <2>4
  <2>7. q <= p /\ G \in Int
    BY <2>4, <2>5, <2>6
  <2>8. Way(s) = Stretch(s, G, p) /\ Way(s)' = Stretch(s, G, q)
    <3>1. Way(s) = Stretch(s, G, E - G)
      BY <2>1, <2>2 DEF Ways
    <3>2. got'[s] = got[s]
      OBVIOUS
    <3>3. Way(s)' = Stretch(s, Len(got'[s]), EndN(s)' - Len(got'[s]))
      BY DEF Ways, Stretch
    <3> QED
      BY <2>1, <2>3, <2>5, <2>6, <3>1, <3>2, <3>3
  <2>9. SubSeq(Stretch(s, G, p), 1, q) = Stretch(s, G, q)
        /\ Len(Stretch(s, G, p)) = p
    BY <2>7, StretchSub, StretchFacts
  <2>10. keep[s] = q
    BY <2>1, <2>3, <2>6
  <2> HIDE DEF keep
  <2>11. q <= Len(Script[Other(s)])
    BY <2>1, <2>3, <2>6
  <2> QED
    BY <2>7, <2>8, <2>9, <2>10, <2>11
<1>2. keep \in [D -> Nat]
  BY <1>1
<1> HIDE DEF keep
<1>3. \A s \in Sock \ D : Way(s)' = Way(s)
  BY SameWay
<1>4. LWay' = [s \in Sock |-> IF s \in D THEN SubSeq(LWay[s], 1, keep[s])
                              ELSE LWay[s]]
  BY <1>1, <1>3 DEF LWay
<1>5. LCut' = [s \in Sock |-> LCut[s] \/ s \in D]
  BY SameCut
<1>6. LSent' = LSent /\ LGot' = LGot
  BY DEF LSent, LGot, Abs
<1>7. \A s \in D : keep[s] <= Len(LWay[s]) /\ keep[s] <= Len(Script[Other(s)])
  BY <1>1 DEF LWay
<1> QED
  BY <1>2, <1>4, <1>5, <1>6, <1>7, LinkCut

\* What is in a send buffer has been sent.
LEMMA BufferedIsSent ==
    ASSUME TypeOK, NEW s \in Sock, EndInv(s), ~Reset(s)
    PROVE  Len(snd[s]) <= Len(Script[Other(s)])
<1>1. PICK t \in Sock : t = Other(s)
  BY SockFacts
<1>2. snd[s] \in Seq(Chunk) /\ got[s] \in Seq(Chunk) /\ Len(Script[t]) \in Nat
  BY RelayAssumption DEF TypeOK
<1>3. PICK l \in Nat : l = Len(snd[s])
  BY <1>2
<1>4. CASE l = 0
  BY <1>1, <1>2, <1>3, <1>4
<1>5. CASE l # 0
  <2>1. l \in 1..Len(snd[s])
    BY <1>3, <1>5
  <2>2. snd[s][l] = <<t, Len(got[s]) + l>>
    BY <1>1, <2>1 DEF EndInv, Run
  <2>3. snd[s][l] \in Chunk
    BY <1>2, <2>1
  <2>4. PICK u \in Sock : <<t, Len(got[s]) + l>> \in {u} \X (1..Len(Script[u]))
    BY <2>2, <2>3 DEF Chunk
  <2>5. u = t /\ Len(got[s]) + l <= Len(Script[t])
    BY <2>4
  <2>6. PICK G \in Nat : G = Len(got[s])
    BY <1>2
  <2>7. l <= Len(Script[t])
    BY <1>2, <2>5, <2>6
  <2> QED
    BY <1>1, <1>3, <2>7
<1> QED
  BY <1>4, <1>5

\* ClearFHPair cuts both directions of a connection.
LEMMA ClearLink ==
    ASSUME StreamInv, Ways, Ways', Clears
    PROVE  \E D \in (SUBSET Sock) \ {{}} : L!Cut(D)
<1>1. IInv /\ TypeOK /\ Paired /\ Contained /\ Streams
  BY DEF StreamInv, IInv
<1>2. PICK h \in Handle :
        Live(h) /\ ClearFHPair(h) /\ UNCHANGED <<remote, started>>
  BY <1>1, ClearStep
<1> DEFINE H == {h, partner[h]}
           D == {fd[h], fd[partner[h]]}
<1>3. Delete(H) /\ UNCHANGED <<peer, sentN, got, started>>
  BY <1>2 DEF ClearFHPair, remote
<1>4. /\ partner[h] \in Handle /\ Live(partner[h]) /\ fd[h] \in Sock
      /\ fd[partner[h]] \in Sock
      /\ \A g \in Handle : fd[g] = fd[h] => g = h
      /\ \A g \in Handle : fd[g] = fd[partner[h]] => g = partner[h]
  BY <1>1, <1>2, PairFacts
<1>5. /\ fd' = [g \in Handle |-> IF g \in H THEN NULL ELSE fd[g]]
      /\ \A s \in Sock : snd'[s] = snd[s] \/ (s \in D /\ snd'[s] = <<>>)
  BY <1>3, <1>4 DEF Delete
<1>6. ASSUME NEW s \in D
      PROVE  /\ s \in Sock /\ Open(s) /\ s[1] \in started
             /\ ~\E g \in Handle : fd'[g] = s
  <2>1. s \in Sock /\ Open(s) /\ s[1] \in started
    BY <1>1, <1>2, <1>4, <1>6 DEF Open, Contained
  <2>2. ASSUME NEW g \in Handle, fd'[g] = s PROVE FALSE
    BY <1>4, <1>5, <1>6, <2>1, <2>2, SockFacts
  <2> QED
    BY <2>1, <2>2
<1>7. ASSUME NEW s \in Sock, s \notin D
      PROVE  (\E g \in Handle : fd'[g] = s) <=> Open(s)
  <2>1. ASSUME NEW g \in Handle PROVE fd'[g] = s <=> fd[g] = s
    BY <1>5, <1>7, SockFacts
  <2> QED
    BY <2>1 DEF Open
<1> HIDE DEF D, H
<1>8. ASSUME NEW s \in Sock, s \notin D PROVE EndN(s)' = EndN(s)
  BY <1>3, <1>5, <1>7, <1>8, EndNext DEF EndN, Reset, WrittenN
<1>9. ASSUME NEW s \in D
      PROVE  /\ EndN(s)' <= EndN(s)
             /\ EndN(s)' - Len(got[s]) <= Len(Script[Other(s)])
  <2>1. PICK G \in Nat : G = Len(got[s])
    BY <1>6 DEF Ways
  <2>2. got'[s] = got[s] /\ Len(Script[Other(s)]) \in Nat
    BY <1>3, <1>6, RelayAssumption, SockFacts
  <2>3. CASE Reset(s)
    <3>1. EndN(s) = G /\ EndN(s)' = G /\ G - G = 0
      BY <1>3, <2>1, <2>2, <2>3, EndNext DEF EndN, Reset
    <3> QED
      BY <2>1, <2>2, <3>1
  <2>4. CASE ~Reset(s)
    <3>1. PICK N \in Nat : N = sentN[Other(s)]
      BY <1>1, <1>6, SockFacts DEF TypeOK
    <3>9. snd[s] \in Seq(Chunk)
      BY <1>1, <1>6 DEF TypeOK
    <3>2. PICK l \in Nat : l = Len(snd[s])
      BY <3>9
    <3>3. PICK k \in Nat : k = Len(snd'[s]) /\ k <= l
      BY <1>5, <1>6, <3>2, EmptyType
    <3>4. EndN(s) = N /\ EndN(s)' = G + k
      BY <1>3, <1>6, <2>1, <2>2, <2>4, <3>1, <3>3, EndNext DEF EndN, Reset
    <3>5. EndInv(s)
      BY <1>1, <1>6 DEF Streams
    <3>6. G + l <= N
      BY <2>1, <2>4, <3>1, <3>2, <3>5 DEF EndInv, WrittenN
    <3>7. l <= Len(Script[Other(s)])
      BY <1>1, <1>6, <2>4, <3>2, <3>5, BufferedIsSent
    <3>8. G + k <= N /\ (G + k) - G = k /\ k <= Len(Script[Other(s)])
      BY <2>2, <3>3, <3>6, <3>7
    <3> QED
      BY <2>1, <3>4, <3>8
  <2> QED
    BY <2>3, <2>4
<1>10. ASSUME NEW s \in Sock PROVE Severed(s)' <=> Severed(s) \/ s \in D
  <2>1. CASE s \in D
    BY <1>3, <1>6, <2>1, SeveredNext
  <2>2. CASE s \notin D
    BY <1>3, <1>7, <2>2, SeveredNext DEF Severed, Reset
  <2> QED
    BY <2>1, <2>2
<1>11. D \subseteq Sock /\ D # {}
  <2>1. fd[h] \in D
    BY DEF D
  <2> QED
    BY <1>6, <2>1
<1>12. L!Cut(D)
  BY <1>3, <1>8, <1>9, <1>10, <1>11, CutLink
<1>13. D \in (SUBSET Sock) \ {{}}
  BY <1>11
<1> QED
  BY <1>12, <1>13

\* A connection that is given up before there is a pair is cut: nothing was sent.
LEMMA NoBrokerLink ==
    ASSUME StreamInv, Ways, Ways', NoBroker
    PROVE  \E D \in (SUBSET Sock) \ {{}} : L!Cut(D)
<1>1. TypeOK /\ Contained /\ Apart /\ Streams
  BY DEF StreamInv, IInv
<1>2. PICK c \in Pair : c = accepting
  BY <1>1 DEF NoBroker, TypeOK
<1>3. /\ c \notin started /\ started' = started \cup {c}
      /\ UNCHANGED <<fd, snd, peer, sentN, got>>
  BY <1>1, <1>2 DEF NoBroker, SetUp, Apart, handles, remote
<1> DEFINE D == {s \in Sock : s[1] = c}
<1>4. D \subseteq Sock /\ D # {}
  <2>1. <<c, "S">> \in D
    BY DEF Sock, Side
  <2> QED
    BY <2>1
<1>5. ASSUME NEW s \in Sock PROVE EndN(s)' = EndN(s)
  BY <1>3, EndNext DEF EndN, Reset, Open, WrittenN
<1>6. ASSUME NEW s \in Sock, s[1] = c PROVE ~\E h \in Handle : fd'[h] = s
  <2> SUFFICES ASSUME NEW h \in Handle, fd[h] = s PROVE FALSE
    BY <1>3
  <2>1. Live(h)
    BY SockFacts DEF Live
  <2> QED
    BY <1>1, <1>3, <1>6, <2>1 DEF Contained
<1>7. ASSUME NEW s \in Sock PROVE Severed(s)' <=> Severed(s) \/ s \in D
  <2>1. CASE s[1] = c
    BY <1>3, <1>6, <2>1, SeveredNext
  <2>2. CASE s[1] # c
    <3>1. s[1] \in started' <=> s[1] \in started
      BY <1>3, <2>2
    <3> QED
      BY <1>3, <2>2, <3>1, SeveredNext DEF Severed, Reset, Open
  <2> QED
    BY <2>1, <2>2
<1>8. ASSUME NEW s \in D
      PROVE  /\ EndN(s)' <= EndN(s)
             /\ EndN(s)' - Len(got[s]) <= Len(Script[Other(s)])
  <2>1. s \in Sock /\ Other(s) \in Sock /\ Len(Script[Other(s)]) \in Nat
    BY RelayAssumption, SockFacts
  <2>2. ~Open(s)
    BY <1>3, <1>6, <2>1 DEF Open
  <2>3. got[s] = <<>> /\ snd[s] = <<>>
    BY <1>1, <1>3, <2>1 DEF Streams, EndInv
  <2>4. EndN(s) = 0 /\ Len(got[s]) = 0
    BY <2>2, <2>3, EmptyType DEF EndN, WrittenN
  <2> QED
    BY <1>5, <2>1, <2>4
<1> HIDE DEF D
<1>9. L!Cut(D)
  BY <1>3, <1>4, <1>5, <1>7, <1>8, CutLink
<1> QED
  BY <1>4, <1>9

\* A reset cuts one direction, and drops all that was under way.
LEMMA ResetLink ==
    ASSUME StreamInv, Ways, Ways', NEW d \in Sock, PeerReset(d)
    PROVE  L!Cut({d})
<1>1. TypeOK
  BY DEF StreamInv, IInv
<1>2. /\ peer'[d] \in {"rst", "finrst"}
      /\ \A s \in Sock \ {d} : peer'[s] = peer[s] /\ snd'[s] = snd[s]
      /\ UNCHANGED <<fd, sentN, got, started>>
  BY <1>1 DEF PeerReset, TypeOK, handles
<1>3. ASSUME NEW s \in Sock, s # d
      PROVE  EndN(s)' = EndN(s) /\ (Severed(s)' <=> Severed(s))
  BY <1>2, <1>3, EndNext, SeveredNext DEF EndN, Severed, Reset, Open, WrittenN
<1>4. /\ EndN(d)' <= EndN(d) /\ EndN(d)' - Len(got[d]) <= Len(Script[Other(d)])
      /\ Severed(d)'
  <2>1. EndN(d)' = Len(got[d]) /\ Severed(d)'
    BY <1>2, EndNext, SeveredNext
  <2>2. Len(got[d]) \in Nat /\ Len(got[d]) <= EndN(d)
    BY DEF Ways
  <2>3. Len(Script[Other(d)]) \in Nat
    BY RelayAssumption, SockFacts
  <2>4. Len(got[d]) - Len(got[d]) = 0
    BY <2>2
  <2> QED
    BY <2>1, <2>2, <2>3, <2>4
<1>5. {d} \in SUBSET Sock /\ \A s \in Sock \ {d} : EndN(s)' = EndN(s)
  BY <1>3
<1>6. \A s \in Sock : Severed(s)' <=> Severed(s) \/ s \in {d}
  BY <1>3, <1>4
<1> QED
  BY <1>2, <1>4, <1>5, <1>6, CutLink

\* Every step is one of the link, or moves chunks within the proxy.
LEMMA LinkStep == StreamInv /\ StreamInv' /\ [Next]_vars => [L!Next]_(L!vars)
<1> SUFFICES ASSUME StreamInv, StreamInv', [Next]_vars
             PROVE  L!Next \/ UNCHANGED L!vars
  OBVIOUS
<1>1. Ways /\ Ways'
  BY AllWays, NextWays
<1>2. TypeOK /\ Contained
  BY DEF StreamInv, IInv
<1>3. ASSUME NEW t \in Sock, PeerSend(t) PROVE L!Next
  <2>1. L!Send(Other(t)) /\ Other(t) \in Sock
    BY <1>1, <1>3, SendLink, SockFacts
  <2> QED
    BY <2>1 DEF L!Next
<1>4. ASSUME NEW s \in Sock, PeerRecv(s) PROVE L!Next
  <2>1. L!Deliver(s)
    BY <1>1, <1>4, RecvLink
  <2> QED
    BY <2>1 DEF L!Next
<1>5. ASSUME NEW s \in Sock, PeerReset(s) PROVE L!Next
  <2>1. L!Cut({s})
    BY <1>1, <1>5, ResetLink
  <2>2. s \in {s} /\ {s} \subseteq Sock
    OBVIOUS
  <2>3. {s} \in (SUBSET Sock) \ {{}}
    BY <2>2
  <2> QED
    BY <2>1, <2>3 DEF L!Next
<1>6. ASSUME NEW s \in Sock, PeerFin(s) PROVE UNCHANGED L!vars
  <2>1. /\ \A t \in Sock : peer'[t] \in {"rst", "finrst"} <=> Reset(t)
        /\ UNCHANGED <<fd, sentN, got, started, snd>>
    BY <1>2, <1>6 DEF PeerFin, Reset, TypeOK, handles
  <2> QED
    BY <1>1, <2>1, QuietLink
<1>7. CASE Clears \/ NoBroker
  <2>1. PICK D \in (SUBSET Sock) \ {{}} : L!Cut(D)
    BY <1>1, <1>7, ClearLink, NoBrokerLink
  <2> QED
    BY <2>1 DEF L!Next
<1>8. CASE Handover
  BY <1>1, <1>8, HandoverLink
<1>9. CASE WriteChunk
  <2>1. UNCHANGED <<fd, remote, started>> /\ snd \in [Sock -> Seq(Chunk)]
        /\ snd' = [snd EXCEPT ![fd[cur]] = Append(@, Head(Frame(cur)))]
    BY <1>2, <1>9 DEF WriteChunk, TypeOK
  <2>2. cur \in Handle
    BY <1>2, <1>9 DEF WriteChunk, Contained
  <2>3. \A s \in Sock : ~Open(s) => snd'[s] = snd[s]
    BY <2>1, <2>2 DEF Open
  <2> QED
    BY <1>1, <2>1, <2>3, QuietLink DEF remote, Reset
<1>10. CASE \/ Wait \/ ReadPart \/ ReadFrame \/ ReadBlocked \/ Arm
            \/ WriteBlocked \/ WriteDone \/ WriteSigpipe
            \/ DispatchPipe \/ Adopt \/ AdoptFreed \/ PipeDrained
            \/ \E e \in batch : Dispatch(e) \/ DispatchFreed(e) \/ DispatchOther(e)
            \/ NewBroker
            \/ \E c \in Pair : NewClient(c) \/ OnConnected(c) \/ ConnectFreed(c)
            \/ UNCHANGED vars
  <2>1. UNCHANGED <<fd, snd, remote, started>>
    BY <1>10 DEF Wait, ReadPart, ReadFrame, ReadBlocked, Arm, WriteBlocked,
           WriteDone, WriteSigpipe, DispatchPipe, Adopt, AdoptFreed, PipeDrained,
           Dispatch, DispatchFreed, DispatchOther, NewBroker, NewClient,
           OnConnected, ConnectFreed, vars, handles
  <2> QED
    BY <1>1, <2>1, QuietLink DEF remote, Reset
<1> QED
  BY <1>3, <1>4, <1>5, <1>6, <1>7, <1>8, <1>9, <1>10
     DEF Next, Thread, Read, Write, Pipe, Main, Loop, Connect, Remote, Clears

LEMMA InitLink == Init => L!Init
<1> SUFFICES ASSUME Init PROVE L!Init
  OBVIOUS
<1>1. /\ fd = [h \in Handle |-> NULL] /\ snd = [s \in Sock |-> <<>>]
      /\ peer = [s \in Sock |-> "open"] /\ sentN = [s \in Sock |-> 0]
      /\ got = [s \in Sock |-> <<>>] /\ started = {}
  BY DEF Init
<1>2. ASSUME NEW s \in Sock
      PROVE  /\ sentN[Other(s)] = 0 /\ Way(s) = <<>> /\ Abs(got[s]) = <<>>
             /\ Severed(s) = FALSE
  <2>1. ~Open(s) /\ ~Reset(s)
    BY <1>1, SockFacts DEF Open, Reset
  <2>2. Abs(<<>>) = <<>>
    BY DEF Abs
  <2> QED
    BY <1>1, <2>1, <2>2, SockFacts DEF Way, UnderWay, Severed
<1> QED
  BY <1>2, LinkInit DEF LSent, LWay, LGot, LCut

\* Each direction of each connection is a reliable ordered link that may be cut,
\* whatever epoll reports and however the two handles buffer
\* (io_processor.cpp:85-137, fdhandle.cpp:14-66).
THEOREM SpecImplementsLink == Spec => ImplementsLink
<1>1. Init => L!Init
  BY InitLink
<1>2. StreamInv /\ StreamInv' /\ [Next]_vars => [L!Next]_(L!vars)
  BY LinkStep
<1> QED
  BY <1>1, <1>2, SpecStreamInv, PTL DEF Spec, ImplementsLink, L!Spec

-----------------------------------------------------------------------------
(***************************************************************************)
(* Nothing is left lying.                                                  *)
(***************************************************************************)
\* A read that does not end a frame adds a part of it to what was put aside.
LEMMA StepBegin ==
    ASSUME IInv, BeginInv, [Next]_vars
    PROVE  BeginInv'
<1>1. TypeOK /\ Paired /\ Contained
  BY DEF IInv
<1>2. SUFFICES ASSUME NEW h \in Handle, NEW i \in 1..Len(inSave'[h])
               PROVE  Kind(inSave'[h][i]) = "part"
  BY DEF BeginInv, Kind
<1>3. CASE inSave'[h] = inSave[h]
  BY <1>2, <1>3 DEF BeginInv
<1>4. CASE inSave'[h] = <<>>
  BY <1>2, <1>4, EmptyType
<1>5. CASE ReadPart
  <2>1. cur \in Handle /\ Live(cur) /\ fd[cur] \in Sock /\ inSave[h] \in Seq(Chunk)
    BY <1>1, <1>5, PairFacts DEF Contained, ReadPart, TypeOK
  <2>2. PICK w \in Seq(Chunk) : w = rcv[fd[cur]]
    BY <1>1, <2>1 DEF TypeOK
  <2>3. w # <<>> /\ Kind(Head(w)) = "part"
        /\ (inSave'[h] = inSave[h] \/ inSave'[h] = Append(inSave[h], Head(w)))
    BY <1>1, <1>5, <2>1, <2>2 DEF ReadPart, Extends, TypeOK
  <2>4. CASE inSave'[h] = Append(inSave[h], Head(w))
    <3>1. Head(w) \in Chunk
      BY <2>2, <2>3, HeadTail
    <3>2. PICK n \in Nat : n = Len(inSave[h])
      BY <2>1
    <3>3. i \in 1..(n + 1)
      BY <1>2, <2>1, <2>4, <3>1, <3>2, AppendType
    <3>4. CASE i \in 1..n
      <4>1. inSave'[h][i] = inSave[h][i]
        BY <2>1, <2>4, <3>1, <3>2, <3>4
      <4> QED
        BY <3>2, <3>4, <4>1 DEF BeginInv
    <3>5. CASE i = n + 1
      <4>1. inSave'[h][i] = Head(w)
        BY <2>1, <2>4, <3>1, <3>2, <3>5
      <4> QED
        BY <2>3, <4>1
    <3> QED
      BY <3>2, <3>3, <3>4, <3>5
  <2> QED
    BY <1>3, <2>3, <2>4
<1>6. CASE ReadFrame
  BY <1>1, <1>3, <1>4, <1>6 DEF ReadFrame, TypeOK
<1>7. CASE Clears
  <2>1. PICK g \in Handle : ClearFHPair(g)
    BY <1>7, ClearStep
  <2> QED
    BY <1>3, <1>4, <2>1 DEF ClearFHPair, Delete
<1>8. CASE \/ Wait \/ ReadBlocked \/ Arm \/ Remote
           \/ WriteChunk \/ WriteBlocked \/ WriteDone \/ WriteSigpipe
           \/ DispatchPipe \/ Adopt \/ AdoptFreed \/ PipeDrained
           \/ \E e \in batch : Dispatch(e) \/ DispatchFreed(e) \/ DispatchOther(e)
           \/ UNCHANGED vars
  <2>1. inSave' = inSave
    BY <1>8 DEF Wait, ReadBlocked, Arm, Remote, PeerSend, PeerRecv,
           PeerFin, PeerReset, WriteChunk, WriteBlocked, WriteDone, WriteSigpipe,
           DispatchPipe, Adopt, AdoptFreed, PipeDrained, Dispatch, DispatchFreed,
           DispatchOther, vars, handles
  <2> QED
    BY <1>3, <2>1
<1>9. CASE \/ Handover \/ Prepares
           \/ \E c \in Pair : OnConnected(c) \/ ConnectFreed(c)
  <2>1. inSave' = inSave
    BY <1>9 DEF Handover, Prepares, NoBroker, NewBroker, NewClient, OnConnected,
           ConnectFreed, handles
  <2> QED
    BY <1>3, <2>1
<1> QED
  BY <1>5, <1>6, <1>7, <1>8, <1>9
     DEF Next, Thread, Read, Write, Pipe, Main, Loop, Connect, Prepares, Clears

\* Who is in the pipe stays there, but for the pair at its head, and who waits
\* for the broker goes on waiting.
LEMMA KeepQueued ==
    ASSUME TypeOK, QueuedInv,
           \A h \in Handle : Live(h)' /\ ~Registered(h)' =>
              /\ Live(h) /\ ~Registered(h) /\ fd'[h] = fd[h]
              /\ fd[h][1] \in connecting => fd[h][1] \in connecting',
           \/ pipe' = pipe
           \/ /\ pipe # <<>> /\ pipe' = Tail(pipe)
              /\ \A h \in {Head(pipe)[1], Head(pipe)[2]} :
                     ~(Live(h)' /\ ~Registered(h)')
    PROVE  QueuedInv'
<1> SUFFICES ASSUME NEW h \in Handle, Live(h)', ~Registered(h)',
                    fd'[h][1] \notin connecting'
             PROVE  \E k \in DOMAIN pipe' : h \in {pipe'[k][1], pipe'[k][2]}
  BY DEF QueuedInv
<1>1. PICK k \in DOMAIN pipe : h \in {pipe[k][1], pipe[k][2]}
  BY DEF QueuedInv
<1>2. CASE pipe' = pipe
  BY <1>1, <1>2
<1>3. CASE /\ pipe # <<>> /\ pipe' = Tail(pipe)
           /\ h \notin {Head(pipe)[1], Head(pipe)[2]}
  <2>1. pipe \in Seq(Handle \X Handle) /\ Head(pipe) = pipe[1]
    BY <1>3, PipeHead DEF TypeOK
  <2>2. k # 1
    BY <1>1, <1>3, <2>1
  <2>3. PICK n \in Nat : n = Len(pipe)
    BY <2>1
  <2>4. k \in 1..n /\ k - 1 \in 1..(n - 1) /\ (k - 1) + 1 = k
    BY <1>1, <2>1, <2>2, <2>3
  <2>5. DOMAIN pipe' = 1..(n - 1) /\ \A j \in 1..(n - 1) : pipe'[j] = pipe[j + 1]
    BY <1>3, <2>1, <2>3
  <2>6. k - 1 \in DOMAIN pipe' /\ pipe'[k - 1] = pipe[k]
    BY <2>4, <2>5
  <2> QED
    BY <1>1, <2>6
<1> QED
  BY <1>2, <1>3

\* A pair that the main thread puts into the pipe is in it, with those before it.
LEMMA AppendQueued ==
    ASSUME TypeOK, NEW hs \in Handle, NEW hc \in Handle,
           pipe' = Append(pipe, <<hs, hc>>),
           NEW h, \/ h \in {hs, hc}
                  \/ \E k \in DOMAIN pipe : h \in {pipe[k][1], pipe[k][2]}
    PROVE  \E k \in DOMAIN pipe' : h \in {pipe'[k][1], pipe'[k][2]}
<1>1. pipe \in Seq(Handle \X Handle) /\ <<hs, hc>> \in Handle \X Handle
  BY DEF TypeOK
<1>2. PICK n \in Nat : n = Len(pipe)
  BY <1>1
<1>3. /\ DOMAIN pipe = 1..n /\ DOMAIN pipe' = 1..(n + 1)
      /\ pipe'[n + 1] = <<hs, hc>> /\ \A k \in 1..n : pipe'[k] = pipe[k]
  BY <1>1, <1>2
<1>4. CASE h \in {hs, hc}
  <2>1. n + 1 \in DOMAIN pipe' /\ h \in {pipe'[n + 1][1], pipe'[n + 1][2]}
    BY <1>3, <1>4
  <2> QED
    BY <2>1
<1>5. CASE \E k \in DOMAIN pipe : h \in {pipe[k][1], pipe[k][2]}
  <2>1. PICK k \in DOMAIN pipe : h \in {pipe[k][1], pipe[k][2]}
    BY <1>5
  <2>2. k \in DOMAIN pipe' /\ pipe'[k] = pipe[k]
    BY <1>3
  <2> QED
    BY <2>1, <2>2
<1> QED
  BY <1>4, <1>5

LEMMA HandoverQueued ==
    ASSUME IInv, QueuedInv, Handover
    PROVE  QueuedInv'
<1>1. TypeOK /\ Apart
  BY DEF IInv
<1>2. PICK c \in Pair, hs \in Handle, hc \in Handle :
        /\ ~Live(hs) /\ ~Live(hc) /\ hs # hc
        /\ fd' = [fd EXCEPT ![hs] = <<c, "S">>, ![hc] = <<c, "C">>]
        /\ \/ pipe' = Append(pipe, <<hs, hc>>) /\ UNCHANGED connecting
           \/ connecting' = connecting \cup {c} /\ UNCHANGED pipe
  BY <1>1, HandoverFacts
<1>3. interest' = interest
  BY DEF Handover
<1> SUFFICES ASSUME NEW h \in Handle, Live(h)', ~Registered(h)',
                    fd'[h][1] \notin connecting'
             PROVE  \E k \in DOMAIN pipe' : h \in {pipe'[k][1], pipe'[k][2]}
  BY DEF QueuedInv
<1>4. CASE h \in {hs, hc}
  <2>1. fd'[h][1] = c
    BY <1>1, <1>2, <1>4 DEF TypeOK
  <2>2. pipe' = Append(pipe, <<hs, hc>>)
    BY <1>2, <2>1
  <2> QED
    BY <1>1, <1>4, <2>2, AppendQueued
<1>5. CASE h \notin {hs, hc}
  <2>1. fd'[h] = fd[h]
    BY <1>1, <1>2, <1>5 DEF TypeOK
  <2>2. Live(h) /\ ~Registered(h)
    BY <1>3, <2>1 DEF Live, Registered
  <2>3. fd[h][1] \notin connecting
    BY <1>2, <2>1
  <2>4. \E k \in DOMAIN pipe : h \in {pipe[k][1], pipe[k][2]}
    BY <2>2, <2>3 DEF QueuedInv
  <2> QED
    BY <1>1, <1>2, <2>4, AppendQueued
<1> QED
  BY <1>4, <1>5

\* The two handles of a connection that stops waiting for the broker.
LEMMA PairOfBroker ==
    ASSUME TypeOK, Paired, NEW c \in Pair, NEW hc \in Handle, fd[hc] = <<c, "C">>,
           NEW h \in Handle, Live(h), fd[h][1] = c
    PROVE  h \in {hc, partner[hc]}
<1>1. /\ <<c, "C">> \in Sock /\ <<c, "S">> \in Sock
      /\ Other(<<c, "C">>) = <<c, "S">>
  BY DEF Sock, Side, Other
<1>2. fd[h] \in {<<c, "C">>, <<c, "S">>}
  <2>1. fd[h] \in Sock
    BY DEF TypeOK, Live
  <2> QED
    BY <2>1 DEF Sock, Side
<1>3. Live(hc)
  BY <1>1, SockFacts DEF Live
<1>4. partner[hc] \in Handle /\ Live(partner[hc]) /\ fd[partner[hc]] = <<c, "S">>
  BY <1>1, <1>3, PairFacts
<1> QED
  BY <1>2, <1>3, <1>4, PairFacts

LEMMA ConnectedQueued ==
    ASSUME IInv, QueuedInv, NEW c \in Pair, OnConnected(c)
    PROVE  QueuedInv'
<1>1. TypeOK /\ Paired
  BY DEF IInv
<1>2. PICK hs \in Handle, hc \in Handle :
        /\ hs = partner[hc] /\ fd[hc] = <<c, "C">>
        /\ pipe' = Append(pipe, <<hs, hc>>)
  BY <1>1, ConnectedFacts
<1>3. fd' = fd /\ interest' = interest /\ connecting' = connecting \ {c}
  BY DEF OnConnected, handles
<1> SUFFICES ASSUME NEW h \in Handle, Live(h)', ~Registered(h)',
                    fd'[h][1] \notin connecting'
             PROVE  \E k \in DOMAIN pipe' : h \in {pipe'[k][1], pipe'[k][2]}
  BY DEF QueuedInv
<1>4. Live(h) /\ ~Registered(h)
  BY <1>3 DEF Live, Registered
<1>5. CASE fd[h][1] = c
  <2>1. h \in {hs, hc}
    BY <1>1, <1>2, <1>4, <1>5, PairOfBroker
  <2> QED
    BY <1>1, <1>2, <2>1, AppendQueued
<1>6. CASE fd[h][1] # c
  <2>1. \E k \in DOMAIN pipe : h \in {pipe[k][1], pipe[k][2]}
    BY <1>3, <1>4, <1>6 DEF QueuedInv
  <2> QED
    BY <1>1, <1>2, <2>1, AppendQueued
<1> QED
  BY <1>5, <1>6

\* A pair that is adopted is registered, and the others keep what they had.
LEMMA AdoptQueued ==
    ASSUME IInv, QueuedInv, Adopt
    PROVE  QueuedInv'
<1>1. TypeOK /\ interest \in [Sock -> {{}, {"IN"}, {"IN", "OUT"}}]
  BY DEF IInv, TypeOK
<1>2. /\ Head(pipe) \in Handle \X Handle /\ pipe # <<>> /\ pipe' = Tail(pipe)
      /\ fd' = fd /\ connecting' = connecting
  BY <1>1, PipeHead DEF Adopt, handles
<1>3. PICK g \in Handle, p \in Handle : g = Head(pipe)[1] /\ p = Head(pipe)[2]
  BY <1>2
<1>4. /\ Live(g) /\ Live(p)
      /\ interest' = [interest EXCEPT ![fd[g]] = {"IN"}, ![fd[p]] = {"IN"}]
  BY <1>3 DEF Adopt
<1>5. ASSUME NEW s \in Sock
      PROVE  interest'[s] = IF s \in {fd[g], fd[p]} THEN {"IN"} ELSE interest[s]
  BY <1>1, <1>4
<1>6. ASSUME NEW h \in Handle, Live(h)', ~Registered(h)'
      PROVE  Live(h) /\ ~Registered(h) /\ h \notin {g, p}
  <2>1. fd[h] \in Sock /\ interest'[fd[h]] = {} /\ Live(h)
    BY <1>1, <1>2, <1>6 DEF TypeOK, Live, Registered
  <2> QED
    BY <1>5, <2>1 DEF Registered
<1>7. \A h \in {Head(pipe)[1], Head(pipe)[2]} : ~(Live(h)' /\ ~Registered(h)')
  BY <1>3, <1>6
<1>8. \A h \in Handle : Live(h)' /\ ~Registered(h)' =>
         /\ Live(h) /\ ~Registered(h) /\ fd'[h] = fd[h]
         /\ fd[h][1] \in connecting => fd[h][1] \in connecting'
  BY <1>2, <1>6
<1> QED
  BY <1>1, <1>2, <1>7, <1>8, KeepQueued

LEMMA ClearQueued ==
    ASSUME IInv, Arms, QueuedInv, Clears
    PROVE  QueuedInv'
<1>1. TypeOK /\ Paired
  BY DEF IInv
<1>2. PICK g \in Handle, p \in Handle : Cleared(g, p)
  BY ClearedPair
<1>3. /\ Live(g) /\ Live(p) /\ Delete({g, p})
      /\ \/ pipe' = pipe
         \/ /\ pipe # <<>> /\ pipe' = Tail(pipe)
            /\ {g, p} = {Head(pipe)[1], Head(pipe)[2]}
  BY <1>1, <1>2, PairFacts DEF Cleared
<1>4. ASSUME NEW h \in Handle, Live(h)', ~Registered(h)'
      PROVE  h \notin {g, p} /\ fd'[h] = fd[h] /\ Live(h) /\ ~Registered(h)
  <2>1. h \notin {g, p} /\ fd'[h] = fd[h] /\ Live(h)
    BY <1>3, <1>4 DEF Delete, Live
  <2>2. fd[h] \in Sock /\ fd[h] # fd[g] /\ fd[h] # fd[p]
    BY <1>1, <1>3, <2>1, PairFacts
  <2>3. interest'[fd[h]] = interest[fd[h]]
    BY <1>3, <2>2 DEF Delete
  <2> QED
    BY <1>4, <2>1, <2>3 DEF Registered
<1>5. \A h \in {g, p} : ~(Live(h)' /\ ~Registered(h)')
  BY <1>4
<1>6. ASSUME NEW h \in Handle, Live(h)', ~Registered(h)', fd[h][1] \in connecting
      PROVE  fd[h][1] \in connecting'
  <2>1. CASE ReadBad \/ ReadClosed \/ WriteErr \/ AdoptFailed
    BY <1>6, <2>1 DEF ReadBad, ReadClosed, WriteErr, AdoptFailed
  <2>2. ASSUME NEW c \in Pair, OnConnectFailed(c) PROVE fd[h][1] \in connecting'
    <3>1. PICK hc \in Handle : fd[hc] = <<c, "C">> /\ ClearFHPair(hc)
      BY <1>1, <2>2, ConnectFailedFacts
    <3>2. h \notin {hc, partner[hc]}
      BY <1>6, <3>1 DEF ClearFHPair, Delete, Live
    <3>3. fd[h][1] # c
      BY <1>1, <1>4, <1>6, <3>1, <3>2, PairOfBroker
    <3> QED
      BY <1>6, <2>2, <3>3 DEF OnConnectFailed
  <2> QED
    BY <2>1, <2>2 DEF Clears
<1>7. \A h \in Handle : Live(h)' /\ ~Registered(h)' =>
         /\ Live(h) /\ ~Registered(h) /\ fd'[h] = fd[h]
         /\ fd[h][1] \in connecting => fd[h][1] \in connecting'
  BY <1>4, <1>6
<1> QED
  BY <1>1, <1>3, <1>5, <1>7, KeepQueued

\* The other steps change a registration at most to another one.
LEMMA OtherQueued ==
    ASSUME IInv, QueuedInv, UNCHANGED <<fd, pipe, connecting>>,
           interest' = interest \/ Arm \/ WriteDone
    PROVE  QueuedInv'
<1>1. TypeOK /\ interest \in [Sock -> {{}, {"IN"}, {"IN", "OUT"}}]
  BY DEF IInv, TypeOK
<1>2. ASSUME NEW s \in Sock, interest[s] # {} PROVE interest'[s] # {}
  <2>1. CASE Arm
    BY <1>1, <1>2, <2>1 DEF Arm
  <2>2. CASE WriteDone
    BY <1>1, <1>2, <2>2 DEF WriteDone
  <2> QED
    BY <1>2, <2>1, <2>2
<1>3. ASSUME NEW h \in Handle, Live(h)', ~Registered(h)'
      PROVE  /\ Live(h) /\ ~Registered(h) /\ fd'[h] = fd[h]
             /\ fd[h][1] \in connecting => fd[h][1] \in connecting'
  <2>1. fd[h] \in Sock /\ Live(h)
    BY <1>1, <1>3 DEF TypeOK, Live
  <2> QED
    BY <1>2, <1>3, <2>1 DEF Registered
<1> QED
  BY <1>1, <1>3, KeepQueued

LEMMA InitRest == Init => RestInv
<1> SUFFICES ASSUME Init PROVE BeginInv /\ QueuedInv
  BY DEF RestInv
<1>1. \A h \in Handle : inSave[h] = <<>> /\ fd[h] = NULL
  BY DEF Init
<1>2. BeginInv
  <2>1. \A h \in Handle : Len(inSave[h]) = 0
    BY <1>1, EmptyType
  <2> QED
    BY <2>1 DEF BeginInv
<1> QED
  BY <1>1, <1>2 DEF QueuedInv, Live

LEMMA StepRest == ArmedInv /\ RestInv /\ [Next]_vars => RestInv'
<1> SUFFICES ASSUME ArmedInv, RestInv, [Next]_vars PROVE RestInv'
  OBVIOUS
<1>1. IInv /\ BeginInv /\ (~stale /\ pc # "dead" => Arms /\ QueuedInv)
  BY ArmedParts DEF RestInv
<1>2. BeginInv'
  BY <1>1, StepBegin
<1>3. SUFFICES ASSUME ~stale', pc' # "dead" PROVE QueuedInv'
  BY <1>2 DEF RestInv
<1>4. CASE Clears
  <2>1. ~stale /\ pc # "dead"
    BY <1>3, <1>4
       DEF Clears, ReadBad, ReadClosed, WriteErr, AdoptFailed, OnConnectFailed
  <2> QED
    BY <1>1, <1>4, <2>1, ClearQueued
<1>5. CASE Adopt
  <2>1. ~stale /\ pc # "dead"
    BY <1>3, <1>5 DEF Adopt
  <2> QED
    BY <1>1, <1>5, <2>1, AdoptQueued
<1>6. CASE Handover
  <2>1. ~stale /\ pc # "dead"
    BY <1>3, <1>6 DEF Handover
  <2> QED
    BY <1>1, <1>6, <2>1, HandoverQueued
<1>7. ASSUME NEW c \in Pair, OnConnected(c) PROVE QueuedInv'
  <2>1. ~stale /\ pc # "dead"
    BY <1>3, <1>7 DEF OnConnected
  <2> QED
    BY <1>1, <1>7, <2>1, ConnectedQueued
<1>8. CASE Prepares
  <2>1. TypeOK /\ Apart
    BY <1>1 DEF IInv
  <2>2. UNCHANGED <<fd, pipe, interest, connecting>> /\ ~stale /\ pc # "dead"
    BY <1>3, <1>8, <2>1, PrepareFacts DEF handles
  <2> QED
    BY <1>1, <2>2, OtherQueued
<1>9. CASE Arm \/ WriteDone
  <2>1. UNCHANGED <<fd, pipe, connecting>> /\ ~stale /\ pc # "dead"
    BY <1>3, <1>9 DEF Arm, WriteDone, handles
  <2> QED
    BY <1>1, <1>9, <2>1, OtherQueued
<1>10. CASE \/ Wait \/ ReadPart \/ ReadFrame \/ ReadBlocked \/ WriteChunk
            \/ WriteBlocked \/ DispatchPipe \/ PipeDrained \/ Remote
            \/ \E e \in batch : Dispatch(e)
            \/ UNCHANGED vars
  <2>1. UNCHANGED <<fd, pipe, interest, connecting>>
    BY <1>10 DEF Wait, ReadPart, ReadFrame, ReadBlocked, WriteChunk, WriteBlocked,
           DispatchPipe, PipeDrained, Remote, PeerSend, PeerRecv, PeerFin, PeerReset,
           Dispatch, vars, handles
  <2>2. ~stale
    BY <1>3, <1>10 DEF Wait, ReadPart, ReadFrame, ReadBlocked, WriteChunk,
           WriteBlocked, DispatchPipe, PipeDrained, Remote, PeerSend, PeerRecv,
           PeerFin, PeerReset, Dispatch, vars
  <2>3. pc' = pc \/ pc # "dead"
    BY <1>10 DEF Wait, ReadPart, ReadFrame, ReadBlocked, WriteChunk,
           WriteBlocked, DispatchPipe, PipeDrained, Remote, PeerSend, PeerRecv,
           PeerFin, PeerReset, Dispatch, vars
  <2> QED
    BY <1>1, <1>3, <2>1, <2>2, <2>3, OtherQueued
<1>11. /\ ~WriteSigpipe /\ ~AdoptFreed
       /\ \A e \in batch : ~DispatchFreed(e) /\ ~DispatchOther(e)
       /\ \A c \in Pair : ~ConnectFreed(c)
  BY <1>3 DEF WriteSigpipe, AdoptFreed, DispatchFreed, DispatchOther, ConnectFreed
<1>12. CASE Thread
  <2>1. CASE \E e \in batch : Dispatch(e) \/ DispatchFreed(e) \/ DispatchOther(e)
    BY <1>10, <1>11, <2>1
  <2> QED
    BY <1>4, <1>5, <1>9, <1>10, <1>11, <1>12, <2>1
       DEF Thread, Read, Write, Pipe, Clears
<1>13. CASE Main
  <2>1. CASE Connect
    BY <1>4, <1>7, <1>11, <2>1 DEF Connect, Clears
  <2> QED
    BY <1>6, <1>8, <1>13, <2>1 DEF Main, Loop, Prepares
<1> QED
  BY <1>10, <1>12, <1>13 DEF Next

\* What a handle has put aside is the beginning of one frame, and a handle that
\* epoll does not know is in the pipe (fdhandle.cpp:14-36, io_processor.cpp:40-76).
THEOREM SpecRestInv == Spec => []RestInv
<1>1. Spec => []ArmedInv
  BY SpecArmedInv
<1>2. Spec /\ []ArmedInv => []RestInv
  BY InitRest, StepRest, PTL DEF Spec
<1> QED
  BY <1>1, <1>2, PTL

\* When epoll has nothing to report, every handle that does not wait for the
\* broker is registered, its socket has nothing to read and its remote end is
\* there; and it has nothing to write, or its socket is full.
LEMMA Quiet ==
    ASSUME IInv, Arms, QueuedInv, pc = "loop", Pending = {},
           NEW h \in Handle, Live(h), fd[h][1] \notin connecting
    PROVE  /\ fd[h] \in Sock /\ rcv[fd[h]] = <<>> /\ peer[fd[h]] = "open"
           /\ HasOut(h) => snd[fd[h]] # <<>>
<1>1. TypeOK /\ fd[h] \in Sock
  BY DEF IInv, TypeOK, Live
<1>2. PipeEvent \notin Pending => pipe = <<>>
  BY DEF Pending
<1>3. pipe = <<>> /\ DOMAIN pipe = {}
  BY <1>2
<1>4. interest[fd[h]] \in {{"IN"}, {"IN", "OUT"}}
  BY <1>1, <1>3 DEF QueuedInv, Registered, TypeOK
<1>5. Ready(fd[h]) = {}
  BY DEF Pending
<1>6. rcv[fd[h]] = <<>> /\ peer[fd[h]] = "open"
  BY <1>4, <1>5 DEF Ready
<1>7. ASSUME HasOut(h) PROVE snd[fd[h]] # <<>>
  <2>1. "OUT" \in interest[fd[h]]
    BY <1>4, <1>7 DEF Arms, OutArm, Registered
  <2>2. ~Room(fd[h])
    BY <1>5, <2>1 DEF Ready
  <2>3. Len(<<>>) = 0 /\ SndCap \in Nat \ {0}
    BY RelayAssumption, EmptyType
  <2> QED
    BY <2>2, <2>3 DEF Room
<1> QED
  BY <1>1, <1>6, <1>7

\* Then only the beginning of a frame is left between two ends that read.
LEMMA Delivered ==
    ASSUME StreamInv, Arms, BeginInv, QueuedInv, pc = "loop", Pending = {},
           NEW h \in Handle, Live(h), fd[h][1] \notin connecting,
           snd[Other(fd[h])] = <<>>,
           NEW j \in 1..sentN[fd[h]], Script[fd[h]][j] = "end"
    PROVE  j <= Len(got[Other(fd[h])])
<1>1. IInv /\ TypeOK /\ Paired /\ Streams
  BY DEF StreamInv, IInv
<1>2. PICK p \in Handle : p = partner[h]
  BY <1>1, PairFacts
<1>3. PICK s \in Sock, t \in Sock : s = fd[h] /\ t = Other(s)
  BY <1>1, PairFacts
<1>4. Live(p) /\ partner[p] = h /\ fd[p] = t /\ Other(t) = s
  BY <1>1, <1>2, <1>3, PairFacts, SockFacts
<1>5. rcv[s] = <<>> /\ peer[t] = "open" /\ outSave[p] = <<>> /\ outQ[p] = <<>>
  <2>1. fd[p][1] \notin connecting
    BY <1>3, <1>4 DEF Other
  <2> QED
    BY <1>1, <1>3, <1>4, <2>1, Quiet DEF HasOut
<1>6. InInv(h) /\ OutInv(p) /\ ~Reset(t)
  BY <1>1, <1>4, <1>5 DEF Streams, Reset
<1>7. /\ got[t] \in Seq(Chunk) /\ inSave[h] \in Seq(Chunk)
      /\ sentN[s] \in Nat /\ Len(<<>>) = 0
  BY <1>1, EmptyType DEF TypeOK
<1>8. PICK n \in Nat, m \in Nat, r \in Nat :
        n = Len(got[t]) /\ m = Len(inSave[h]) /\ r = sentN[s]
  BY <1>7
<1>9. WrittenN(t) = n /\ PassedN(h) = r - m
  <2>1. Len(snd[t]) = 0 /\ Len(rcv[s]) = 0
    BY <1>3, <1>5, <1>7
  <2>2. WrittenN(t) = n + 0 /\ PassedN(h) = (r - 0) - m
    BY <1>3, <1>8, <2>1 DEF WrittenN, PassedN, ReadN
  <2> QED
    BY <2>2
<1>10. Chain(<<>>, s, n, r - m)
  BY <1>4, <1>5, <1>6, <1>7, <1>8, <1>9 DEF OutInv
<1>11. n = r - m
  BY <1>7, <1>10 DEF Chain
<1>12. SUFFICES ASSUME j > n PROVE FALSE
  BY <1>3, <1>8
<1>13. PICK i \in 1..m : n + i = j
  <2>1. j \in 1..r
    BY <1>3, <1>8
  <2>2. j - n \in 1..m /\ n + (j - n) = j
    BY <1>11, <1>12, <2>1
  <2> QED
    BY <2>2
<1>14. inSave[h][i] = <<s, j>>
  BY <1>3, <1>6, <1>8, <1>9, <1>11, <1>13 DEF InInv, Run
<1>15. Kind(inSave[h][i]) = "part"
  BY <1>8 DEF BeginInv
<1> QED
  BY <1>3, <1>14, <1>15 DEF Kind

\* When the thread waits and no event is pending, every complete frame has been
\* delivered and no connection that an end has left is still open: no frame
\* waits for an event that nobody will see (io_processor.cpp:30-150).
THEOREM SpecNothingLeft == Spec => []NothingLeft
<1>1. ArmedInv /\ StreamInv /\ RestInv => NothingLeft
  <2> SUFFICES ASSUME ArmedInv, StreamInv, RestInv,
                      ~stale, pc = "loop", Pending = {}, NEW s \in Sock, Open(s),
                      s[1] \notin connecting
               PROVE  /\ peer[s] = "open"
                      /\ snd[Other(s)] = <<>> =>
                           \A j \in 1..sentN[s] :
                              Script[s][j] = "end" => j <= Len(got[Other(s)])
    BY DEF NothingLeft
  <2>1. IInv /\ Arms /\ BeginInv /\ QueuedInv
    BY ArmedParts DEF RestInv
  <2>2. PICK h \in Handle : fd[h] = s
    BY DEF Open
  <2>3. Live(h)
    BY <2>2, SockFacts DEF Live
  <2> QED
    BY <2>1, <2>2, <2>3, Quiet, Delivered
<1> QED
  BY <1>1, SpecArmedInv, SpecStreamInv, SpecRestInv, PTL
=============================================================================
