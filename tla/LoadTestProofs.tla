--------------------------- MODULE LoadTestProofs ---------------------------
(***************************************************************************)
(* Proofs about LoadTest, for any number of workers, any configuration and *)
(* any capacity of the channel: types, that wg.Wait() returns only when no *)
(* operation is under way, that the index of the file to read is inside a  *)
(* list that is not empty, and that the cards keep the ratio of reads to   *)
(* writes however they are shuffled.                                       *)
(***************************************************************************)
EXTENDS LoadTest, TLAPS, FiniteSetTheorems, SequenceTheorems, WellFoundedInduction

-----------------------------------------------------------------------------
(***************************************************************************)
(* Sequences and how often a value occurs in them.                         *)
(***************************************************************************)
LEMMA CountNat ==
    ASSUME NEW S, NEW s \in Seq(S), NEW x
    PROVE  /\ CountOf(s, x) \in Nat
           /\ IsFiniteSet({i \in DOMAIN s : s[i] = x})
<1>1. IsFiniteSet(1..Len(s)) /\ DOMAIN s = 1..Len(s)
  BY FS_Interval
<1>2. IsFiniteSet({i \in DOMAIN s : s[i] = x})
  BY <1>1, FS_Subset
<1> QED
  BY <1>2, FS_CardinalityType DEF CountOf

LEMMA CountEmpty == ASSUME NEW x PROVE CountOf(<<>>, x) = 0
<1>1. {i \in DOMAIN <<>> : <<>>[i] = x} = {}
  OBVIOUS
<1> QED
  BY <1>1, FS_EmptySet DEF CountOf

LEMMA CountAppend ==
    ASSUME NEW S, NEW s \in Seq(S), NEW y \in S, NEW x
    PROVE  CountOf(Append(s, y), x) = CountOf(s, x) + (IF y = x THEN 1 ELSE 0)
<1> DEFINE t == Append(s, y)
           A == {i \in DOMAIN s : s[i] = x}
           B == {i \in DOMAIN t : t[i] = x}
           n == Len(s) + 1
<1>1. /\ Len(s) \in Nat /\ DOMAIN s = 1..Len(s) /\ DOMAIN t = 1..n
      /\ t[n] = y /\ \A i \in 1..Len(s) : t[i] = s[i]
  OBVIOUS
<1>2. n \notin A /\ B = (IF y = x THEN A \cup {n} ELSE A)
  <2> HIDE DEF t
  <2> QED
    BY <1>1
<1>3. IsFiniteSet(A) /\ Cardinality(A) \in Nat
  BY CountNat DEF CountOf
<1>4. CASE y = x
  <2>1. Cardinality(B) = Cardinality(A) + 1
    BY <1>2, <1>3, <1>4, FS_AddElement
  <2> QED
    BY <1>4, <2>1 DEF CountOf
<1>5. CASE y # x
  <2>1. Cardinality(B) = Cardinality(A)
    BY <1>2, <1>5
  <2>2. CountOf(t, x) = Cardinality(B) /\ CountOf(s, x) = Cardinality(A)
    BY DEF CountOf
  <2> HIDE DEF A, B, t
  <2>3. CountOf(t, x) = CountOf(s, x) + 0
    BY <1>3, <2>1, <2>2
  <2> QED
    BY <1>5, <2>3 DEF t
<1> QED
  BY <1>4, <1>5

\* The cards from the first on: one more card is one more at the end.
LEMMA SubSeqNext ==
    ASSUME NEW S, NEW n \in Nat, NEW c \in [1..n -> S], NEW r \in 0..(n - 1)
    PROVE  /\ SubSeq(c, 1, r) \in Seq(S) /\ c[r + 1] \in S
           /\ SubSeq(c, 1, r + 1) = Append(SubSeq(c, 1, r), c[r + 1])
           /\ SubSeq(c, 1, n) = c
<1>1. c \in Seq(S) /\ Len(c) = n
  OBVIOUS
<1>2. r \in Nat /\ r + 1 \in 1..n
  OBVIOUS
<1>3. SubSeq(c, 1, r) \in Seq(S) /\ Len(SubSeq(c, 1, r)) = r
      /\ \A i \in 1..r : SubSeq(c, 1, r)[i] = c[i]
  BY <1>1, <1>2
<1>4. SubSeq(c, 1, r + 1) \in Seq(S) /\ Len(SubSeq(c, 1, r + 1)) = r + 1
      /\ \A i \in 1..(r + 1) : SubSeq(c, 1, r + 1)[i] = c[i]
  BY <1>1, <1>2
<1>5. SubSeq(c, 1, n) \in Seq(S) /\ Len(SubSeq(c, 1, n)) = n
      /\ \A i \in 1..n : SubSeq(c, 1, n)[i] = c[i]
  BY <1>1
<1>6. SubSeq(c, 1, n) = c
  BY <1>1, <1>5, SeqEqual
<1>7. c[r + 1] \in S
  BY <1>2
<1>8. SubSeq(c, 1, r + 1) = Append(SubSeq(c, 1, r), c[r + 1])
  <2> DEFINE u == SubSeq(c, 1, r)
             v == SubSeq(c, 1, r + 1)
             x == Append(u, c[r + 1])
  <2>1. x \in Seq(S) /\ Len(x) = r + 1 /\ x[r + 1] = c[r + 1]
        /\ \A i \in 1..r : x[i] = u[i]
    <3> HIDE DEF u
    <3> QED
      BY <1>2, <1>3, <1>7 DEF u
  <2>2. \A i \in 1..(r + 1) : x[i] = v[i]
    <3> HIDE DEF u, v, x
    <3> QED
      BY <1>2, <1>3, <1>4, <2>1 DEF u, v
  <2> HIDE DEF u, v, x
  <2>3. v \in Seq(S) /\ Len(v) = r + 1
    BY <1>4 DEF v
  <2>4. v = x
    BY <2>1, <2>2, <2>3, SeqEqual
  <2> QED
    BY <2>4 DEF u, v, x
<1> QED
  BY <1>3, <1>6, <1>7, <1>8

-----------------------------------------------------------------------------
(***************************************************************************)
(* InitCards keeps the cards, whatever cards are swapped.                  *)
(***************************************************************************)
\* A deck with the right number of cards of each kind.
Decks == {c \in [1..NumCards -> {"READ", "WRITE"}] : CountOf(c, "READ") = ReadCards}

\* The cards are dealt from a deck that is not empty.
HasDeck == cfg \in Configs /\ NumCards > 0

LEMMA CardsInt ==
    ASSUME cfg \in Configs
    PROVE  /\ NumCards \in Int /\ cfg.ReadFactor \in Int /\ cfg.WriteFactor \in Int
           /\ cfg.NumFiles \in Nat /\ cfg.Type \in Types
<1>1. cfg \in [Type : Types, ReadFactor : Int, WriteFactor : Int, NumFiles : Nat]
  BY ConfigAssumption
<1> QED
  BY <1>1 DEF NumCards

\* A factor is either at most the deck, and so is the other, or there is a negative one.
LEMMA CardsFacts ==
    ASSUME HasDeck
    PROVE  /\ NumCards \in Nat \ {0} /\ ReadCards \in Nat /\ ReadCards <= NumCards
           /\ ReadCards = IF cfg.ReadFactor >= 0 /\ cfg.WriteFactor >= 0
                          THEN cfg.ReadFactor
                          ELSE NumCards \div 2
<1>1. PICK r \in Int, v \in Int, n \in Nat \ {0} :
        r = cfg.ReadFactor /\ v = cfg.WriteFactor /\ n = NumCards /\ n = r + v
  BY CardsInt DEF HasDeck, NumCards
<1>2. (n \div 2) \in Nat /\ n \div 2 <= n
  BY <1>1
<1>3. CASE r >= 0 /\ v >= 0
  <2>1. ~(r > n) /\ ~(v > n) /\ r \in Nat /\ r <= n
    BY <1>1, <1>3
  <2> QED
    BY <1>1, <1>3, <2>1 DEF ReadCards
<1>4. CASE ~(r >= 0 /\ v >= 0)
  <2>1. r > n \/ v > n
    BY <1>1, <1>4
  <2> QED
    BY <1>1, <1>2, <1>4, <2>1 DEF ReadCards
<1> QED
  BY <1>3, <1>4

\* The least number with a property: what stands for induction here.
LEMMA Least ==
    ASSUME NEW T, T \subseteq Nat, T # {}
    PROVE  \E k \in T : \A j \in T : ~(j < k)
<1>1. PICK k \in T : \A j \in T : ~(<<j, k>> \in OpToRel(<, Nat))
  BY NatLessThanWellFounded, WFMin
<1>2. \A j \in T : j < k => <<j, k>> \in OpToRel(<, Nat)
  BY DEF OpToRel
<1> QED
  BY <1>1, <1>2

LEMMA FreshDeck == ASSUME HasDeck PROVE Fresh \in Decks
<1> DEFINE A == {i \in DOMAIN Fresh : Fresh[i] = "READ"}
<1>1. Fresh \in [1..NumCards -> {"READ", "WRITE"}]
  BY DEF Fresh
<1>2. A = 1..ReadCards
  BY CardsFacts DEF Fresh
<1>3. Cardinality(1..ReadCards) = ReadCards
  BY CardsFacts, FS_Interval
<1> QED
  BY <1>1, <1>2, <1>3 DEF Decks, CountOf

LEMMA SwapDeck ==
    ASSUME HasDeck, NEW c \in Decks, NEW i \in 1..NumCards, NEW n \in 1..NumCards
    PROVE  Swap(c, i, n) \in Decks
<1> DEFINE d == Swap(c, i, n)
           A == {j \in DOMAIN c : c[j] = "READ"}
           B == {j \in DOMAIN d : d[j] = "READ"}
           to == [j \in A |-> IF j = i THEN n ELSE IF j = n THEN i ELSE j]
<1>1. c \in [1..NumCards -> {"READ", "WRITE"}] /\ Cardinality(A) = ReadCards
  BY DEF Decks, CountOf
<1>2. /\ d \in [1..NumCards -> {"READ", "WRITE"}]
      /\ d[i] = c[n] /\ d[n] = c[i]
      /\ \A j \in 1..NumCards \ {i, n} : d[j] = c[j]
  BY <1>1 DEF Swap
<1>3. DOMAIN c = 1..NumCards /\ DOMAIN d = 1..NumCards
  BY <1>1, <1>2
<1>4. to \in [A -> B]
  <2> HIDE DEF d
  <2> QED
    BY <1>2, <1>3
<1>5. \A x, y \in A : to[x] = to[y] => x = y
  OBVIOUS
<1>6. \A y \in B : \E x \in A : to[x] = y
  <2> SUFFICES ASSUME NEW y \in B PROVE \E x \in A : to[x] = y
    OBVIOUS
  <2>1. y \in 1..NumCards /\ d[y] = "READ"
    BY <1>3
  <2> HIDE DEF d, B
  <2>2. CASE y = i
    BY <1>2, <1>3, <2>1, <2>2
  <2>3. CASE y = n
    BY <1>2, <1>3, <2>1, <2>3
  <2>4. CASE y \notin {i, n}
    BY <1>2, <1>3, <2>1, <2>4
  <2> QED
    BY <2>2, <2>3, <2>4
<1>7. IsFiniteSet(A)
  <2>1. A \subseteq 1..NumCards
    BY <1>3
  <2> QED
    <3>1. IsFiniteSet(1..NumCards)
      BY CardsFacts, FS_Interval
    <3> HIDE DEF A
    <3> QED
      BY <2>1, <3>1, FS_Subset
<1>8. ExistsBijection(A, B)
  <2>1. to \in Bijection(A, B)
    <3> HIDE DEF A, B, to
    <3>1. to \in Injection(A, B)
      BY <1>4, <1>5 DEF Injection, IsInjective
    <3>2. to \in Surjection(A, B)
      BY <1>4, <1>6 DEF Surjection
    <3> QED
      BY <3>1, <3>2 DEF Bijection
  <2> QED
    BY <2>1 DEF ExistsBijection
<1>9. Cardinality(B) = ReadCards
  <2> HIDE DEF A, B
  <2> QED
    BY <1>1, <1>7, <1>8, FS_Bijection
<1> QED
  BY <1>2, <1>9 DEF Decks, CountOf

\* What swapping card i with a random one makes of the decks D, and the function
\* after of Shuffles, up to k.
Swapped(D, i) == {Swap(c, i, n) : c \in D, n \in 1..NumCards}

After(f, k) ==
    f = [i \in 0..k |-> IF i = 0 THEN {Fresh} ELSE Swapped(f[i-1], i)]

LEMMA AfterFacts ==
    ASSUME NEW k \in Nat, NEW f
    PROVE  After(f, k) <=>
              /\ f = [i \in 0..k |-> f[i]]
              /\ f[0] = {Fresh}
              /\ \A i \in 1..k : f[i] = Swapped(f[i-1], i)
<1>1. ASSUME After(f, k)
      PROVE  /\ f = [i \in 0..k |-> f[i]]
             /\ f[0] = {Fresh}
             /\ \A i \in 1..k : f[i] = Swapped(f[i-1], i)
  <2>1. \A i \in 0..k : f[i] = IF i = 0 THEN {Fresh} ELSE Swapped(f[i-1], i)
    BY <1>1 DEF After
  <2>2. f = [i \in 0..k |-> f[i]]
    BY <1>1 DEF After
  <2>3. f[0] = {Fresh}
    BY <2>1
  <2>4. \A i \in 1..k : f[i] = Swapped(f[i-1], i)
    BY <2>1
  <2> QED
    BY <2>2, <2>3, <2>4, Zenon
<1>2. ASSUME f = [i \in 0..k |-> f[i]], f[0] = {Fresh},
             \A i \in 1..k : f[i] = Swapped(f[i-1], i)
      PROVE  After(f, k)
  <2>1. \A i \in 0..k : f[i] = IF i = 0 THEN {Fresh} ELSE Swapped(f[i-1], i)
    BY <1>2
  <2> QED
    BY <1>2, <2>1 DEF After
<1> QED
  BY <1>1, <1>2

\* The recursive function of Shuffles exists, as each prefix of it does.
LEMMA AfterExists == \A k \in Nat : \E f : After(f, k)
<1> DEFINE T == {k \in Nat : ~\E f : After(f, k)}
<1>1. After([i \in 0..0 |-> {Fresh}], 0)
  BY DEF After
<1>2. ASSUME NEW k \in Nat \ {0}, NEW g, After(g, k - 1)
      PROVE  \E f : After(f, k)
  <2> DEFINE f == [i \in 0..k |-> IF i < k THEN g[i] ELSE Swapped(g[k-1], k)]
  <2>1. k - 1 \in Nat /\ g[0] = {Fresh}
        /\ \A i \in 1..(k-1) : g[i] = Swapped(g[i-1], i)
    BY <1>2, AfterFacts
  <2>2. f = [i \in 0..k |-> f[i]] /\ f[0] = {Fresh}
    BY <2>1
  <2>3. ASSUME NEW i \in 1..k PROVE f[i] = Swapped(f[i-1], i)
    <3>1. i - 1 \in 0..(k - 1) /\ f[i-1] = g[i-1]
      OBVIOUS
    <3>2. CASE i = k
      BY <3>1, <3>2
    <3>3. CASE i # k
      <4>1. i \in 1..(k-1) /\ f[i] = g[i]
        BY <3>3
      <4> HIDE DEF f
      <4> QED
        BY <2>1, <3>1, <4>1
    <3> QED
      BY <3>2, <3>3
  <2> HIDE DEF f
  <2>4. After(f, k)
    BY <2>2, <2>3, AfterFacts
  <2> QED
    BY <2>4
<1>3. T = {}
  <2> SUFFICES ASSUME T # {} PROVE FALSE
    OBVIOUS
  <2>1. PICK k \in T : \A j \in T : ~(j < k)
    BY Least
  <2>2. k \in Nat /\ k # 0
    BY <1>1, <2>1
  <2>3. k - 1 \in Nat /\ k - 1 < k
    BY <2>2
  <2>4. k - 1 \notin T
    BY <2>1, <2>3
  <2>5. PICK g : After(g, k - 1)
    BY <2>3, <2>4
  <2> QED
    BY <1>2, <2>1, <2>2, <2>5
<1> QED
  BY <1>3

\* However the cards are shuffled, ReadCards of them are READ.
LEMMA ShufflesKeep == ASSUME HasDeck PROVE Shuffles \subseteq Decks
<1> DEFINE after == CHOOSE f : After(f, NumCards)
           T == {k \in Nat : k <= NumCards /\ ~(after[k] \subseteq Decks)}
<1>1. After(after, NumCards)
  <2>1. \E f : After(f, NumCards)
    BY CardsFacts, AfterExists
  <2> QED
    BY <2>1
<1>2. Shuffles = after[NumCards]
  BY DEF Shuffles, after, After, Swapped
<1> HIDE DEF after
<1>3. /\ after[0] = {Fresh}
      /\ \A i \in 1..NumCards : after[i] = Swapped(after[i-1], i)
  BY <1>1, CardsFacts, AfterFacts
<1>4. T = {}
  <2> SUFFICES ASSUME T # {} PROVE FALSE
    OBVIOUS
  <2>1. PICK k \in T : \A j \in T : ~(j < k)
    BY Least
  <2>2. k \in 1..NumCards
    BY <1>3, <2>1, FreshDeck, CardsFacts
  <2>3. after[k-1] \subseteq Decks
    BY <2>1, <2>2, CardsFacts
  <2>4. Swapped(after[k-1], k) \subseteq Decks
    BY <2>2, <2>3, SwapDeck DEF Swapped
  <2> QED
    BY <1>3, <2>1, <2>2, <2>4
<1> QED
  BY <1>2, <1>4, CardsFacts

-----------------------------------------------------------------------------
(***************************************************************************)
(* The inductive invariant.                                                *)
(***************************************************************************)
Labels == {"start", "loop", "pick", "picked", "loaded", "get", "put", "send", "wake",
           "done"}

\* What a goroutine at l counts for: in the wait group, and as an operation under
\* way; and what StatisticsLoop counts for: in the group, and as a record it has
\* received and not yet counted.
InGroup(l)  == IF l \in {"start", "add", "wake", "done"} THEN 0 ELSE 1
UnderWay(l) == IF l \in {"start", "loop", "wake", "done"} THEN 0 ELSE 1
Holding(l)  == IF l = "handle" THEN 1 ELSE 0

Members == {w \in Worker : wpc[w] \notin {"start", "wake", "done"}}

Quiet == InFlight = {} /\ spc \notin {"select", "handle"}

\* The wait group counts who is at work, every operation begun is under way, in
\* the channel, held by StatisticsLoop or counted, and nothing is under way once
\* wg.Wait() has returned: the flag is down, so nobody begins again.
CountInv ==
    /\ wg = Cardinality(Members) + InGroup(spc)
    /\ begun = sent + Cardinality(InFlight)
    /\ sent = IOTimes + queued + Holding(spc)
    /\ run => main \in {"wait", "panic"} /\ spc # "wake" /\ \A w \in Worker : wpc[w] # "wake"
    /\ main \in {"last", "report", "exit"} => Quiet

\* Only between a := read_n and the test may a copy of read_n be too large.
FileInv ==
    cfg.NumFiles > 0 => \A w \in Worker : wpc[w] # "picked" => a[w] < cfg.NumFiles

DeckInv == RatioKept /\ \A w \in Worker : dealt[w] = <<>> => remain[w] = 0

\* What RatioKept compares with.
Reads ==
    IF cfg.ReadFactor >= 0 /\ cfg.WriteFactor >= 0 THEN cfg.ReadFactor ELSE NumCards \div 2

LInv == TypeOK /\ CountInv /\ FileInv /\ DeckInv

-----------------------------------------------------------------------------
(***************************************************************************)
(* Counting goroutines.                                                    *)
(***************************************************************************)
LEMMA Resized ==
    ASSUME NEW U, IsFiniteSet(U), NEW V, NEW x, U \ {x} = V \ {x}
    PROVE  /\ IsFiniteSet(V) /\ Cardinality(U) \in Nat /\ Cardinality(V) \in Nat
           /\ Cardinality(V) + (IF x \in U THEN 1 ELSE 0)
                = Cardinality(U) + (IF x \in V THEN 1 ELSE 0)
<1> DEFINE R == U \ {x}
<1>1. IsFiniteSet(R) /\ Cardinality(R) \in Nat
  BY FS_RemoveElement, FS_CardinalityType
<1>2. U = (IF x \in U THEN R \cup {x} ELSE R) /\ V = (IF x \in V THEN R \cup {x} ELSE R)
      /\ x \notin R
  OBVIOUS
<1> HIDE DEF R
<1>3. IsFiniteSet(R \cup {x}) /\ Cardinality(R \cup {x}) = Cardinality(R) + 1
  BY <1>1, <1>2, FS_AddElement
<1>4. /\ IsFiniteSet(V)
      /\ Cardinality(U) = Cardinality(R) + (IF x \in U THEN 1 ELSE 0)
      /\ Cardinality(V) = Cardinality(R) + (IF x \in V THEN 1 ELSE 0)
  <2>1. ASSUME NEW A, A = (IF x \in A THEN R \cup {x} ELSE R)
        PROVE  IsFiniteSet(A) /\ Cardinality(A) = Cardinality(R) + (IF x \in A THEN 1 ELSE 0)
    <3>1. CASE x \in A
      <4>1. A = R \cup {x}
        BY <2>1, <3>1
      <4> QED
        BY <1>3, <3>1, <4>1
    <3>2. CASE x \notin A
      <4>1. A = R
        BY <2>1, <3>2
      <4>2. Cardinality(R) = Cardinality(R) + 0
        BY <1>1
      <4> QED
        BY <1>1, <3>2, <4>1, <4>2
    <3> QED
      BY <3>1, <3>2
  <2> QED
    BY <1>2, <2>1
<1> QED
  BY <1>1, <1>4

LEMMA GroupFinite ==
    /\ IsFiniteSet(Members) /\ Cardinality(Members) \in Nat
    /\ IsFiniteSet(InFlight) /\ Cardinality(InFlight) \in Nat
<1>1. Members \subseteq Worker /\ InFlight \subseteq Worker
  BY DEF Members, InFlight
<1> QED
  BY <1>1, SizeAssumption, FS_Subset, FS_CardinalityType

\* A goroutine goes from one place to another.
LEMMA Moved ==
    ASSUME TypeOK, NEW w \in Worker, NEW l \in Labels, Goto(w, l)
    PROVE  /\ wpc' \in [Worker -> Labels] /\ wpc'[w] = l
           /\ \A x \in Worker \ {w} : wpc'[x] = wpc[x]
           /\ Cardinality(Members') \in Nat /\ Cardinality(InFlight') \in Nat
           /\ Cardinality(Members') + InGroup(wpc[w]) = Cardinality(Members) + InGroup(l)
           /\ Cardinality(InFlight') + UnderWay(wpc[w]) = Cardinality(InFlight) + UnderWay(l)
           /\ InFlight = {} /\ UnderWay(l) <= UnderWay(wpc[w]) => InFlight' = {}
<1>1. /\ wpc' \in [Worker -> Labels] /\ wpc'[w] = l
      /\ \A x \in Worker \ {w} : wpc'[x] = wpc[x]
  BY DEF TypeOK, Goto, Labels
<1>2. Members \ {w} = Members' \ {w} /\ InFlight \ {w} = InFlight' \ {w}
  BY <1>1 DEF Members, InFlight
<1>3. /\ w \in Members <=> wpc[w] \notin {"start", "wake", "done"}
      /\ w \in Members' <=> l \notin {"start", "wake", "done"}
      /\ w \in InFlight <=> wpc[w] \notin {"start", "loop", "wake", "done"}
      /\ w \in InFlight' <=> l \notin {"start", "loop", "wake", "done"}
  BY <1>1 DEF Members, InFlight
<1>4. /\ Cardinality(Members') \in Nat
      /\ Cardinality(Members') + (IF w \in Members THEN 1 ELSE 0)
           = Cardinality(Members) + (IF w \in Members' THEN 1 ELSE 0)
  BY <1>2, GroupFinite, Resized
<1>5. /\ Cardinality(InFlight') \in Nat
      /\ Cardinality(InFlight') + (IF w \in InFlight THEN 1 ELSE 0)
           = Cardinality(InFlight) + (IF w \in InFlight' THEN 1 ELSE 0)
  BY <1>2, GroupFinite, Resized
<1>6. ASSUME InFlight = {}, UnderWay(l) <= UnderWay(wpc[w]) PROVE InFlight' = {}
  <2>1. UnderWay(wpc[w]) = 0 /\ UnderWay(l) = 0
    BY <1>3, <1>6 DEF UnderWay
  <2>2. w \notin InFlight'
    BY <1>3, <2>1 DEF UnderWay
  <2> QED
    BY <1>2, <1>6, <2>2
<1>7. wpc[w] \in Labels
  BY DEF TypeOK, Labels
<1>8. /\ InGroup(wpc[w]) = (IF w \in Members THEN 1 ELSE 0)
      /\ InGroup(l) = (IF w \in Members' THEN 1 ELSE 0)
  BY <1>3, <1>7 DEF InGroup, Labels
<1>9. /\ UnderWay(wpc[w]) = (IF w \in InFlight THEN 1 ELSE 0)
      /\ UnderWay(l) = (IF w \in InFlight' THEN 1 ELSE 0)
  BY <1>3 DEF UnderWay
<1>10. Cardinality(Members') + InGroup(wpc[w]) = Cardinality(Members) + InGroup(l)
  BY <1>4, <1>8
<1>11. Cardinality(InFlight') + UnderWay(wpc[w]) = Cardinality(InFlight) + UnderWay(l)
  BY <1>5, <1>9
<1> QED
  BY <1>1, <1>4, <1>5, <1>6, <1>10, <1>11

LEMMA InitLInv == Init => LInv
<1> SUFFICES ASSUME Init PROVE LInv
  OBVIOUS
<1>1. Fresh \in [1..NumCards -> {"READ", "WRITE"}]
  BY DEF Fresh
<1>2. TypeOK
  <2>1. /\ cards \in [Worker -> [1..NumCards -> {"READ", "WRITE"}]]
        /\ remain \in [Worker -> {0} \cup 1..NumCards]
        /\ dealt \in [Worker -> Seq({"READ", "WRITE"})]
    BY <1>1 DEF Init
  <2>2. /\ cfg \in Configs /\ run \in BOOLEAN /\ wg = 0 /\ main = "wait" /\ spc = "start"
        /\ started \in BOOLEAN
    BY DEF Init
  <2>3. /\ wpc \in [Worker -> {"start", "loop", "pick", "picked", "loaded", "get", "put",
                              "send", "wake", "done"}]
        /\ a \in [Worker -> Nat] /\ loaded \in [Worker -> Nat] /\ read_n \in Nat
    BY DEF Init
  <2>4. /\ queued \in 0..Cap
        /\ begun \in 0..MaxOps /\ sent \in 0..MaxOps /\ IOTimes \in 0..MaxOps
    BY SizeAssumption DEF Init
  <2> QED
    BY <2>1, <2>2, <2>3, <2>4 DEF TypeOK
<1>3. Members = {} /\ InFlight = {}
  BY DEF Init, Members, InFlight
<1>4. CountInv
  BY <1>3, FS_EmptySet DEF Init, CountInv, InGroup, Holding
<1>5. FileInv
  BY CardsInt DEF Init, FileInv
<1>6. DeckInv
  BY DEF Init, DeckInv, RatioKept
<1> QED
  BY <1>2, <1>4, <1>5, <1>6 DEF LInv

-----------------------------------------------------------------------------
(***************************************************************************)
(* The workers.                                                            *)
(***************************************************************************)
\* Where a step takes a worker, and what it does to the counters.
Moves(w, l) ==
    /\ l \in Labels /\ Goto(w, l)
    /\ wg' \in Int /\ wg' + InGroup(wpc[w]) = wg + InGroup(l)
    /\ begun' \in 0..MaxOps /\ sent' \in Int /\ queued' \in 0..Cap
    /\ begun' - sent' + UnderWay(wpc[w]) = begun - sent + UnderWay(l)
    /\ sent' - queued' = sent - queued
    /\ run \/ UnderWay(l) <= UnderWay(wpc[w])
    /\ run => l # "wake"
    /\ \/ main' = main
       \/ main' = "panic"
       \/ main' = "woken" /\ wpc[w] = "wake"
    /\ UNCHANGED <<cfg, run, stats>>

LEMMA WorkerMoves ==
    ASSUME TypeOK, NEW w \in Worker, WorkerStep(w)
    PROVE  \E l \in Labels : Moves(w, l)
<1>1. /\ wg \in Nat /\ begun \in 0..MaxOps /\ sent \in Nat /\ queued \in 0..Cap
      /\ MaxOps \in Nat /\ Cap \in Nat
  BY SizeAssumption DEF TypeOK
<1>2. CASE WorkerAdd(w)
  <2>1. Moves(w, "loop")
    BY <1>1, <1>2 DEF WorkerAdd, Add, Moves, Labels, InGroup, UnderWay
  <2> QED
    BY <2>1 DEF Labels
<1>3. CASE BeginSame(w) \/ BeginCard(w)
  <2>1. PICK l \in {"pick", "put"} : Goto(w, l) /\ Begin(w)
    BY <1>3 DEF BeginSame, BeginCard
  <2>2. Moves(w, l)
    BY <1>1, <2>1 DEF Begin, Moves, Labels, InGroup, UnderWay
  <2> QED
    BY <2>1, <2>2 DEF Labels
<1>4. CASE PickFile(w)
  <2>1. Moves(w, "picked")
    BY <1>1, <1>4 DEF PickFile, Moves, Labels, InGroup, UnderWay
  <2> QED
    BY <2>1 DEF Labels
<1>5. CASE Rewind(w) \/ StoreCount(w)
  <2>1. Moves(w, "get")
    BY <1>1, <1>5 DEF Rewind, StoreCount, Moves, Labels, InGroup, UnderWay
  <2> QED
    BY <2>1 DEF Labels
<1>6. CASE CountOn(w)
  <2>1. Moves(w, "loaded")
    BY <1>1, <1>6 DEF CountOn, Moves, Labels, InGroup, UnderWay
  <2> QED
    BY <2>1 DEF Labels
<1>7. CASE Call(w)
  <2>1. Moves(w, "send")
    BY <1>1, <1>7 DEF Call, Moves, Labels, InGroup, UnderWay
  <2> QED
    BY <2>1 DEF Labels
<1>8. CASE Send(w)
  <2>1. Moves(w, "loop")
    BY <1>1, <1>8 DEF Send, Moves, Labels, InGroup, UnderWay
  <2> QED
    BY <2>1 DEF Labels
<1>9. CASE WorkerExit(w)
  <2>1. PICK l \in {"wake", "done"} : l = AfterDone
    BY DEF AfterDone
  <2>2. Moves(w, l)
    BY <1>1, <1>9, <2>1 DEF WorkerExit, Done, Moves, Labels, InGroup, UnderWay
  <2> QED
    BY <2>1, <2>2 DEF Labels
<1>10. CASE WorkerWake(w)
  <2>1. Moves(w, "done")
    BY <1>1, <1>10 DEF WorkerWake, Release, Moves, Labels, InGroup, UnderWay
  <2> QED
    BY <2>1 DEF Labels
<1>11. CASE WorkerPanics(w)
  <2>1. PICK l \in Labels : l = wpc[w]
    BY DEF TypeOK, Labels
  <2>2. Goto(w, l)
    BY <1>11, <2>1 DEF WorkerPanics, Goto, TypeOK
  <2>3. l # "wake"
    BY <1>11, <2>1 DEF WorkerPanics
  <2>4. Moves(w, l)
    BY <1>1, <1>11, <2>1, <2>2, <2>3 DEF WorkerPanics, Moves, InGroup, UnderWay
  <2> QED
    BY <2>1, <2>4
<1> QED
  BY <1>2, <1>3, <1>4, <1>5, <1>6, <1>7, <1>8, <1>9, <1>10, <1>11 DEF WorkerStep

\* A move keeps the counts.
LEMMA MoveCounts ==
    ASSUME TypeOK, CountInv, NEW w \in Worker, NEW l \in Labels, Moves(w, l)
    PROVE  /\ CountInv' /\ wg' \in Nat /\ sent' \in 0..MaxOps /\ wpc' \in [Worker -> Labels]
<1>1. /\ wg \in Nat /\ begun \in 0..MaxOps /\ sent \in Nat /\ queued \in 0..Cap
      /\ IOTimes \in Nat /\ MaxOps \in Nat /\ Cap \in Nat
  BY SizeAssumption DEF TypeOK
<1>2. PICK m \in Nat, f \in Nat, n \in Nat, g \in Nat :
        /\ m = Cardinality(Members) /\ f = Cardinality(InFlight)
        /\ n = Cardinality(Members') /\ g = Cardinality(InFlight')
        /\ n + InGroup(wpc[w]) = m + InGroup(l)
        /\ g + UnderWay(wpc[w]) = f + UnderWay(l)
  BY GroupFinite, Moved DEF Moves
<1>3. PICK i \in {0, 1}, j \in {0, 1}, u \in {0, 1}, v \in {0, 1}, s \in {0, 1}, h \in {0, 1} :
        /\ i = InGroup(wpc[w]) /\ j = InGroup(l)
        /\ u = UnderWay(wpc[w]) /\ v = UnderWay(l)
        /\ s = InGroup(spc) /\ h = Holding(spc)
  BY DEF InGroup, UnderWay, Holding
<1>4. /\ wg = m + s /\ begun = sent + f /\ sent = IOTimes + queued + h
  BY <1>2, <1>3 DEF CountInv
<1>5. /\ wg' \in Int /\ wg' + i = wg + j
      /\ begun' \in 0..MaxOps /\ sent' \in Int /\ queued' \in 0..Cap
      /\ begun' - sent' + u = begun - sent + v
      /\ sent' - queued' = sent - queued
      /\ spc' = spc /\ IOTimes' = IOTimes /\ run' = run
  BY <1>3 DEF Moves, stats
<1>6. wg' = n + s /\ wg' \in Nat
  BY <1>2, <1>3, <1>4, <1>5
<1>7. begun' = sent' + g
  BY <1>1, <1>2, <1>3, <1>4, <1>5
<1>8. sent' = IOTimes' + queued' + h /\ sent' \in 0..MaxOps
  <2>1. sent' = IOTimes' + queued' + h
    <3>1. queued' \in Nat /\ queued \in Nat /\ h \in Nat
      BY <1>1, <1>3, <1>5
    <3>2. sent - queued = IOTimes + h
      BY <1>1, <1>4, <3>1
    <3>3. PICK x \in Int, y \in Nat, st \in Int, q \in Nat :
            x = sent' /\ y = queued' /\ st = sent /\ q = queued
      BY <1>1, <1>5, <3>1
    <3>4. x - y = st - q
      BY <1>5, <3>3
    <3>5. x = st - q + y
      BY <3>4
    <3>6. sent' = sent - queued + queued'
      BY <3>3, <3>5
    <3> QED
      BY <1>1, <1>5, <3>1, <3>2, <3>6
  <2>2. sent' \in Nat
    BY <1>1, <1>3, <1>5, <2>1
  <2>3. sent' <= MaxOps
    BY <1>1, <1>2, <1>5, <1>7, <2>2
  <2> QED
    BY <1>1, <2>1, <2>2, <2>3
<1>9. main' \in {"last", "report", "exit"} => Quiet'
  <2> SUFFICES ASSUME main' \in {"last", "report", "exit"} PROVE Quiet'
    OBVIOUS
  <2>1. main' = main /\ Quiet /\ ~run
    BY DEF Moves, CountInv
  <2>2. InFlight' = {}
    BY <2>1, Moved DEF Moves, Quiet
  <2> QED
    BY <1>5, <2>1, <2>2 DEF Quiet
<1>12. run' => /\ main' \in {"wait", "panic"} /\ spc' # "wake"
              /\ \A x \in Worker : wpc'[x] # "wake"
  <2> SUFFICES ASSUME run'
               PROVE  /\ main' \in {"wait", "panic"} /\ spc' # "wake"
                      /\ \A x \in Worker : wpc'[x] # "wake"
    OBVIOUS
  <2>1. /\ run /\ main \in {"wait", "panic"} /\ spc # "wake" /\ l # "wake"
        /\ \A x \in Worker : wpc[x] # "wake"
    BY <1>5 DEF Moves, CountInv
  <2>2. main' \in {"wait", "panic"}
    BY <2>1 DEF Moves
  <2>3. wpc'[w] = l /\ \A x \in Worker \ {w} : wpc'[x] = wpc[x]
    BY Moved DEF Moves
  <2> QED
    BY <1>5, <2>1, <2>2, <2>3
<1>10. InGroup(spc') = s /\ Holding(spc') = h
  BY <1>3, <1>5
<1>11. CountInv'
  <2>1. wg' = Cardinality(Members') + InGroup(spc')
    BY <1>2, <1>6, <1>10
  <2>2. begun' = sent' + Cardinality(InFlight')
    BY <1>2, <1>7
  <2>3. sent' = IOTimes' + queued' + Holding(spc')
    BY <1>8, <1>10
  <2> QED
    BY <1>9, <1>12, <2>1, <2>2, <2>3 DEF CountInv
<1> QED
  BY <1>6, <1>8, <1>11, Moved DEF Moves

LEMMA WorkerType ==
    ASSUME LInv, NEW w \in Worker, WorkerStep(w)
    PROVE  TypeOK'
<1>1. TypeOK /\ CountInv
  BY DEF LInv
<1>2. PICK l \in Labels : Moves(w, l)
  BY <1>1, WorkerMoves
<1>3. /\ wg' \in Nat /\ sent' \in 0..MaxOps /\ wpc' \in [Worker -> Labels]
      /\ begun' \in 0..MaxOps /\ queued' \in 0..Cap
      /\ UNCHANGED <<cfg, run, stats>>
      /\ main' \in {main, "panic", "woken"}
  BY <1>1, <1>2, MoveCounts DEF Moves
<1>4. /\ cards' \in [Worker -> [1..NumCards -> {"READ", "WRITE"}]]
      /\ remain' \in [Worker -> {0} \cup 1..NumCards]
      /\ dealt' \in [Worker -> Seq({"READ", "WRITE"})]
  <2>1. CASE UNCHANGED deck
    BY <1>1, <2>1 DEF TypeOK, deck
  <2>2. CASE BeginCard(w)
    <3>1. PICK c \in (IF remain[w] = 0 THEN Shuffles ELSE {cards[w]}) :
            LET r == (IF remain[w] = 0 THEN NumCards ELSE remain[w]) - 1
                d == IF remain[w] = 0 THEN <<>> ELSE dealt[w] IN
            /\ cards' = [cards EXCEPT ![w] = c]
            /\ remain' = [remain EXCEPT ![w] = r]
            /\ dealt' = [dealt EXCEPT ![w] = Append(d, c[r + 1])]
      BY <2>2 DEF BeginCard
    <3> DEFINE r == (IF remain[w] = 0 THEN NumCards ELSE remain[w]) - 1
               d == IF remain[w] = 0 THEN <<>> ELSE dealt[w]
    <3>0. HasDeck
      BY <1>1, <2>2 DEF TypeOK, BeginCard, HasDeck
    <3>2. c \in [1..NumCards -> {"READ", "WRITE"}]
      BY <1>1, <3>0, <3>1, ShufflesKeep DEF TypeOK, Decks
    <3>3. r \in {0} \cup 1..NumCards /\ r + 1 \in 1..NumCards
      <4>1. NumCards \in Nat \ {0} /\ remain[w] \in {0} \cup 1..NumCards
        BY <1>1, <3>0, CardsFacts DEF TypeOK
      <4> QED
        BY <4>1
    <3>4. d \in Seq({"READ", "WRITE"})
      BY <1>1 DEF TypeOK
    <3>5. cards' = [cards EXCEPT ![w] = c] /\ remain' = [remain EXCEPT ![w] = r]
          /\ dealt' = [dealt EXCEPT ![w] = Append(d, c[r + 1])]
      BY <3>1
    <3> HIDE DEF r, d
    <3>6. Append(d, c[r + 1]) \in Seq({"READ", "WRITE"})
      BY <3>2, <3>3, <3>4
    <3> QED
      BY <1>1, <3>2, <3>3, <3>5, <3>6 DEF TypeOK
  <2> QED
    BY <2>1, <2>2 DEF WorkerStep, WorkerAdd, BeginSame, PickFile, Rewind, CountOn,
                      StoreCount, Call, Send, WorkerExit, WorkerWake, WorkerPanics
<1>5. a' \in [Worker -> Nat] /\ loaded' \in [Worker -> Nat] /\ read_n' \in Nat
  <2>1. a \in [Worker -> Nat] /\ loaded \in [Worker -> Nat] /\ read_n \in Nat
    BY <1>1 DEF TypeOK
  <2>2. CASE UNCHANGED files
    BY <2>1, <2>2 DEF files
  <2>3. CASE PickFile(w) \/ Rewind(w)
    BY <2>1, <2>3 DEF PickFile, Rewind
  <2>4. CASE CountOn(w) \/ StoreCount(w)
    BY <2>1, <2>4 DEF CountOn, StoreCount
  <2> QED
    BY <2>2, <2>3, <2>4 DEF WorkerStep, WorkerAdd, BeginSame, BeginCard, Call, Send,
                            WorkerExit, WorkerWake, WorkerPanics
<1>6. NumCards' = NumCards
  BY <1>3 DEF NumCards
<1> QED
  BY <1>1, <1>3, <1>4, <1>5, <1>6 DEF TypeOK, stats, Labels

\* A copy of read_n that is behind the last file goes back to the first before
\* anything is read with it.
LEMMA WorkerFile ==
    ASSUME TypeOK, FileInv, NEW w \in Worker, WorkerStep(w)
    PROVE  FileInv'
<1>0. cfg' = cfg /\ cfg.NumFiles \in Nat
  <2>1. PICK l \in Labels : Moves(w, l)
    BY WorkerMoves
  <2> QED
    BY <2>1, CardsInt DEF Moves, TypeOK
<1> SUFFICES ASSUME cfg.NumFiles > 0
             PROVE  \A x \in Worker : wpc'[x] # "picked" => a'[x] < cfg.NumFiles
  BY <1>0 DEF FileInv
<1>1. /\ a \in [Worker -> Nat] /\ wpc \in [Worker -> Labels] /\ cfg.NumFiles \in Nat \ {0}
      /\ \A x \in Worker : wpc[x] # "picked" => a[x] < cfg.NumFiles
  BY <1>0 DEF TypeOK, Labels, FileInv
<1>2. PICK l \in Labels : Goto(w, l)
  BY WorkerMoves DEF Moves
<1>3. wpc'[w] = l /\ \A x \in Worker \ {w} : wpc'[x] = wpc[x]
  BY <1>1, <1>2 DEF Goto
<1>4. CASE PickFile(w)
  <2>1. wpc'[w] = "picked" /\ \A x \in Worker \ {w} : a'[x] = a[x] /\ wpc'[x] = wpc[x]
    BY <1>1, <1>4 DEF PickFile, Goto
  <2> QED
    BY <1>1, <2>1
<1>5. CASE Rewind(w)
  <2>1. a'[w] = 0 /\ \A x \in Worker \ {w} : a'[x] = a[x]
    BY <1>1, <1>5 DEF Rewind
  <2> QED
    BY <1>1, <1>3, <2>1
<1>6. CASE CountOn(w)
  <2>1. a' = a /\ a[w] < cfg.NumFiles
    BY <1>1, <1>6 DEF CountOn, Past
  <2> QED
    BY <1>1, <1>3, <2>1
<1>7. CASE \/ WorkerAdd(w) \/ BeginSame(w) \/ BeginCard(w)
           \/ StoreCount(w) \/ Call(w) \/ Send(w) \/ WorkerExit(w)
           \/ WorkerWake(w) \/ WorkerPanics(w)
  <2>1. a' = a /\ wpc[w] # "picked"
    BY <1>7 DEF WorkerAdd, BeginSame, BeginCard, Begin, StoreCount, Call, Send,
                WorkerExit, WorkerWake, WorkerPanics, files
  <2> QED
    BY <1>1, <1>3, <2>1
<1> QED
  BY <1>4, <1>5, <1>6, <1>7 DEF WorkerStep

LEMMA ZeroPlus == \A n \in Nat : 0 + n = n
OBVIOUS

LEMMA CountCard ==
    ASSUME NEW s \in Seq({"READ", "WRITE"}), NEW y \in {"READ", "WRITE"}
    PROVE  /\ CountOf(s, "READ") \in Nat
           /\ CountOf(Append(s, y), "READ") = CountOf(s, "READ") + (IF y = "READ" THEN 1 ELSE 0)
BY CountNat, CountAppend

\* A card is dealt from what remains, or from a shuffled deck.
LEMMA WorkerDeck ==
    ASSUME TypeOK, DeckInv, NEW w \in Worker, WorkerStep(w)
    PROVE  DeckInv'
<1>0. cfg' = cfg /\ NumCards' = NumCards /\ Reads' = Reads
  <2>1. PICK l \in Labels : Moves(w, l)
    BY WorkerMoves
  <2> QED
    BY <2>1 DEF Moves, NumCards, Reads
<1>1. CASE UNCHANGED deck
  BY <1>0, <1>1 DEF DeckInv, RatioKept, deck
<1>2. CASE BeginCard(w)
  <2> DEFINE S == {"READ", "WRITE"}
  <2>0. HasDeck
    BY <1>2 DEF TypeOK, BeginCard, HasDeck
  <2>1. /\ cards \in [Worker -> [1..NumCards -> S]]
        /\ remain \in [Worker -> {0} \cup 1..NumCards] /\ dealt \in [Worker -> Seq(S)]
        /\ NumCards \in Nat \ {0}
    BY <2>0, CardsFacts DEF TypeOK
  <2>2. PICK c \in (IF remain[w] = 0 THEN Shuffles ELSE {cards[w]}) :
          LET k == (IF remain[w] = 0 THEN NumCards ELSE remain[w]) - 1
              e == IF remain[w] = 0 THEN <<>> ELSE dealt[w] IN
          /\ cards' = [cards EXCEPT ![w] = c]
          /\ remain' = [remain EXCEPT ![w] = k]
          /\ dealt' = [dealt EXCEPT ![w] = Append(e, c[k + 1])]
    BY <1>2 DEF BeginCard
  <2>3. PICK r \in 0..(NumCards - 1), d \in Seq(S) :
          /\ r = (IF remain[w] = 0 THEN NumCards ELSE remain[w]) - 1
          /\ d = IF remain[w] = 0 THEN <<>> ELSE dealt[w]
    <3>1. (IF remain[w] = 0 THEN NumCards ELSE remain[w]) - 1 \in 0..(NumCards - 1)
      BY <2>1
    <3>2. (IF remain[w] = 0 THEN <<>> ELSE dealt[w]) \in Seq(S)
      BY <2>1
    <3> QED
      BY <3>1, <3>2
  <2>4. /\ cards'[w] = c /\ remain'[w] = r /\ dealt'[w] = Append(d, c[r + 1])
        /\ \A x \in Worker \ {w} :
              cards'[x] = cards[x] /\ remain'[x] = remain[x] /\ dealt'[x] = dealt[x]
    BY <2>1, <2>2, <2>3
  <2>5. c \in [1..NumCards -> S]
    BY <2>0, <2>1, <2>2, ShufflesKeep DEF Decks
  <2>6. CountOf(d, "READ") + CountOf(SubSeq(c, 1, r + 1), "READ") = Reads
    <3>1. CASE remain[w] = 0
      <4>1. d = <<>> /\ r + 1 = NumCards /\ c \in Decks
        BY <2>0, <2>1, <2>2, <2>3, <3>1, ShufflesKeep
      <4>2. SubSeq(c, 1, r + 1) = c
        BY <2>1, <2>5, <4>1, SubSeqNext
      <4>3. CountOf(d, "READ") = 0 /\ CountOf(c, "READ") = Reads
        BY <2>0, <4>1, CountEmpty, CardsFacts DEF Decks, Reads
      <4> QED
        BY <2>0, <4>2, <4>3, CardsFacts, ZeroPlus DEF Reads
    <3>2. CASE remain[w] # 0
      <4>1. d = dealt[w] /\ r + 1 = remain[w] /\ c = cards[w] /\ dealt[w] # <<>>
        BY <2>1, <2>2, <2>3, <3>2 DEF DeckInv
      <4> QED
        BY <4>1 DEF DeckInv, RatioKept, Reads
    <3> QED
      BY <3>1, <3>2
  <2>7. /\ SubSeq(c, 1, r) \in Seq(S) /\ c[r + 1] \in S
        /\ SubSeq(c, 1, r + 1) = Append(SubSeq(c, 1, r), c[r + 1])
    BY <2>1, <2>5, SubSeqNext
  <2>8. PICK y \in S, q \in Seq(S) : y = c[r + 1] /\ q = SubSeq(c, 1, r)
    BY <2>7
  <2>9. PICK i \in {0, 1}, m \in Nat, n \in Nat :
          /\ m = CountOf(d, "READ") /\ n = CountOf(q, "READ")
          /\ CountOf(Append(d, y), "READ") = m + i
          /\ CountOf(Append(q, y), "READ") = n + i
    <3>1. CountOf(d, "READ") \in Nat /\ CountOf(q, "READ") \in Nat
      BY CountCard
    <3>2. CountOf(Append(d, y), "READ")
            = CountOf(d, "READ") + (IF y = "READ" THEN 1 ELSE 0)
      BY CountCard
    <3>3. CountOf(Append(q, y), "READ")
            = CountOf(q, "READ") + (IF y = "READ" THEN 1 ELSE 0)
      BY CountCard
    <3> QED
      BY <3>1, <3>2, <3>3
  <2>10. CountOf(dealt'[w], "READ")
           + CountOf(SubSeq(cards'[w], 1, remain'[w]), "READ") = Reads
    <3>1. m + (n + i) = Reads
      BY <2>6, <2>7, <2>8, <2>9
    <3>2. (m + i) + n = Reads
      BY <2>9, <3>1
    <3> QED
      BY <2>4, <2>8, <2>9, <3>2
  <2>11. dealt'[w] # <<>>
    <3>1. Append(d, c[r + 1]) # <<>>
      BY <2>3, <2>7, AppendProperties
    <3> QED
      BY <2>4, <3>1
  <2>12. ASSUME NEW x \in Worker \ {w}
         PROVE  /\ dealt'[x] # <<>> =>
                     CountOf(dealt'[x], "READ")
                       + CountOf(SubSeq(cards'[x], 1, remain'[x]), "READ") = Reads
                /\ dealt'[x] = <<>> => remain'[x] = 0
    BY <2>4 DEF DeckInv, RatioKept, Reads
  <2> QED
    BY <1>0, <2>10, <2>11, <2>12 DEF DeckInv, RatioKept, Reads
<1> QED
  BY <1>1, <1>2 DEF WorkerStep, WorkerAdd, BeginSame, PickFile, Rewind, CountOn,
                    StoreCount, Call, Send, WorkerExit, WorkerWake, WorkerPanics

-----------------------------------------------------------------------------
(***************************************************************************)
(* StatisticsLoop, the main goroutine, and all together.                   *)
(***************************************************************************)
LEMMA StatsKeeps ==
    ASSUME LInv, StatsStep
    PROVE  TypeOK' /\ CountInv'
<1>1. /\ wg \in Nat /\ begun \in 0..MaxOps /\ sent \in 0..MaxOps /\ queued \in 0..Cap
      /\ IOTimes \in 0..MaxOps /\ MaxOps \in Nat /\ Cap \in Nat
  BY SizeAssumption DEF LInv, TypeOK
<1>2. PICK m \in Nat : m = Cardinality(Members)
  BY GroupFinite
<1>3. /\ wg = m + InGroup(spc) /\ sent = IOTimes + queued + Holding(spc)
      /\ run => main \in {"wait", "panic"} /\ spc # "wake"
      /\ main \in {"last", "report", "exit"} => Quiet
  BY <1>2 DEF LInv, CountInv
<1>4. /\ UNCHANGED <<cfg, run, wpc, deck, files, begun, sent>>
      /\ spc' \in {"start", "add", "loop", "select", "handle", "wake", "done"}
      /\ started' \in BOOLEAN
      /\ main' \in {main, "panic", "woken"}
      /\ run => main' \in {"wait", "panic"} /\ spc' # "wake"
      /\ spc' \in {"select", "handle"} => main' = main /\ (spc = "loop" => run)
  <2>1. CASE StatsStart \/ StatsAdd \/ StatsEnter \/ StatsReceive \/ StatsTick \/ StatsHandle
    BY <1>3, <2>1 DEF LInv, TypeOK, StatsStart, StatsAdd, StatsEnter, StatsReceive, StatsTick,
                      StatsHandle
  <2>2. CASE StatsExit
    BY <1>3, <2>2 DEF LInv, TypeOK, StatsExit, AfterDone
  <2>3. CASE StatsWake \/ StatsPanics
    BY <1>3, <2>3 DEF LInv, TypeOK, StatsWake, StatsPanics, Release, stats
  <2> QED
    BY <2>1, <2>2, <2>3 DEF StatsStep
<1>5. /\ wg' \in Nat /\ wg' = m + InGroup(spc')
      /\ IOTimes' \in Nat /\ queued' \in 0..Cap /\ sent = IOTimes' + queued' + Holding(spc')
      /\ main' \in {"last", "report", "exit"} => spc' \notin {"select", "handle"}
  <2>1. CASE StatsStart
    BY <1>1, <1>2, <1>3, <2>1 DEF StatsStart, InGroup, Holding
  <2>2. CASE StatsAdd
    BY <1>1, <1>2, <1>3, <2>2 DEF StatsAdd, Add, InGroup, Holding
  <2>3. CASE StatsEnter
    BY <1>1, <1>2, <1>3, <2>3 DEF StatsEnter, InGroup, Holding
  <2>4. CASE StatsReceive
    BY <1>1, <1>2, <1>3, <2>4 DEF StatsReceive, InGroup, Holding, Quiet
  <2>5. CASE StatsTick
    BY <1>1, <1>2, <1>3, <2>5 DEF StatsTick, InGroup, Holding
  <2>6. CASE StatsHandle
    BY <1>1, <1>2, <1>3, <2>6 DEF StatsHandle, InGroup, Holding
  <2>7. CASE StatsExit
    <3>1. spc' \in {"wake", "done"}
      BY <2>7 DEF StatsExit, AfterDone
    <3> QED
      BY <1>1, <1>2, <1>3, <2>7, <3>1 DEF StatsExit, Done, InGroup, Holding
  <2>8. CASE StatsWake
    BY <1>1, <1>2, <1>3, <2>8 DEF StatsWake, InGroup, Holding
  <2>9. CASE StatsPanics
    BY <1>1, <1>2, <1>3, <2>9 DEF StatsPanics, InGroup, Holding, stats
  <2> QED
    BY <2>1, <2>2, <2>3, <2>4, <2>5, <2>6, <2>7, <2>8, <2>9 DEF StatsStep
<1>6. IOTimes' \in 0..MaxOps
  <2>1. Holding(spc') \in Nat
    BY DEF Holding
  <2> QED
    BY <1>1, <1>5, <2>1
<1>7. TypeOK'
  <2>1. NumCards' = NumCards
    BY <1>4 DEF NumCards
  <2> QED
    BY <1>4, <1>5, <1>6, <2>1 DEF LInv, TypeOK, deck, files
<1>8. Members' = Members /\ InFlight' = InFlight
  BY <1>4 DEF Members, InFlight
<1>9. CountInv'
  <2>1. main' \in {"last", "report", "exit"} => Quiet'
    BY <1>3, <1>4, <1>5, <1>8 DEF Quiet
  <2>2. begun' = sent' + Cardinality(InFlight')
    BY <1>4, <1>8 DEF LInv, CountInv
  <2>3. run' => /\ main' \in {"wait", "panic"} /\ spc' # "wake"
               /\ \A w \in Worker : wpc'[w] # "wake"
    BY <1>4 DEF LInv, CountInv
  <2>4. wg' = Cardinality(Members') + InGroup(spc') /\ sent' = IOTimes' + queued' + Holding(spc')
    BY <1>2, <1>4, <1>5, <1>8
  <2> QED
    BY <2>1, <2>2, <2>3, <2>4 DEF CountInv
<1> QED
  BY <1>7, <1>9

LEMMA MainKeeps ==
    ASSUME LInv, Main
    PROVE  TypeOK' /\ CountInv'
<1>1. /\ wg \in Nat /\ begun \in 0..MaxOps /\ sent \in 0..MaxOps /\ queued \in 0..Cap
      /\ IOTimes \in 0..MaxOps /\ MaxOps \in Nat /\ Cap \in Nat
  BY SizeAssumption DEF LInv, TypeOK
<1>2. PICK m \in Nat, f \in Nat : m = Cardinality(Members) /\ f = Cardinality(InFlight)
  BY GroupFinite
<1>3. /\ wg = m + InGroup(spc) /\ sent = IOTimes + queued + Holding(spc)
      /\ run => main \in {"wait", "panic"}
      /\ main \in {"last", "report", "exit"} => Quiet
  BY <1>2 DEF LInv, CountInv
<1>4. /\ UNCHANGED <<cfg, wg, wpc, deck, files, spc, started, begun, sent>>
      /\ main' \in {"join", "waiting", "last", "report", "exit", "panic"} /\ run' = FALSE
  BY <1>3 DEF LInv, TypeOK, Main, Stop, Join, Woken, LastRecord, Report, stats
<1>5. Members' = Members /\ InFlight' = InFlight
  BY <1>4 DEF Members, InFlight
<1>6. /\ IOTimes' \in Nat /\ queued' \in 0..Cap
      /\ sent = IOTimes' + queued' + Holding(spc)
  <2>1. Holding(spc) \in Nat
    BY DEF Holding
  <2> QED
    BY <1>1, <1>3, <2>1 DEF Main, Stop, Join, Woken, LastRecord, Report, stats
<1>7. IOTimes' \in 0..MaxOps
  <2>1. Holding(spc) \in Nat
    BY DEF Holding
  <2> QED
    BY <1>1, <1>6, <2>1
<1>8. main' \in {"last", "report", "exit"} => Quiet'
  <2> SUFFICES ASSUME main' \in {"last", "report", "exit"} PROVE Quiet
    BY <1>4, <1>5 DEF Quiet
  <2>1. CASE Join \/ Woken
    <3>1. m = 0 /\ InGroup(spc) = 0
      <4>1. wg = 0
        BY <2>1 DEF Join, Woken
      <4> QED
        BY <1>2, <1>3, <4>1 DEF InGroup
    <3>2. Members = {}
      BY <1>2, <3>1, GroupFinite, FS_EmptySet
    <3>3. InFlight \subseteq Members
      BY DEF InFlight, Members
    <3> QED
      BY <3>1, <3>2, <3>3 DEF InGroup, Quiet
  <2>2. CASE Stop \/ LastRecord \/ Report
    BY <1>3, <2>2 DEF Stop, LastRecord, Report
  <2> QED
    BY <2>1, <2>2 DEF Main
<1>9. TypeOK'
  <2>1. NumCards' = NumCards
    BY <1>4 DEF NumCards
  <2> QED
    BY <1>4, <1>6, <1>7, <2>1 DEF LInv, TypeOK, deck, files
<1>10. CountInv'
  <2>1. begun' = sent' + Cardinality(InFlight') /\ wg' = Cardinality(Members') + InGroup(spc')
    BY <1>4, <1>5 DEF LInv, CountInv
  <2> QED
    BY <1>4, <1>6, <1>8, <2>1 DEF CountInv
<1> QED
  BY <1>9, <1>10

LEMMA StepLInv == LInv /\ [Next]_vars => LInv'
<1> SUFFICES ASSUME LInv, [Next]_vars PROVE LInv'
  OBVIOUS
<1>1. TypeOK /\ CountInv /\ FileInv /\ DeckInv
  BY DEF LInv
<1>2. ASSUME NEW w \in Worker, WorkerStep(w) PROVE LInv'
  <2>1. PICK l \in Labels : Moves(w, l)
    BY <1>1, <1>2, WorkerMoves
  <2> QED
    BY <1>1, <1>2, <2>1, WorkerType, MoveCounts, WorkerFile, WorkerDeck DEF LInv
<1>3. CASE StatsStep \/ Main
  <2>1. UNCHANGED <<cfg, deck, files, wpc>>
    BY <1>3 DEF StatsStep, StatsStart, StatsAdd, StatsEnter, StatsReceive, StatsTick,
                StatsHandle, StatsExit, StatsWake, StatsPanics, Main, Stop, Join, Woken,
                LastRecord, Report
  <2>2. FileInv' /\ DeckInv'
    BY <1>1, <2>1 DEF FileInv, DeckInv, RatioKept, deck, files, NumCards
  <2> QED
    BY <1>3, <2>2, StatsKeeps, MainKeeps DEF LInv
<1>4. CASE UNCHANGED vars
  <2>1. TypeOK' /\ FileInv' /\ DeckInv'
    BY <1>1, <1>4 DEF TypeOK, FileInv, DeckInv, RatioKept, NumCards, vars, deck, files, stats
  <2>2. Members' = Members /\ InFlight' = InFlight
    BY <1>4 DEF vars, Members, InFlight
  <2>3. CountInv'
    BY <1>1, <1>4, <2>2 DEF CountInv, Quiet, vars, stats
  <2> QED
    BY <2>1, <2>3 DEF LInv
<1> QED
  BY <1>2, <1>3, <1>4 DEF Next, WorkerLoop, StatisticsLoop

\* Types, and that Done() never takes the counter of the group below zero, which
\* would be a panic (control.go, io.go).
THEOREM LoadTestType == Spec => []TypeOK
<1>1. LInv => TypeOK
  BY DEF LInv
<1> QED
  BY <1>1, InitLInv, StepLInv, PTL DEF Spec

\* When wg.Wait() has returned no operation is under way and none that was begun is
\* unaccounted for, although every goroutine joins the group in its own first step
\* (control.go, Controller.Wait); where a late Add makes the group panic there is no
\* last line to account for.
THEOREM LoadTestJoins == Spec => []NobodyAtWork
<1>1. ASSUME LInv PROVE NobodyAtWork
  <2> SUFFICES ASSUME main \in {"last", "report", "exit"}
               PROVE  /\ InFlight = {} /\ spc \notin {"select", "handle"}
                      /\ begun = IOTimes + queued
    BY DEF NobodyAtWork
  <2>1. /\ InFlight = {} /\ spc \notin {"select", "handle"}
        /\ begun = sent + Cardinality(InFlight) /\ sent = IOTimes + queued + Holding(spc)
    BY <1>1 DEF LInv, CountInv, Quiet
  <2>2. Cardinality(InFlight) = 0 /\ Holding(spc) = 0
    BY <2>1, FS_EmptySet DEF Holding
  <2>3. sent \in Nat /\ IOTimes \in Nat /\ queued \in Nat
    BY <1>1, SizeAssumption DEF LInv, TypeOK
  <2> QED
    BY <2>1, <2>2, <2>3
<1> QED
  BY <1>1, InitLInv, StepLInv, PTL DEF Spec

\* In a list that is not empty the index of the file to read is inside the list, for
\* any number of workers that change read_n without a lock (io.go, ReadLoop).
THEOREM LoadTestFiles == Spec => []FileExists
<1>1. LInv => FileExists
  BY DEF LInv, FileInv, FileExists
<1> QED
  BY <1>1, InitLInv, StepLInv, PTL DEF Spec

\* Every round of the cards has as many reads as the factor says, and half of them
\* when a factor is negative, for any factors and however InitCards shuffles (io.go,
\* InitCards, ReadWriteLoop).
THEOREM LoadTestRatio == Spec => []RatioKept
<1>1. LInv => RatioKept
  BY DEF LInv, DeckInv
<1> QED
  BY <1>1, InitLInv, StepLInv, PTL DEF Spec
=============================================================================
