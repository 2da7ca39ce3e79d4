---------------------------- MODULE ProxyV1Proofs ----------------------------
(***************************************************************************)
(* Proofs about ProxyV1, for any number of connections and processors and  *)
(* any capacity of the queue: types, that no handle is with two threads,   *)
(* that no bytes change session or direction and a client gets them in     *)
(* order, and that a freed handle is used only in a session both of whose  *)
(* handles were in flight at once.                                         *)
(***************************************************************************)
EXTENDS ProxyV1, TLAPS, FiniteSetTheorems, SequenceTheorems

-----------------------------------------------------------------------------
(***************************************************************************)
(* The inductive invariant.                                                *)
(***************************************************************************)
InWork(h)  == \E w \in Worker : wk[w].fh = h
Nowhere(h) == ~armed[h] /\ ~InFlight(h)

\* A handle is in one place: armed, once in the batch, once in the queue, or with
\* one processor.
Places ==
    /\ IsInjective(batch) /\ IsInjective(que)
    /\ \A v, w \in Worker : wk[v].fh = wk[w].fh /\ wk[w].fh # NULL => v = w
    /\ \A h \in Handle :
          /\ armed[h] => ~InFlight(h)
          /\ h \in ToSet(batch) => h \notin ToSet(que) /\ ~InWork(h)
          /\ h \in ToSet(que) => ~InWork(h)

\* A session begins with two handles nobody has, and until the broker has
\* answered only the main thread has one of them, that of the broker's socket.
Young ==
    /\ \A c \in Sess :
          client[c] \in {"away", "backlog"} => alive[S(c)] = "none" /\ alive[C(c)] = "none"
    /\ \A h \in Handle : alive[h] = "none" => Nowhere(h) /\ state[h] = "None"
    /\ \A h \in Handle :
          state[h] = "Connecting" =>
              /\ h[2] = "C" /\ Nowhere(Partner(h))
              /\ h \notin ToSet(que) /\ ~InWork(h)
              /\ alive[h] = "live" => alive[Partner(h)] = "live"

\* What epoll has is allocated, and so is its partner.  A handle in flight whose
\* partner is, or that has lost its partner or has been freed itself, is of a
\* rival session; but the processor that has freed the partner and goes on to
\* free the handle it holds is no rival.
Rivals ==
    /\ \A h \in Handle :
          /\ armed[h] => alive[h] = "live" /\ alive[Partner(h)] = "live"
          /\ InFlight(h) /\ InFlight(Partner(h)) => h[1] \in rival
          /\ InFlight(h) /\ alive[h] = "freed" => h[1] \in rival
          /\ InFlight(h) /\ alive[Partner(h)] = "freed" =>
                \/ h[1] \in rival
                \/ \E w \in Worker : wk[w].fh = h /\ wk[w].pc = "self"
    /\ \A w \in Worker : wk[w].pc = "self" => alive[Partner(wk[w].fh)] = "freed"

\* Nothing has been written to a client before the frame from the broker that is
\* under way.
Fresh ==
    \A h \in Handle : h[2] = "C" =>
        /\ armed[h] \/ h \in ToSet(batch) \/ h \in ToSet(que) \/ alive[h] = "none"
              => wire[Partner(h)] = <<>>
        /\ \A w \in Worker :
              wk[w].fh = h =>
                  /\ wk[w].pc = "read" => wire[Partner(h)] = <<>>
                  /\ wk[w].pc = "write" => Len(wire[Partner(h)]) = wk[w].n

VInv ==
    /\ TypeOK /\ Places /\ Young /\ Rivals /\ Fresh
    /\ FramesApart /\ FreedNeedsRival

-----------------------------------------------------------------------------
(***************************************************************************)
(* Handles and sequences of handles.                                       *)
(***************************************************************************)
LEMMA PartnerFacts ==
    ASSUME NEW h \in Handle
    PROVE  /\ Partner(h) \in Handle /\ Partner(Partner(h)) = h /\ Partner(h) # h
           /\ Partner(h)[1] = h[1] /\ h[1] \in Sess /\ h[2] \in {"S", "C"}
           /\ h[2] = "C" <=> Partner(h)[2] = "S"
           /\ h = S(h[1]) \/ h = C(h[1])
           /\ h # NULL
BY ProxyV1Assumption DEF Handle, Partner, S, C

LEMMA SideFacts ==
    ASSUME NEW c \in Sess
    PROVE  /\ S(c) \in Handle /\ C(c) \in Handle /\ S(c) # C(c)
           /\ Partner(S(c)) = C(c) /\ Partner(C(c)) = S(c)
           /\ S(c)[1] = c /\ C(c)[1] = c /\ S(c)[2] = "S" /\ C(c)[2] = "C"
           /\ \A h \in Handle : h[1] = c => h = S(c) \/ h = C(c)
BY DEF Handle, Partner, S, C

LEMMA TailSet ==
    ASSUME NEW T, NEW s \in Seq(T), s # <<>>, IsInjective(s)
    PROVE  /\ Head(s) \in T /\ Tail(s) \in Seq(T) /\ Len(Tail(s)) <= Len(s)
           /\ IsInjective(Tail(s))
           /\ Head(s) \in ToSet(s)
           /\ ToSet(Tail(s)) = ToSet(s) \ {Head(s)}
<1> DEFINE u == Tail(s)
           n == Len(s)
<1>1. /\ n \in Nat /\ n >= 1 /\ DOMAIN s = 1..n /\ Head(s) = s[1]
      /\ u \in Seq(T) /\ Len(u) = n - 1 /\ DOMAIN u = 1..(n - 1)
      /\ \A i \in 1..(n - 1) : u[i] = s[i + 1]
      /\ Head(s) \in T
  OBVIOUS
<1>2. \A i, j \in 1..n : s[i] = s[j] => i = j
  BY <1>1 DEF IsInjective
<1> HIDE DEF u, n
<1>3. \A i, j \in 1..(n - 1) : u[i] = u[j] => i = j
  BY <1>1, <1>2
<1>4. IsInjective(u)
  BY <1>1, <1>3 DEF IsInjective
<1>5. ToSet(s) = {s[i] : i \in 1..n} /\ ToSet(u) = {u[i] : i \in 1..(n - 1)}
  BY <1>1 DEF ToSet
<1>6. ASSUME NEW x \in ToSet(u) PROVE x \in ToSet(s) \ {Head(s)}
  <2>1. PICK i \in 1..(n - 1) : x = u[i]
    BY <1>5
  <2>2. i + 1 \in 1..n /\ i + 1 # 1 /\ 1 \in 1..n /\ x = s[i + 1]
    BY <1>1, <2>1
  <2> QED
    BY <1>1, <1>2, <1>5, <2>2
<1>7. ASSUME NEW x \in ToSet(s) \ {Head(s)} PROVE x \in ToSet(u)
  <2>1. PICK i \in 1..n : x = s[i]
    BY <1>5
  <2>2. i - 1 \in 1..(n - 1) /\ u[i - 1] = s[i]
    BY <1>1, <2>1
  <2> QED
    BY <1>5, <2>1, <2>2
<1>8. Head(s) \in ToSet(s)
  BY <1>1, <1>5
<1> QED
  BY <1>1, <1>4, <1>6, <1>7, <1>8 DEF u, n

LEMMA AppendSet ==
    ASSUME NEW T, NEW s \in Seq(T), NEW x \in T, IsInjective(s), x \notin ToSet(s)
    PROVE  /\ Append(s, x) \in Seq(T) /\ Len(Append(s, x)) = Len(s) + 1
           /\ IsInjective(Append(s, x))
           /\ ToSet(Append(s, x)) = ToSet(s) \cup {x}
<1> DEFINE u == Append(s, x)
           n == Len(s)
<1>1. /\ n \in Nat /\ DOMAIN s = 1..n
      /\ u \in Seq(T) /\ Len(u) = n + 1 /\ DOMAIN u = 1..(n + 1)
      /\ u[n + 1] = x /\ \A i \in 1..n : u[i] = s[i]
  BY AppendProperties
<1>2. \A i, j \in 1..n : s[i] = s[j] => i = j
  BY <1>1 DEF IsInjective
<1>3. \A i \in 1..n : s[i] # x
  BY <1>1 DEF ToSet
<1> HIDE DEF u, n
<1>4. IsInjective(u)
  <2>1. ASSUME NEW i \in 1..(n + 1), NEW j \in 1..(n + 1), u[i] = u[j] PROVE i = j
    <3>1. (i \in 1..n \/ i = n + 1) /\ (j \in 1..n \/ j = n + 1)
      BY <1>1
    <3> QED
      BY <1>1, <1>2, <1>3, <2>1, <3>1
  <2> QED
    BY <1>1, <2>1 DEF IsInjective
<1>5. ToSet(s) = {s[i] : i \in 1..n} /\ ToSet(u) = {u[i] : i \in 1..(n + 1)}
  BY <1>1 DEF ToSet
<1>6. \A i \in 1..(n + 1) : i \in 1..n \/ i = n + 1
  BY <1>1
<1>7. 1..n \subseteq 1..(n + 1) /\ n + 1 \in 1..(n + 1)
  BY <1>1
<1>8. ToSet(u) = ToSet(s) \cup {x}
  BY <1>1, <1>5, <1>6, <1>7
<1> QED
  BY <1>1, <1>4, <1>8 DEF u, n

\* What one epoll_wait reports is finitely much, and each handle once.
LEMMA WaitBatch ==
    ASSUME NEW b \in SetToSeqs(Pending)
    PROVE  /\ b \in Seq(Handle \cup {Listen})
           /\ IsInjective(b)
           /\ ToSet(b) \subseteq Pending
           /\ Pending \subseteq Handle \cup {Listen}
<1> DEFINE n == Cardinality(Pending)
<1>1. Pending \subseteq Handle \cup {Listen}
  BY DEF Pending
<1>2. IsFiniteSet(Handle \cup {Listen})
  <2>0. IsFiniteSet({"S"}) /\ IsFiniteSet({"C"}) /\ IsFiniteSet({Listen})
    BY FS_Singleton
  <2>1. IsFiniteSet({"S"} \cup {"C"}) /\ {"S"} \cup {"C"} = {"S", "C"}
    BY <2>0, FS_Union
  <2>2. IsFiniteSet(Handle)
    BY <2>1, ProxyV1Assumption, FS_Product DEF Handle
  <2> QED
    BY <2>0, <2>2, FS_Union
<1>3. n \in Nat
  BY <1>1, <1>2, FS_Subset, FS_CardinalityType
<1>4. b \in [1..n -> Pending] /\ \A i, j \in 1..n : i # j => b[i] # b[j]
  BY DEF SetToSeqs
<1> HIDE DEF n
<1>5. b \in Seq(Pending) /\ DOMAIN b = 1..n
  BY <1>3, <1>4
<1>6. b \in Seq(Handle \cup {Listen})
  BY <1>1, <1>3, <1>4
<1>7. IsInjective(b)
  BY <1>4, <1>5 DEF IsInjective
<1>8. ToSet(b) \subseteq Pending
  BY <1>4, <1>5 DEF ToSet
<1> QED
  BY <1>1, <1>6, <1>7, <1>8

-----------------------------------------------------------------------------
(***************************************************************************)
(* Types.                                                                  *)
(***************************************************************************)
Work == [pc : {"pop", "read", "write", "partner", "self"},
         fh : Handle \cup {NULL}, n : 0..(LastChunk - 1)]

\* What a processor holds, and what becomes of it when one of them moves.
LEMMA HeldFacts ==
    ASSUME TypeOK, NEW w \in Worker, wk[w].pc # "pop"
    PROVE  /\ wk[w].fh \in Handle /\ wk[w].n \in 0..1
           /\ Partner(wk[w].fh) \in Handle
           /\ wk[w].fh # NULL
<1>1. wk[w].fh \in Handle /\ wk[w].n \in 0..1 /\ wk[w].fh # NULL
  BY DEF TypeOK, LastChunk
<1> QED
  BY <1>1, PartnerFacts

LEMMA WkSet ==
    ASSUME TypeOK, NEW w \in Worker, NEW r \in Work, r.pc = "pop" <=> r.fh = NULL,
           wk' = [wk EXCEPT ![w] = r]
    PROVE  /\ wk' \in [Worker -> Work]
           /\ \A v \in Worker : wk'[v].pc = "pop" <=> wk'[v].fh = NULL
           /\ wk'[w] = r /\ \A v \in Worker : v # w => wk'[v] = wk[v]
BY DEF TypeOK, Work

LEMMA IdleWork == Idle \in Work /\ Idle.pc = "pop" /\ Idle.fh = NULL /\ Idle.n = 0
BY DEF Work, Idle, LastChunk

LEMMA GotoSet ==
    ASSUME TypeOK, NEW w \in Worker, NEW pc \in {"read", "write", "partner", "self"},
           wk[w].pc # "pop", Goto(w, pc)
    PROVE  \E r \in Work :
              /\ r.pc = pc /\ r.fh = wk[w].fh /\ r.n = 0 /\ r.fh # NULL
              /\ wk' = [wk EXCEPT ![w] = r]
<1> DEFINE r == [pc |-> pc, fh |-> wk[w].fh, n |-> 0]
<1>1. r \in Work /\ r.pc = pc /\ r.fh = wk[w].fh /\ r.n = 0 /\ r.fh # NULL
  BY HeldFacts DEF Work, LastChunk
<1>2. wk \in [Worker -> Work]
  BY DEF TypeOK, Work
<1>3. ASSUME NEW x \in Work
      PROVE  [[x EXCEPT !.pc = pc] EXCEPT !.n = 0] = [pc |-> pc, fh |-> x.fh, n |-> 0]
  <2> DEFINE z == [x EXCEPT !.pc = pc]
             y == [z EXCEPT !.n = 0]
  <2>0. z \in Work /\ z.pc = pc /\ z.fh = x.fh
    BY DEF Work
  <2>1. y \in Work /\ y.pc = pc /\ y.fh = x.fh /\ y.n = 0
    <3> HIDE DEF z
    <3>1. 0 \in 0..(LastChunk - 1)
      BY DEF LastChunk
    <3> QED
      BY <2>0, <3>1 DEF Work
  <2>2. y = [pc |-> y.pc, fh |-> y.fh, n |-> y.n]
    <3> HIDE DEF y
    <3> QED
      BY <2>1 DEF Work
  <2> QED
    BY <2>1, <2>2
<1>4. wk' = [wk EXCEPT ![w] = r]
  BY <1>2, <1>3 DEF Goto, Work
<1> QED
  BY <1>1, <1>4

LEMMA InitType == Init => TypeOK
<1> SUFFICES ASSUME Init PROVE TypeOK
  OBVIOUS
<1>1. Cap \in Nat /\ QSize \in Nat /\ 0 \in 0..LastChunk /\ Cap \in 0..Cap /\ 0 <= QSize
  BY ProxyV1Assumption DEF LastChunk
<1>2. /\ wk \in [Worker -> Work]
      /\ \A w \in Worker : wk[w].pc = "pop" <=> wk[w].fh = NULL
  BY IdleWork DEF Init
<1>3. /\ <<>> \in Seq(HeadKind \cup {"rest"}) /\ <<>> \in Seq(Handle \X (1..LastChunk))
      /\ <<>> \in Seq(Handle \cup {Listen}) /\ <<>> \in Seq(Handle) /\ Len(<<>>) = 0
  OBVIOUS
<1> QED
  BY <1>1, <1>2, <1>3 DEF Init, TypeOK, Work

LEMMA EventType ==
    ASSUME TypeOK, NEW e, Event(e)
    PROVE  /\ batch' \in Seq(Handle \cup {Listen}) /\ batch \in Seq(Handle \cup {Listen})
           /\ e = Head(batch) /\ e \in Handle \cup {Listen}
BY DEF TypeOK, Event

LEMMA MainType ==
    ASSUME TypeOK, Main
    PROVE  TypeOK'
<1>1. CASE Wait
  BY <1>1, WaitBatch DEF TypeOK, Wait, Disarm, net, data
<1>2. CASE AcceptFailed
  BY <1>2, EventType DEF TypeOK, AcceptFailed, Event, fhs, data
<1>3. ASSUME NEW c \in Sess, AcceptDropped(c) \/ AcceptConnected(c) \/ AcceptConnecting(c)
      PROVE TypeOK'
  <2>1. Event(Listen) /\ S(c) \in Handle /\ C(c) \in Handle
    BY <1>3, SideFacts DEF AcceptDropped, AcceptConnected, AcceptConnecting
  <2>2. CASE AcceptDropped(c)
    BY <2>1, <2>2, EventType DEF TypeOK, AcceptDropped, Event, data
  <2>3. CASE AcceptConnected(c)
    BY <2>1, <2>3, EventType DEF TypeOK, AcceptConnected, Event, data
  <2>4. CASE AcceptConnecting(c)
    BY <2>1, <2>4, EventType DEF TypeOK, AcceptConnecting, Event, data
  <2> QED
    BY <1>3, <2>2, <2>3, <2>4
<1>4. ASSUME NEW h \in Handle, OnConnected(h) \/ OnConnectFailed(h) \/ OnReady(h)
      PROVE TypeOK'
  <2>1. Event(h) /\ Partner(h) \in Handle
    BY <1>4, PartnerFacts DEF OnConnected, OnConnectFailed, OnReady
  <2>2. CASE OnConnected(h)
    BY <2>1, <2>2, EventType DEF TypeOK, OnConnected, Event, data
  <2>3. CASE OnConnectFailed(h)
    BY <2>1, <2>3, EventType DEF TypeOK, OnConnectFailed, Event, data
  <2>4. CASE OnReady(h)
    <3>1. /\ que' \in Seq(Handle) /\ Len(que') = Len(que) + 1 /\ Len(que) \in Nat
          /\ Len(que) < QSize /\ QSize \in Nat
      BY <2>4, AppendProperties, ProxyV1Assumption DEF TypeOK, OnReady, HasRoom
    <3>2. Len(que') <= QSize
      BY <3>1
    <3> QED
      BY <2>1, <2>4, <3>1, <3>2, EventType DEF TypeOK, OnReady, Event, data
  <2> QED
    BY <1>4, <2>2, <2>3, <2>4
<1>5. CASE MainUseFreed
  BY <1>5 DEF TypeOK, MainUseFreed, fhs, net, data
<1> QED
  BY <1>1, <1>2, <1>3, <1>4, <1>5 DEF Main

\* A processor that has written k chunks more of its packet.
Advances(w, k, r) ==
    /\ wk' = [wk EXCEPT ![w] = r]
    /\ \/ r = Idle
       \/ r.pc = "write" /\ r.fh = wk[w].fh /\ r.n = wk[w].n + k /\ r.fh # NULL

\* The processor that has put k chunks of its packet on the wire of p.
LEMMA PutSet ==
    ASSUME TypeOK, NEW w \in Worker, NEW p \in Handle, NEW from \in 0..1, NEW k \in 1..2,
           wk[w].pc = "write", wk[w].n + k <= LastChunk, from + k <= LastChunk,
           k <= room[p], Put(w, p, from, k)
    PROVE  /\ \E r \in Work : Advances(w, k, r)
           /\ wire' \in [Handle -> Seq(Handle \X (1..LastChunk))]
           /\ room' \in [Handle -> 0..Cap]
<1>1. wk \in [Worker -> Work] /\ wk[w].fh \in Handle /\ wk[w].n \in 0..1 /\ wk[w].fh # NULL
  BY HeldFacts DEF TypeOK, Work
<1>2. ASSUME NEW x \in Work, x.n + k # LastChunk, x.n + k <= LastChunk
      PROVE  LET z == [x EXCEPT !.n = x.n + k]
             IN  z \in Work /\ z.pc = x.pc /\ z.fh = x.fh /\ z.n = x.n + k
  <2>1. x.n \in 0..1 /\ x.n + k \in 0..(LastChunk - 1)
    BY <1>2 DEF Work, LastChunk
  <2> QED
    BY <2>1 DEF Work
<1>3. wire' \in [Handle -> Seq(Handle \X (1..LastChunk))]
  <2> DEFINE T == Handle \X (1..LastChunk)
             g == [i \in 1..k |-> <<wk[w].fh, from + i>>]
  <2>1. \A i \in 1..k : from + i \in 1..LastChunk
    BY DEF LastChunk
  <2>2. g \in Seq(T)
    BY <1>1, <2>1
  <2>3. wire \in [Handle -> Seq(T)]
    BY DEF TypeOK
  <2> HIDE DEF T, g
  <2>4. wire[p] \o g \in Seq(T)
    BY <2>2, <2>3, ConcatProperties
  <2>5. wire' = [wire EXCEPT ![p] = wire[p] \o g]
    BY DEF Put, g
  <2>6. wire' \in [Handle -> Seq(T)]
    BY <2>3, <2>4, <2>5
  <2> QED
    BY <2>6 DEF T
<1>4. room' \in [Handle -> 0..Cap]
  <2>1. room \in [Handle -> 0..Cap] /\ room' = [room EXCEPT ![p] = room[p] - k]
    BY DEF TypeOK, Put
  <2>2. Cap \in Nat /\ room[p] - k \in 0..Cap
    BY <2>1, ProxyV1Assumption
  <2> QED
    BY <2>1, <2>2
<1>5. CASE wk[w].n + k = LastChunk
  <2>1. wk' = [wk EXCEPT ![w] = Idle]
    BY <1>1, <1>5 DEF Put
  <2> QED
    BY <2>1, IdleWork, <1>3, <1>4 DEF Advances
<1>6. CASE wk[w].n + k # LastChunk
  <2> DEFINE r == [wk[w] EXCEPT !.n = wk[w].n + k]
  <2>1. wk' = [wk EXCEPT ![w] = r]
    BY <1>1, <1>6 DEF Put
  <2>2. r \in Work /\ r.pc = "write" /\ r.fh = wk[w].fh /\ r.n = wk[w].n + k
    BY <1>1, <1>2, <1>6
  <2> QED
    BY <1>1, <1>3, <1>4, <2>1, <2>2 DEF Advances
<1> QED
  BY <1>5, <1>6

\* A processor that works on a handle moves on to a place where it still does.
Moves(w) ==
    \E r \in Work :
        /\ r.fh = wk[w].fh /\ r.fh # NULL /\ r.pc \in {"read", "write", "partner", "self"}
        /\ wk' = [wk EXCEPT ![w] = r]

LEMMA GotoMoves ==
    ASSUME TypeOK, NEW w \in Worker, NEW pc \in {"read", "write", "partner", "self"},
           wk[w].pc # "pop", Goto(w, pc)
    PROVE  Moves(w) /\ wk'[w].pc = pc /\ wk'[w].n = 0
<1>1. PICK r \in Work : /\ r.pc = pc /\ r.fh = wk[w].fh /\ r.n = 0 /\ r.fh # NULL
                        /\ wk' = [wk EXCEPT ![w] = r]
  BY GotoSet
<1>2. wk \in [Worker -> Work]
  BY DEF TypeOK, Work
<1> QED
  BY <1>1, <1>2 DEF Moves

LEMMA MovesType ==
    ASSUME TypeOK, NEW w \in Worker, Moves(w)
    PROVE  /\ wk' \in [Worker -> Work]
           /\ \A v \in Worker : wk'[v].pc = "pop" <=> wk'[v].fh = NULL
           /\ \A v \in Worker : wk'[v].fh = wk[v].fh
           /\ \A v \in Worker : v # w => wk'[v] = wk[v]
<1>1. PICK r \in Work : /\ r.fh = wk[w].fh /\ r.fh # NULL
                        /\ r.pc \in {"read", "write", "partner", "self"}
                        /\ wk' = [wk EXCEPT ![w] = r]
  BY DEF Moves
<1>2. /\ wk' \in [Worker -> Work]
      /\ \A v \in Worker : wk'[v].pc = "pop" <=> wk'[v].fh = NULL
      /\ wk'[w] = r /\ \A v \in Worker : v # w => wk'[v] = wk[v]
  BY <1>1, WkSet
<1> QED
  BY <1>1, <1>2

\* Packet::Read takes a chunk.
LEMMA ReadMoves ==
    ASSUME TypeOK, NEW w \in Worker, ReadChunk(w)
    PROVE  /\ Moves(w) /\ wk'[w].pc \in {"read", "write"}
           /\ wk'[w].pc = "write" => wk'[w].n = 0
           /\ rcv' \in [Handle -> Seq(HeadKind \cup {"rest"})]
<1>1. wk \in [Worker -> Work] /\ wk[w].fh \in Handle /\ wk[w].n \in 0..1 /\ wk[w].fh # NULL
      /\ wk[w].pc = "read"
  BY HeldFacts DEF TypeOK, Work, ReadChunk, At, Ready
<1>2. rcv' \in [Handle -> Seq(HeadKind \cup {"rest"})]
  <2> DEFINE h == wk[w].fh
             T == HeadKind \cup {"rest"}
  <2>1. rcv \in [Handle -> Seq(T)] /\ rcv[h] # <<>> /\ rcv' = [rcv EXCEPT ![h] = Tail(rcv[h])]
    BY DEF TypeOK, ReadChunk
  <2> HIDE DEF h, T
  <2>2. h \in Handle /\ rcv[h] \in Seq(T) /\ Tail(rcv[h]) \in Seq(T)
    BY <1>1, <2>1 DEF h
  <2>3. rcv' \in [Handle -> Seq(T)]
    BY <2>1, <2>2
  <2> QED
    BY <2>3 DEF T
<1>3. CASE wk[w].n + 1 = LastChunk
  <2>1. Goto(w, "write")
    BY <1>3 DEF ReadChunk
  <2> QED
    BY <1>1, <1>2, <2>1, GotoMoves
<1>4. CASE wk[w].n + 1 # LastChunk
  <2> DEFINE r == [wk[w] EXCEPT !.n = wk[w].n + 1]
  <2>1. wk[w].n = 0
    BY <1>1, <1>4 DEF LastChunk
  <2>2. wk' = [wk EXCEPT ![w] = r]
    BY <1>1, <1>4 DEF ReadChunk, Work
  <2>3. r \in Work /\ r.fh = wk[w].fh /\ r.pc = "read"
    BY <1>1, <2>1 DEF Work, LastChunk
  <2> HIDE DEF r
  <2>4. Moves(w) /\ wk'[w].pc = "read"
    BY <1>1, <2>2, <2>3 DEF Moves
  <2> QED
    BY <1>2, <2>4
<1> QED
  BY <1>3, <1>4

\* The chunks WriteBlocking and WriteNonblocking put on the wire.
LEMMA WriteCount ==
    ASSUME TypeOK, NEW w \in Worker, WriteBlocking(w) \/ WriteNonblocking(w)
    PROVE  \E from \in 0..1, k \in 1..2 :
              /\ Put(w, Partner(wk[w].fh), from, k)
              /\ wk[w].n + k <= LastChunk /\ from + k <= LastChunk
              /\ k <= room[Partner(wk[w].fh)]
              /\ Blocking(Partner(wk[w].fh)) => from = wk[w].n /\ k = 1
<1> DEFINE p == Partner(wk[w].fh)
<1>1. p \in Handle /\ wk[w].n \in 0..1 /\ room[p] \in Nat /\ room[p] > 0
  <2>1. wk[w].pc = "write" /\ room[p] > 0
    BY DEF WriteBlocking, WriteNonblocking, At, Ready, Target
  <2>2. p \in Handle /\ wk[w].n \in 0..1
    BY <2>1, HeldFacts
  <2>3. room[p] \in 0..Cap
    BY <2>2 DEF TypeOK
  <2> QED
    BY <2>1, <2>2, <2>3, ProxyV1Assumption
<1>2. CASE WriteBlocking(w)
  <2>1. Put(w, p, wk[w].n, 1)
    BY <1>2 DEF WriteBlocking, Target
  <2> QED
    BY <1>1, <2>1 DEF LastChunk
<1>3. CASE WriteNonblocking(w)
  <2> DEFINE k == IF room[p] < LastChunk - wk[w].n THEN room[p] ELSE LastChunk - wk[w].n
  <2>1. Put(w, p, 0, k) /\ ~Blocking(p)
    BY <1>3 DEF WriteNonblocking, Target
  <2>2. k \in 1..2 /\ wk[w].n + k <= LastChunk /\ 0 + k <= LastChunk /\ k <= room[p]
    BY <1>1 DEF LastChunk
  <2> HIDE DEF k, p
  <2>3. 0 \in 0..1
    OBVIOUS
  <2> QED
    BY <2>1, <2>2, <2>3 DEF p
<1> QED
  BY <1>2, <1>3

LEMMA ProcessorType ==
    ASSUME TypeOK, NEW w \in Worker, Processor(w)
    PROVE  TypeOK'
<1>1. CASE Pop(w)
  <2> DEFINE r == [pc |-> "read", fh |-> Head(que), n |-> 0]
  <2>1. /\ que \in Seq(Handle) /\ que # <<>> /\ Len(que) <= QSize
        /\ que' = Tail(que) /\ wk' = [wk EXCEPT ![w] = r]
    BY <1>1 DEF Pop, TypeOK
  <2>2. /\ Head(que) \in Handle /\ Tail(que) \in Seq(Handle) /\ Len(Tail(que)) <= QSize
    BY <2>1, ProxyV1Assumption
  <2>3. r \in Work /\ r.pc # "pop" /\ r.fh # NULL
    BY <2>2, PartnerFacts DEF Work, LastChunk
  <2> HIDE DEF r
  <2>4. /\ wk' \in [Worker -> Work]
        /\ \A v \in Worker : wk'[v].pc = "pop" <=> wk'[v].fh = NULL
    BY <2>1, <2>3, WkSet
  <2> QED
    BY <1>1, <2>1, <2>2, <2>4 DEF TypeOK, Work, Pop, At, fhs, net, data
<1>2. CASE ReadChunk(w)
  <2>1. /\ wk' \in [Worker -> Work]
        /\ \A v \in Worker : wk'[v].pc = "pop" <=> wk'[v].fh = NULL
        /\ rcv' \in [Handle -> Seq(HeadKind \cup {"rest"})]
    BY <1>2, ReadMoves, MovesType
  <2> QED
    BY <1>2, <2>1 DEF TypeOK, Work, ReadChunk, At, fhs, net
<1>3. CASE ReadOff(w) \/ ReadErr(w) \/ WriteErr(w)
  <2>1. wk[w].pc # "pop" /\ Goto(w, "partner")
    BY <1>3 DEF ReadOff, ReadErr, WriteErr, At, Ready
  <2>2. /\ wk' \in [Worker -> Work]
        /\ \A v \in Worker : wk'[v].pc = "pop" <=> wk'[v].fh = NULL
    BY <2>1, GotoMoves, MovesType
  <2>3. UNCHANGED <<fhs, net, data, batch, que, rival, used, gone>>
    BY <1>3 DEF ReadOff, ReadErr, WriteErr, At
  <2> QED
    BY <2>2, <2>3 DEF TypeOK, Work, fhs, net, data
<1>4. CASE WriteBlocking(w) \/ WriteNonblocking(w)
  <2>1. PICK from \in 0..1, k \in 1..2 :
              /\ Put(w, Partner(wk[w].fh), from, k)
              /\ wk[w].n + k <= LastChunk /\ from + k <= LastChunk
              /\ k <= room[Partner(wk[w].fh)]
    BY <1>4, WriteCount
  <2>2. wk[w].pc = "write" /\ Partner(wk[w].fh) \in Handle
    BY <1>4, HeldFacts DEF WriteBlocking, WriteNonblocking, At, Ready
  <2>3. /\ \E r \in Work : Advances(w, k, r)
        /\ wire' \in [Handle -> Seq(Handle \X (1..LastChunk))]
        /\ room' \in [Handle -> 0..Cap]
    BY <2>1, <2>2, PutSet
  <2>4. /\ wk' \in [Worker -> Work]
        /\ \A v \in Worker : wk'[v].pc = "pop" <=> wk'[v].fh = NULL
    <3>1. PICK r \in Work : Advances(w, k, r)
      BY <2>3
    <3>2. r.pc = "pop" <=> r.fh = NULL
      BY <3>1, IdleWork DEF Advances
    <3> QED
      BY <3>1, <3>2, WkSet DEF Advances
  <2>5. UNCHANGED <<fhs, net, rcv, batch, que, rival, used, gone>>
    BY <1>4, <2>1 DEF WriteBlocking, WriteNonblocking, At, Put
  <2> QED
    BY <2>3, <2>4, <2>5 DEF TypeOK, Work, fhs, net
<1>5. CASE DestroyPartner(w)
  <2>1. wk[w].pc # "pop" /\ Goto(w, "self")
    BY <1>5 DEF DestroyPartner, At, Ready
  <2>2. /\ wk' \in [Worker -> Work]
        /\ \A v \in Worker : wk'[v].pc = "pop" <=> wk'[v].fh = NULL
    BY <2>1, GotoMoves, MovesType
  <2>3. /\ alive' \in [Handle -> {"none", "live", "freed"}]
        /\ armed' \in [Handle -> BOOLEAN]
    BY <1>5 DEF TypeOK, DestroyPartner, Free
  <2> QED
    BY <1>5, <2>2, <2>3 DEF TypeOK, Work, DestroyPartner, Free, At, net, data
<1>6. CASE DestroySelf(w)
  <2>1. /\ wk' \in [Worker -> Work]
        /\ \A v \in Worker : wk'[v].pc = "pop" <=> wk'[v].fh = NULL
    BY <1>6, IdleWork, WkSet DEF DestroySelf
  <2>2. /\ alive' \in [Handle -> {"none", "live", "freed"}]
        /\ armed' \in [Handle -> BOOLEAN]
    BY <1>6 DEF TypeOK, DestroySelf, Free
  <2> QED
    BY <1>6, <2>1, <2>2 DEF TypeOK, Work, DestroySelf, Free, At, net, data
<1>7. CASE Sigpipe(w)
  BY <1>7 DEF TypeOK, Sigpipe, fhs, net, data
<1>8. CASE WorkerUseFreed(w)
  <2>1. PICK h \in Uses(w) : used' = {h}
    BY <1>8 DEF WorkerUseFreed
  <2>2. h \in Handle
    BY <2>1, HeldFacts DEF Uses, TypeOK
  <2> QED
    BY <1>8, <2>1, <2>2 DEF TypeOK, WorkerUseFreed, fhs, net, data
<1> QED
  BY <1>1, <1>2, <1>3, <1>4, <1>5, <1>6, <1>7, <1>8 DEF Processor

LEMMA RemoteType ==
    ASSUME TypeOK, Remote
    PROVE  TypeOK'
<1>1. ASSUME NEW c \in Sess, Arrive(c) PROVE TypeOK'
  BY <1>1 DEF TypeOK, Arrive, Env, fhs, data
<1>2. ASSUME NEW c \in Sess, Answer(c) PROVE TypeOK'
  <2>1. PICK a \in {"up", "refused"} : broker' = [broker EXCEPT ![c] = a]
    BY <1>2 DEF Answer
  <2> QED
    BY <1>2, <2>1 DEF TypeOK, Answer, Env, fhs, data
<1>3. ASSUME NEW h \in Handle, PeerSend(h) PROVE TypeOK'
  <2> DEFINE T == HeadKind \cup {"rest"}
  <2>1. PICK k \in T : rcv' = [rcv EXCEPT ![h] = Append(rcv[h], k)]
    BY <1>3 DEF PeerSend
  <2>2. rcv \in [Handle -> Seq(T)] /\ sent \in [Handle -> 0..LastChunk]
    BY DEF TypeOK
  <2> HIDE DEF T
  <2>3. Append(rcv[h], k) \in Seq(T)
    BY <2>2, AppendProperties
  <2>4. rcv' \in [Handle -> Seq(T)]
    BY <2>1, <2>2, <2>3
  <2>5. sent' \in [Handle -> 0..LastChunk]
    BY <1>3, <2>2 DEF PeerSend, LastChunk
  <2> QED
    BY <1>3, <2>4, <2>5 DEF TypeOK, PeerSend, Env, fhs, T
<1>4. ASSUME NEW h \in Handle, PeerTake(h) PROVE TypeOK'
  <2>1. room' \in [Handle -> 0..Cap]
    BY <1>4, ProxyV1Assumption DEF TypeOK, PeerTake
  <2> QED
    BY <1>4, <2>1 DEF TypeOK, PeerTake, Env, fhs
<1>5. ASSUME NEW h \in Handle, PeerClose(h) PROVE TypeOK'
  <2>1. PICK how \in (plan[h] \cap Close) : peer' = [peer EXCEPT ![h] = how]
    BY <1>5 DEF PeerClose
  <2>2. how \in {"fin", "rst"}
    BY DEF Close
  <2> QED
    BY <1>5, <2>1, <2>2 DEF TypeOK, PeerClose, Env, fhs, data
<1> QED
  BY <1>1, <1>2, <1>3, <1>4, <1>5 DEF Remote

LEMMA StepType == TypeOK /\ [Next]_vars => TypeOK'
<1> SUFFICES ASSUME TypeOK, [Next]_vars PROVE TypeOK'
  OBVIOUS
<1>1. CASE UNCHANGED vars
  BY <1>1 DEF TypeOK, vars, fhs, net, data
<1> QED
  BY <1>1, MainType, ProcessorType, RemoteType DEF Next

\* Types, for any number of connections and processors and any capacity: what a
\* processor works on is a handle, and que_ never holds more than its capacity.
THEOREM ProxyV1Types == Spec => []TypeOK
BY InitType, StepType, PTL DEF Spec

-----------------------------------------------------------------------------
(***************************************************************************)
(* Who has a handle: Places, Young and Rivals, action by action.           *)
(***************************************************************************)
Holding == Places /\ Young /\ Rivals

LEMMA EmptySet == ToSet(<<>>) = {}
BY DEF ToSet

LEMMA EventSets ==
    ASSUME TypeOK, Holding, NEW e, Event(e)
    PROVE  /\ IsInjective(batch') /\ ToSet(batch') = ToSet(batch) \ {e}
           /\ e \in ToSet(batch)
<1>1. /\ batch \in Seq(Handle \cup {Listen}) /\ batch # <<>> /\ IsInjective(batch)
      /\ batch' = Tail(batch) /\ Head(batch) = e
  BY DEF TypeOK, Holding, Places, Event
<1> QED
  BY <1>1, TailSet

LEMMA InitHolding == Init => Holding
<1> SUFFICES ASSUME Init PROVE Holding
  OBVIOUS
<1>1. /\ ToSet(batch) = {} /\ ToSet(que) = {} /\ IsInjective(batch) /\ IsInjective(que)
  BY EmptySet DEF Init, IsInjective
<1>2. /\ \A w \in Worker : wk[w].fh = NULL /\ wk[w].pc = "pop"
      /\ \A h \in Handle : armed[h] = FALSE /\ alive[h] = "none" /\ state[h] = "None"
  BY DEF Init, Idle
<1>3. \A h \in Handle : ~InFlight(h) /\ h # NULL
  BY <1>1, <1>2, PartnerFacts DEF InFlight
<1>4. Places
  BY <1>1, <1>2, <1>3 DEF Places, InWork
<1>5. Young
  BY <1>2, <1>3, PartnerFacts, SideFacts DEF Young, Nowhere
<1>6. Rivals
  BY <1>2, <1>3 DEF Rivals
<1> QED
  BY <1>4, <1>5, <1>6 DEF Holding

LEMMA WaitHolding == ASSUME TypeOK, Holding, Wait PROVE Holding'
<1>1. /\ batch' \in SetToSeqs(Pending) /\ ToSet(batch) = {}
      /\ UNCHANGED <<alive, state, client, que, wk>>
      /\ \A h \in Handle : armed'[h] <=> armed[h] /\ h \notin Pending
  BY EmptySet DEF Wait, Disarm, net, TypeOK
<1>2. IsInjective(batch') /\ ToSet(batch') \subseteq Pending
  BY <1>1, WaitBatch
<1>3. \A h \in Handle : h \in Pending => armed[h]
  BY PartnerFacts DEF Pending, Listen
<1>4. \A h \in Handle : InFlight(h)' => InFlight(h) \/ h \in Pending
  BY <1>1, <1>2 DEF InFlight
<1>5. \A h \in Handle : InFlight(h)' /\ InFlight(Partner(h))' => h[1] \in rival'
  <2> SUFFICES ASSUME NEW h \in Handle, InFlight(h)', InFlight(Partner(h))'
               PROVE  h[1] \in rival'
    OBVIOUS
  <2>1. /\ h[1] \in Sess /\ Partner(h) \in Handle
        /\ \A g \in {S(h[1]), C(h[1])} : g = h \/ g = Partner(h)
    BY PartnerFacts, SideFacts
  <2>2. InFlight(h) \/ h \in Pending
    BY <1>4
  <2>3. InFlight(Partner(h)) \/ Partner(h) \in Pending
    BY <1>4, <2>1
  <2>4. \A g \in {S(h[1]), C(h[1])} : InFlight(g) \/ g \in Pending
    BY <2>1, <2>2, <2>3
  <2> QED
    BY <2>1, <2>4 DEF Wait
<1>6. rival \subseteq rival'
  BY DEF Wait
<1>7. Places'
  BY <1>1, <1>2, <1>3, <1>4 DEF Holding, Places, InWork, InFlight
<1>8. Young'
  BY <1>1, <1>3, <1>4, PartnerFacts, SideFacts DEF Holding, Young, Nowhere, InWork
<1>9. Rivals'
  BY <1>1, <1>3, <1>4, <1>5, <1>6, PartnerFacts DEF Holding, Rivals
<1> QED
  BY <1>7, <1>8, <1>9 DEF Holding

LEMMA AcceptHolding ==
    ASSUME TypeOK, Holding, NEW c \in Sess,
           AcceptDropped(c) \/ AcceptConnected(c) \/ AcceptConnecting(c)
    PROVE  Holding'
<1>1. /\ Event(Listen) /\ client[c] = "backlog"
      /\ UNCHANGED <<que, wk, rival>>
      /\ S(c) \in Handle /\ C(c) \in Handle /\ S(c) # C(c)
      /\ Partner(S(c)) = C(c) /\ Partner(C(c)) = S(c)
      /\ \A h \in Handle : h # Listen
  BY SideFacts, PartnerFacts DEF AcceptDropped, AcceptConnected, AcceptConnecting, Event, Listen
<1>2. /\ IsInjective(batch')
      /\ \A h \in Handle : h \in ToSet(batch') <=> h \in ToSet(batch)
  BY <1>1, EventSets
<1>3. \A h \in Handle : InFlight(h)' <=> InFlight(h)
  BY <1>1, <1>2 DEF InFlight
<1>4. \A h \in {S(c), C(c)} : alive[h] = "none" /\ Nowhere(h) /\ state[h] = "None"
  BY <1>1 DEF Holding, Young
<1>5. \A h \in Handle : h # S(c) /\ h # C(c) => Partner(h) # S(c) /\ Partner(h) # C(c)
  BY <1>1, PartnerFacts
<1>6. \A h \in Handle : h \notin {S(c), C(c)} =>
         alive'[h] = alive[h] /\ state'[h] = state[h] /\ armed'[h] = armed[h]
  BY <1>1 DEF AcceptDropped, AcceptConnected, AcceptConnecting, TypeOK
<1>7. client' \in [Sess -> {"away", "backlog", "taken", "closed"}]
      /\ client'[c] \in {"taken", "closed"} /\ \A d \in Sess : d # c => client'[d] = client[d]
  <2>1. PICK x \in {"taken", "closed"} : client' = [client EXCEPT ![c] = x]
    BY DEF AcceptDropped, AcceptConnected, AcceptConnecting
  <2>2. client \in [Sess -> {"away", "backlog", "taken", "closed"}]
    BY DEF TypeOK
  <2> QED
    BY <2>1, <2>2
<1>8. \A d \in Sess : d # c => S(d) \notin {S(c), C(c)} /\ C(d) \notin {S(c), C(c)}
  BY SideFacts
<1>9. \/ /\ alive'[S(c)] = "freed" /\ alive'[C(c)] = "none"
         /\ ~armed'[S(c)] /\ ~armed'[C(c)] /\ state'[S(c)] = "None" /\ state'[C(c)] = "None"
      \/ /\ alive'[S(c)] = "live" /\ alive'[C(c)] = "live"
         /\ ~armed'[C(c)] /\ state'[S(c)] = "None" /\ state'[C(c)] = "None"
      \/ /\ alive'[S(c)] = "live" /\ alive'[C(c)] = "live"
         /\ ~armed'[S(c)] /\ state'[S(c)] = "None"
  BY <1>1, <1>4 DEF AcceptDropped, AcceptConnected, AcceptConnecting, TypeOK, Nowhere
<1>10. Places'
  BY <1>1, <1>2, <1>3, <1>4, <1>6 DEF Holding, Places, InWork, Nowhere
<1>11. Young'
  <2>1. \A d \in Sess : client'[d] \in {"away", "backlog"} =>
            alive'[S(d)] = "none" /\ alive'[C(d)] = "none"
    BY <1>6, <1>7, <1>8, SideFacts DEF Holding, Young
  <2>2. \A h \in Handle : alive'[h] = "none" => Nowhere(h)' /\ state'[h] = "None"
    BY <1>3, <1>4, <1>6, <1>9 DEF Holding, Young, Nowhere
  <2>3. \A h \in Handle :
          state'[h] = "Connecting" =>
              /\ h[2] = "C" /\ Nowhere(Partner(h))'
              /\ h \notin ToSet(que') /\ ~InWork(h)'
              /\ alive'[h] = "live" => alive'[Partner(h)] = "live"
    <3> TAKE h \in Handle
    <3>1. CASE h \notin {S(c), C(c)}
      <4>1. Partner(h) \in Handle \ {S(c), C(c)}
        BY <1>5, <3>1, PartnerFacts
      <4> QED
        BY <1>1, <1>3, <1>6, <3>1, <4>1 DEF Holding, Young, Nowhere, InWork
    <3>2. CASE h \in {S(c), C(c)}
      <4>1. h \notin ToSet(que') /\ ~InWork(h)'
        BY <1>1, <1>4, <3>2 DEF Nowhere, InFlight, InWork
      <4>2. C(c)[2] = "C"
        BY SideFacts
      <4> QED
        BY <1>1, <1>3, <1>4, <1>9, <3>2, <4>1, <4>2 DEF Nowhere
    <3> QED
      BY <3>1, <3>2
  <2> QED
    BY <2>1, <2>2, <2>3 DEF Young
<1>12. Rivals'
  <2>1. ASSUME NEW h \in Handle
        PROVE  /\ armed'[h] => alive'[h] = "live" /\ alive'[Partner(h)] = "live"
               /\ InFlight(h)' /\ InFlight(Partner(h))' => h[1] \in rival'
               /\ InFlight(h)' /\ alive'[h] = "freed" => h[1] \in rival'
               /\ InFlight(h)' /\ alive'[Partner(h)] = "freed" =>
                     \/ h[1] \in rival'
                     \/ \E w \in Worker : wk'[w].fh = h /\ wk'[w].pc = "self"
    <3>1. CASE h \notin {S(c), C(c)}
      <4>1. Partner(h) \in Handle \ {S(c), C(c)}
        BY <1>5, <3>1, PartnerFacts
      <4> QED
        BY <1>1, <1>3, <1>6, <3>1, <4>1 DEF Holding, Rivals
    <3>2. CASE h \in {S(c), C(c)}
      BY <1>1, <1>3, <1>4, <1>9, <3>2 DEF Nowhere
    <3> QED
      BY <3>1, <3>2
  <2>2. \A w \in Worker : wk'[w].pc = "self" => alive'[Partner(wk'[w].fh)] = "freed"
    <3> TAKE w \in Worker
    <3> HAVE wk'[w].pc = "self"
    <3>1. wk[w].pc = "self" /\ wk' = wk /\ alive[Partner(wk[w].fh)] = "freed"
      BY <1>1 DEF Holding, Rivals
    <3>2. Partner(wk[w].fh) \in Handle
      BY <3>1, HeldFacts
    <3> QED
      BY <1>4, <1>6, <3>1, <3>2
  <2> QED
    BY <2>1, <2>2 DEF Rivals
<1> QED
  BY <1>10, <1>11, <1>12 DEF Holding

LEMMA OnHolding ==
    ASSUME TypeOK, Holding, NEW h \in Handle,
           OnConnected(h) \/ OnConnectFailed(h) \/ OnReady(h)
    PROVE  Holding'
<1> DEFINE p == Partner(h)
<1>1. /\ Event(h) /\ alive[h] = "live"
      /\ UNCHANGED <<client, wk, rival>>
      /\ p \in Handle /\ p # h /\ Partner(p) = h /\ p[1] = h[1] /\ h # NULL
      /\ \A g \in Handle : Partner(g) \in Handle
      /\ \A g \in Handle : g # h /\ g # p => Partner(g) # h /\ Partner(g) # p
      /\ h[2] = "C" => p[2] = "S"
  <2>1. /\ p \in Handle /\ p # h /\ Partner(p) = h /\ p[1] = h[1] /\ h # NULL
        /\ h[2] = "C" => p[2] = "S"
    BY PartnerFacts
  <2>2. \A g \in Handle : Partner(g) \in Handle /\ Partner(Partner(g)) = g
    BY PartnerFacts
  <2>3. /\ Event(h) /\ alive[h] = "live" /\ UNCHANGED <<client, wk, rival>>
    BY <2>1 DEF OnConnected, OnConnectFailed, OnReady, Event, Listen
  <2> QED
    BY <2>1, <2>2, <2>3
<1>2. /\ IsInjective(batch') /\ ToSet(batch') = ToSet(batch) \ {h} /\ h \in ToSet(batch)
  BY <1>1, EventSets
<1>3. ~armed[h] /\ h \notin ToSet(que) /\ ~InWork(h) /\ InFlight(h)
  BY <1>2 DEF Holding, Places, InFlight
<1> HIDE DEF p
<1>4. \A d \in Sess : client[d] \in {"away", "backlog"} =>
          alive[S(d)] = "none" /\ alive[C(d)] = "none"
  BY DEF Holding, Young
<1>5. CASE OnConnected(h) \/ OnConnectFailed(h)
  <2>1. /\ que' = que /\ h[2] = "C" /\ Nowhere(p) /\ alive[p] = "live" /\ state[h] = "Connecting"
    <3>1. que' = que /\ state[h] = "Connecting"
      BY <1>5 DEF OnConnected, OnConnectFailed
    <3>2. h[2] = "C" /\ Nowhere(p) /\ alive[p] = "live"
      BY <1>1, <3>1 DEF Holding, Young, p
    <3> QED
      BY <3>1, <3>2
  <2>2. \A g \in Handle : InFlight(g)' <=> InFlight(g) /\ g # h
    BY <1>1, <1>2, <1>3, <2>1 DEF InFlight, InWork
  <2>3. \A g \in Handle : g # h /\ g # p =>
           alive'[g] = alive[g] /\ state'[g] = state[g] /\ armed'[g] = armed[g]
    BY <1>1, <1>5 DEF OnConnected, OnConnectFailed, TypeOK, p
  <2>4. \/ /\ alive'[h] = "live" /\ alive'[p] = "live" /\ state'[h] = "None"
        \/ /\ alive'[h] = "freed" /\ alive'[p] = "freed" /\ state'[h] = "Connecting"
           /\ ~armed'[h] /\ ~armed'[p]
    BY <1>1, <1>3, <1>5, <2>1 DEF OnConnected, OnConnectFailed, TypeOK, p, Nowhere
  <2>5. state'[p] = state[p] /\ state[p] # "Connecting"
    BY <1>1, <1>5, <2>1 DEF OnConnected, OnConnectFailed, TypeOK, p, Holding, Young
  <2>6. Places'
    BY <1>1, <1>2, <1>3, <2>1, <2>2, <2>3, <2>4 DEF Holding, Places, InWork, Nowhere
  <2>7. \A d \in Sess : client'[d] \in {"away", "backlog"} =>
            alive'[S(d)] = "none" /\ alive'[C(d)] = "none"
    <3>1. \A d \in Sess : client[d] \in {"away", "backlog"} =>
             S(d) # h /\ S(d) # p /\ C(d) # h /\ C(d) # p
      BY <1>1, <1>4, <2>1
    <3> QED
      BY <1>1, <1>4, <2>3, <3>1, SideFacts
  <2>8. \A g \in Handle : alive'[g] = "none" => Nowhere(g)' /\ state'[g] = "None"
    BY <1>1, <2>2, <2>3, <2>4 DEF Holding, Young, Nowhere
  <2>9. \A g \in Handle :
          state'[g] = "Connecting" =>
              /\ g[2] = "C" /\ Nowhere(Partner(g))'
              /\ g \notin ToSet(que') /\ ~InWork(g)'
              /\ alive'[g] = "live" => alive'[Partner(g)] = "live"
    <3> TAKE g \in Handle
    <3>1. CASE g # h /\ g # p
      BY <1>1, <2>1, <2>2, <2>3, <3>1 DEF Holding, Young, Nowhere, InWork
    <3>2. CASE g = h
      BY <1>1, <1>3, <2>1, <2>2, <2>4, <3>2 DEF Nowhere, InWork, p
    <3> QED
      BY <2>5, <3>1, <3>2
  <2>10. Young'
    BY <2>7, <2>8, <2>9 DEF Young
  <2>11. ASSUME NEW g \in Handle
         PROVE  /\ armed'[g] => alive'[g] = "live" /\ alive'[Partner(g)] = "live"
                /\ InFlight(g)' /\ InFlight(Partner(g))' => g[1] \in rival'
                /\ InFlight(g)' /\ alive'[g] = "freed" => g[1] \in rival'
                /\ InFlight(g)' /\ alive'[Partner(g)] = "freed" =>
                      \/ g[1] \in rival'
                      \/ \E w \in Worker : wk'[w].fh = g /\ wk'[w].pc = "self"
    <3>1. CASE g # h /\ g # p
      BY <1>1, <2>2, <2>3, <3>1 DEF Holding, Rivals
    <3>2. CASE g = h \/ g = p
      BY <1>1, <2>1, <2>2, <2>4, <3>2 DEF Nowhere, p
    <3> QED
      BY <3>1, <3>2
  <2>12. \A w \in Worker : wk'[w].pc = "self" => alive'[Partner(wk'[w].fh)] = "freed"
    <3> TAKE w \in Worker
    <3> HAVE wk'[w].pc = "self"
    <3>1. wk[w].pc = "self" /\ wk' = wk /\ alive[Partner(wk[w].fh)] = "freed"
      BY <1>1 DEF Holding, Rivals
    <3>2. Partner(wk[w].fh) \in Handle
      BY <3>1, HeldFacts
    <3> QED
      BY <1>1, <2>1, <2>3, <3>1, <3>2
  <2>13. Rivals'
    BY <2>11, <2>12 DEF Rivals
  <2> QED
    BY <2>6, <2>10, <2>13 DEF Holding
<1>6. CASE OnReady(h)
  <2>1. /\ que' = Append(que, h) /\ state[h] # "Connecting" /\ UNCHANGED <<alive, armed>>
        /\ state' = [state EXCEPT ![h] = "ReadWrite"] /\ que \in Seq(Handle)
        /\ IsInjective(que)
    BY <1>6 DEF OnReady, TypeOK, Holding, Places
  <2>2. IsInjective(que') /\ ToSet(que') = ToSet(que) \cup {h}
    BY <1>3, <2>1, AppendSet
  <2>3. \A g \in Handle : InFlight(g)' <=> InFlight(g)
    BY <1>1, <1>2, <1>3, <2>2 DEF InFlight, InWork
  <2>4. \A g \in Handle : state'[g] = "Connecting" => state[g] = "Connecting" /\ g # h
    BY <2>1 DEF TypeOK
  <2>5. Places'
    BY <1>1, <1>2, <1>3, <2>1, <2>2, <2>3 DEF Holding, Places, InWork
  <2>6. \A g \in Handle : alive'[g] = "none" => Nowhere(g)' /\ state'[g] = "None"
    BY <1>1, <2>1, <2>3 DEF Holding, Young, Nowhere, TypeOK
  <2>7. \A g \in Handle :
          state'[g] = "Connecting" =>
              /\ g[2] = "C" /\ Nowhere(Partner(g))'
              /\ g \notin ToSet(que') /\ ~InWork(g)'
              /\ alive'[g] = "live" => alive'[Partner(g)] = "live"
    BY <1>1, <2>1, <2>2, <2>3, <2>4 DEF Holding, Young, Nowhere, InWork
  <2>8. Young'
    BY <1>1, <1>4, <2>1, <2>6, <2>7 DEF Young
  <2>9. Rivals'
    BY <1>1, <2>1, <2>3 DEF Holding, Rivals
  <2> QED
    BY <2>5, <2>8, <2>9 DEF Holding
<1> QED
  BY <1>5, <1>6

LEMMA PopHolding == ASSUME TypeOK, Holding, NEW w \in Worker, Pop(w) PROVE Holding'
<1> DEFINE h == Head(que)
           r == [pc |-> "read", fh |-> h, n |-> 0]
<1>1. /\ que \in Seq(Handle) /\ que # <<>> /\ IsInjective(que) /\ que' = Tail(que)
      /\ wk' = [wk EXCEPT ![w] = r] /\ wk[w].pc = "pop" /\ wk[w].fh = NULL
      /\ UNCHANGED <<alive, state, armed, client, batch, rival>>
  BY DEF Pop, At, Ready, TypeOK, Holding, Places, fhs, net
<1>2. /\ h \in Handle /\ h \in ToSet(que) /\ IsInjective(que')
      /\ ToSet(que') = ToSet(que) \ {h}
  BY <1>1, TailSet
<1>3. h # NULL /\ r \in Work /\ r.pc = "read" /\ r.fh = h
  BY <1>2, PartnerFacts DEF Work, LastChunk
<1> HIDE DEF r, h
<1>4. wk'[w].fh = h /\ wk'[w].pc = "read" /\ \A v \in Worker : v # w => wk'[v] = wk[v]
  BY <1>1, <1>3, WkSet
<1>5. \A g \in Handle : (InWork(g)' <=> InWork(g) \/ g = h) /\ g # NULL
  <2> TAKE g \in Handle
  <2>1. g # NULL /\ g # wk[w].fh
    BY <1>1, PartnerFacts
  <2>2. \A v \in Worker : wk'[v].fh = g <=> wk[v].fh = g \/ (v = w /\ g = h)
    BY <1>4, <2>1
  <2> QED
    BY <2>1, <2>2 DEF InWork
<1>6. h \notin ToSet(batch) /\ ~InWork(h) /\ ~armed[h]
  BY <1>2 DEF Holding, Places, InFlight
<1>7. \A g \in Handle : InFlight(g)' <=> InFlight(g)
  BY <1>1, <1>2, <1>5 DEF InFlight, InWork
<1>8. Places'
  <2>1. \A u, v \in Worker : wk'[u].fh = wk'[v].fh /\ wk'[u].fh # NULL => u = v
    <3>1. \A v \in Worker : wk[v].fh # h
      BY <1>6 DEF InWork
    <3>2. \A u, v \in Worker : wk[u].fh = wk[v].fh /\ wk[u].fh # NULL => u = v
      BY DEF Holding, Places
    <3> QED
      BY <1>4, <3>1, <3>2
  <2> QED
    BY <1>1, <1>2, <1>5, <1>6, <1>7, <2>1 DEF Holding, Places
<1>9. Young'
  <2>1. \A g \in Handle : state[g] = "Connecting" => g # h
    BY <1>2 DEF Holding, Young
  <2> QED
    BY <1>1, <1>2, <1>5, <1>7, <2>1, PartnerFacts DEF Holding, Young, Nowhere
<1>10. Rivals'
  <2>1. ASSUME NEW g \in Handle, NEW v \in Worker, wk[v].fh = g, wk[v].pc = "self"
        PROVE  \E u \in Worker : wk'[u].fh = g /\ wk'[u].pc = "self"
    BY <1>1, <1>4, <2>1
  <2>2. \A v \in Worker : wk'[v].pc = "self" => wk'[v] = wk[v]
    BY <1>4
  <2> QED
    BY <1>1, <1>7, <2>1, <2>2, PartnerFacts DEF Holding, Rivals
<1> QED
  BY <1>8, <1>9, <1>10 DEF Holding

\* A processor that only moves on, to a place other than "self" and from one.
LEMMA MovesHolding ==
    ASSUME TypeOK, Holding, NEW w \in Worker, Moves(w),
           wk[w].pc # "self", wk'[w].pc # "self",
           UNCHANGED <<alive, state, armed, client, batch, que, rival>>
    PROVE  Holding'
<1>1. /\ \A v \in Worker : wk'[v].fh = wk[v].fh
      /\ \A v \in Worker : v # w => wk'[v] = wk[v]
  BY MovesType
<1>2. \A v \in Worker : wk'[v].pc = "self" <=> wk[v].pc = "self"
  BY <1>1
<1>3. \A h \in Handle : (InWork(h)' <=> InWork(h)) /\ (InFlight(h)' <=> InFlight(h))
  BY <1>1 DEF InWork, InFlight
<1>4. Places'
  BY <1>1, <1>3 DEF Holding, Places
<1>5. Young'
  BY <1>3, PartnerFacts DEF Holding, Young, Nowhere
<1>6. Rivals'
  BY <1>1, <1>2, <1>3, PartnerFacts DEF Holding, Rivals
<1> QED
  BY <1>4, <1>5, <1>6 DEF Holding

\* A processor done with a handle: what is left when it goes back to the queue.
LEMMA IdleEffect ==
    ASSUME TypeOK, Holding, NEW w \in Worker, wk[w].pc # "pop", NEW f, f = wk[w].fh,
           wk' = [wk EXCEPT ![w] = Idle], UNCHANGED <<batch, que>>
    PROVE  /\ wk'[w] = Idle /\ \A v \in Worker : v # w => wk'[v] = wk[v]
           /\ \A u, v \in Worker : wk'[u].fh = wk'[v].fh /\ wk'[u].fh # NULL => u = v
           /\ \A h \in Handle : h # f =>
                 (InWork(h)' <=> InWork(h)) /\ (InFlight(h)' <=> InFlight(h))
           /\ ~InWork(f)' /\ ~InFlight(f)'
<1>1. wk'[w] = Idle /\ Idle.fh = NULL /\ \A v \in Worker : v # w => wk'[v] = wk[v]
  BY WkSet, IdleWork
<1>2. \A u, v \in Worker : wk[u].fh = wk[v].fh /\ wk[u].fh # NULL => u = v
  BY DEF Holding, Places
<1>3. f \in Handle /\ f # NULL
  BY HeldFacts
<1>4. \A h \in Handle : h # NULL
  BY PartnerFacts
<1>5. f \notin ToSet(batch) /\ f \notin ToSet(que)
  BY <1>3 DEF Holding, Places, InWork
<1>6. \A u, v \in Worker : wk'[u].fh = wk'[v].fh /\ wk'[u].fh # NULL => u = v
  BY <1>1, <1>2
<1>7. \A h \in Handle : h # f => (InWork(h)' <=> InWork(h))
  BY <1>1, <1>4 DEF InWork
<1>8. \A v \in Worker : wk'[v].fh # f
  BY <1>1, <1>2, <1>3
<1> QED
  BY <1>1, <1>3, <1>5, <1>6, <1>7, <1>8 DEF InWork, InFlight

\* The packet is written: nobody registers the handle again.
LEMMA IdleHolding ==
    ASSUME TypeOK, Holding, NEW w \in Worker, wk[w].pc = "write",
           wk' = [wk EXCEPT ![w] = Idle],
           UNCHANGED <<alive, state, armed, client, batch, que, rival>>
    PROVE  Holding'
<1>0. PICK f : f = wk[w].fh
  OBVIOUS
<1>1. /\ wk'[w] = Idle /\ \A v \in Worker : v # w => wk'[v] = wk[v]
      /\ \A u, v \in Worker : wk'[u].fh = wk'[v].fh /\ wk'[u].fh # NULL => u = v
      /\ \A h \in Handle : h # f =>
            (InWork(h)' <=> InWork(h)) /\ (InFlight(h)' <=> InFlight(h))
      /\ ~InWork(f)' /\ ~InFlight(f)'
  BY <1>0, IdleEffect
<1>2. \A h \in Handle : (InWork(h)' => InWork(h)) /\ (InFlight(h)' => InFlight(h))
  BY <1>1
<1>3. \A v \in Worker : wk'[v].pc = "self" => wk'[v] = wk[v]
  BY <1>1, IdleWork
<1>4. \A v \in Worker : wk[v].pc = "self" => wk'[v] = wk[v]
  BY <1>1
<1>5. Places'
  BY <1>1, <1>2 DEF Holding, Places
<1>6. Young'
  BY <1>2, PartnerFacts DEF Holding, Young, Nowhere
<1>7. Rivals'
  <2>1. ASSUME NEW g \in Handle, NEW v \in Worker, wk[v].fh = g, wk[v].pc = "self"
        PROVE  \E u \in Worker : wk'[u].fh = g /\ wk'[u].pc = "self"
    BY <1>4, <2>1
  <2> QED
    BY <1>2, <1>3, <2>1, PartnerFacts DEF Holding, Rivals
<1> QED
  BY <1>5, <1>6, <1>7 DEF Holding

\* FHDestory of a live handle f that epoll and the rest of its session may have.
LEMMA FreeEffect ==
    ASSUME TypeOK, NEW f \in Handle, Free(f)
    PROVE  /\ alive'[f] = "freed" /\ armed'[f] = FALSE /\ state' = state
           /\ \A h \in Handle : h # f => alive'[h] = alive[h] /\ armed'[h] = armed[h]
           /\ \A h \in Handle : alive'[h] = "none" => alive[h] = "none"
           /\ \A h \in Handle : alive[h] = "freed" => alive'[h] = "freed"
           /\ \A h \in Handle : armed'[h] => armed[h]
BY DEF TypeOK, Free

LEMMA DestroyPartnerHolding ==
    ASSUME TypeOK, Holding, NEW w \in Worker, DestroyPartner(w)
    PROVE  Holding'
<1>0. PICK f, p : f = wk[w].fh /\ p = Partner(f)
  OBVIOUS
<1>1. /\ wk[w].pc = "partner" /\ alive[f] = "live" /\ alive[p] = "live"
      /\ Free(p) /\ Goto(w, "self")
      /\ UNCHANGED <<client, batch, que, rival>>
  BY <1>0 DEF DestroyPartner, At, Ready, Uses, First, net
<1>2. /\ f \in Handle /\ p \in Handle /\ Partner(p) = f /\ p # f /\ p[1] = f[1]
      /\ \A g \in Handle : Partner(g) \in Handle
      /\ \A g \in Handle : Partner(g) = p => g = f
  <2>1. f \in Handle /\ p \in Handle
    BY <1>0, <1>1, HeldFacts
  <2>2. \A g \in Handle : Partner(g) \in Handle /\ Partner(Partner(g)) = g
    BY PartnerFacts
  <2> QED
    BY <1>0, <2>1, <2>2, PartnerFacts
<1>3. /\ alive'[p] = "freed" /\ armed'[p] = FALSE /\ state' = state
      /\ \A h \in Handle : h # p => alive'[h] = alive[h] /\ armed'[h] = armed[h]
      /\ \A h \in Handle : alive'[h] = "none" => alive[h] = "none"
      /\ \A h \in Handle : alive[h] = "freed" => alive'[h] = "freed"
      /\ \A h \in Handle : armed'[h] => armed[h]
  BY <1>1, <1>2, FreeEffect
<1>4. /\ \A v \in Worker : wk'[v].fh = wk[v].fh
      /\ \A v \in Worker : v # w => wk'[v] = wk[v]
      /\ wk'[w].pc = "self"
  BY <1>1, GotoMoves, MovesType
<1>5. \A h \in Handle : (InWork(h)' <=> InWork(h)) /\ (InFlight(h)' <=> InFlight(h))
  BY <1>1, <1>4 DEF InWork, InFlight
<1>6. InWork(f) /\ InFlight(f) /\ ~armed[f]
  BY <1>0, <1>2 DEF InWork, InFlight, Holding, Places
<1>7. Places'
  BY <1>1, <1>3, <1>4, <1>5 DEF Holding, Places
<1>8. Young'
  <2>1. \A d \in Sess : client'[d] \in {"away", "backlog"} =>
            alive'[S(d)] = "none" /\ alive'[C(d)] = "none"
    BY <1>1, <1>3, SideFacts DEF Holding, Young
  <2>2. \A g \in Handle : alive'[g] = "none" => Nowhere(g)' /\ state'[g] = "None"
    BY <1>3, <1>5 DEF Holding, Young, Nowhere
  <2>3. \A g \in Handle :
          state'[g] = "Connecting" =>
              /\ g[2] = "C" /\ Nowhere(Partner(g))'
              /\ g \notin ToSet(que') /\ ~InWork(g)'
              /\ alive'[g] = "live" => alive'[Partner(g)] = "live"
    BY <1>1, <1>2, <1>3, <1>5, <1>6 DEF Holding, Young, Nowhere
  <2> QED
    BY <2>1, <2>2, <2>3 DEF Young
<1>9. Rivals'
  <2>1. ASSUME NEW g \in Handle
        PROVE  /\ armed'[g] => alive'[g] = "live" /\ alive'[Partner(g)] = "live"
               /\ InFlight(g)' /\ InFlight(Partner(g))' => g[1] \in rival'
               /\ InFlight(g)' /\ alive'[g] = "freed" => g[1] \in rival'
               /\ InFlight(g)' /\ alive'[Partner(g)] = "freed" =>
                     \/ g[1] \in rival'
                     \/ \E v \in Worker : wk'[v].fh = g /\ wk'[v].pc = "self"
    <3>1. CASE g = f
      <4>1. wk'[w].fh = g /\ wk'[w].pc = "self"
        BY <1>0, <1>4, <3>1
      <4> QED
        BY <1>0, <1>1, <1>2, <1>3, <1>5, <1>6, <3>1, <4>1 DEF Holding, Rivals
    <3>2. CASE g = p
      BY <1>0, <1>1, <1>2, <1>3, <1>5, <1>6, <3>2 DEF Holding, Rivals
    <3>3. CASE g # f /\ g # p
      <4>1. Partner(g) \in Handle /\ Partner(g) # p
        BY <1>2, <3>3
      <4>2. ASSUME NEW v \in Worker, wk[v].fh = g, wk[v].pc = "self"
            PROVE  wk'[v].fh = g /\ wk'[v].pc = "self"
        BY <1>1, <1>4, <4>2
      <4> QED
        BY <1>1, <1>3, <1>5, <3>3, <4>1, <4>2 DEF Holding, Rivals
    <3> QED
      BY <3>1, <3>2, <3>3
  <2>2. \A v \in Worker : wk'[v].pc = "self" => alive'[Partner(wk'[v].fh)] = "freed"
    <3> TAKE v \in Worker
    <3> HAVE wk'[v].pc = "self"
    <3>1. CASE v = w
      BY <1>0, <1>3, <1>4, <3>1
    <3>2. CASE v # w
      <4>1. wk'[v] = wk[v] /\ wk[v].pc = "self" /\ alive[Partner(wk[v].fh)] = "freed"
        BY <1>4, <3>2 DEF Holding, Rivals
      <4>2. Partner(wk[v].fh) \in Handle
        BY <4>1, HeldFacts
      <4> QED
        BY <1>3, <4>1, <4>2
    <3> QED
      BY <3>1, <3>2
  <2> QED
    BY <2>1, <2>2 DEF Rivals
<1> QED
  BY <1>7, <1>8, <1>9 DEF Holding

LEMMA DestroySelfHolding ==
    ASSUME TypeOK, Holding, NEW w \in Worker, DestroySelf(w)
    PROVE  Holding'
<1>0. PICK f, p : f = wk[w].fh /\ p = Partner(f)
  OBVIOUS
<1>1. /\ wk[w].pc = "self" /\ alive[f] = "live" /\ alive[p] = "freed"
      /\ Free(f) /\ wk' = [wk EXCEPT ![w] = Idle]
      /\ UNCHANGED <<client, batch, que, rival>>
  BY <1>0 DEF DestroySelf, At, Ready, Uses, net, Holding, Rivals
<1>2. /\ f \in Handle /\ p \in Handle /\ Partner(p) = f /\ p # f /\ p[1] = f[1]
      /\ \A g \in Handle : Partner(g) \in Handle
      /\ \A g \in Handle : Partner(g) = f => g = p
  <2>1. f \in Handle /\ p \in Handle
    BY <1>0, <1>1, HeldFacts
  <2>2. \A g \in Handle : Partner(g) \in Handle /\ Partner(Partner(g)) = g
    BY PartnerFacts
  <2> QED
    BY <1>0, <2>1, <2>2, PartnerFacts
<1>3. /\ alive'[f] = "freed" /\ armed'[f] = FALSE /\ state' = state
      /\ \A h \in Handle : h # f => alive'[h] = alive[h] /\ armed'[h] = armed[h]
      /\ \A h \in Handle : alive'[h] = "none" => alive[h] = "none"
      /\ \A h \in Handle : alive[h] = "freed" => alive'[h] = "freed"
      /\ \A h \in Handle : armed'[h] => armed[h]
  BY <1>1, <1>2, FreeEffect
<1>4. /\ wk'[w] = Idle /\ \A v \in Worker : v # w => wk'[v] = wk[v]
      /\ \A u, v \in Worker : wk'[u].fh = wk'[v].fh /\ wk'[u].fh # NULL => u = v
      /\ \A h \in Handle : h # f =>
            (InWork(h)' <=> InWork(h)) /\ (InFlight(h)' <=> InFlight(h))
      /\ ~InWork(f)' /\ ~InFlight(f)'
  BY <1>0, <1>1, IdleEffect
<1>5. \A h \in Handle : (InWork(h)' => InWork(h)) /\ (InFlight(h)' => InFlight(h))
  BY <1>4
<1>6. InWork(f) /\ InFlight(f) /\ ~armed[f] /\ ~armed[p]
  BY <1>0, <1>1, <1>2 DEF InWork, InFlight, Holding, Places, Rivals
<1>7. Places'
  BY <1>1, <1>3, <1>4, <1>5 DEF Holding, Places
<1>8. Young'
  <2>1. \A d \in Sess : client'[d] \in {"away", "backlog"} =>
            alive'[S(d)] = "none" /\ alive'[C(d)] = "none"
    BY <1>1, <1>3, SideFacts DEF Holding, Young
  <2>2. \A g \in Handle : alive'[g] = "none" => Nowhere(g)' /\ state'[g] = "None"
    BY <1>3, <1>5 DEF Holding, Young, Nowhere
  <2>3. \A g \in Handle :
          state'[g] = "Connecting" =>
              /\ g[2] = "C" /\ Nowhere(Partner(g))'
              /\ g \notin ToSet(que') /\ ~InWork(g)'
              /\ alive'[g] = "live" => alive'[Partner(g)] = "live"
    BY <1>1, <1>2, <1>3, <1>5, <1>6 DEF Holding, Young, Nowhere
  <2> QED
    BY <2>1, <2>2, <2>3 DEF Young
<1>9. Rivals'
  <2>1. ASSUME NEW g \in Handle
        PROVE  /\ armed'[g] => alive'[g] = "live" /\ alive'[Partner(g)] = "live"
               /\ InFlight(g)' /\ InFlight(Partner(g))' => g[1] \in rival'
               /\ InFlight(g)' /\ alive'[g] = "freed" => g[1] \in rival'
               /\ InFlight(g)' /\ alive'[Partner(g)] = "freed" =>
                     \/ g[1] \in rival'
                     \/ \E v \in Worker : wk'[v].fh = g /\ wk'[v].pc = "self"
    <3>1. CASE g = f
      BY <1>3, <1>4, <3>1
    <3>2. CASE g = p
      BY <1>0, <1>1, <1>2, <1>3, <1>5, <1>6, <3>2 DEF Holding, Rivals
    <3>3. CASE g # f /\ g # p
      <4>1. Partner(g) \in Handle /\ Partner(g) # f
        BY <1>2, <3>3
      <4>2. ASSUME NEW v \in Worker, wk[v].fh = g, wk[v].pc = "self"
            PROVE  wk'[v].fh = g /\ wk'[v].pc = "self"
        BY <1>0, <1>4, <3>3, <4>2
      <4> QED
        BY <1>1, <1>3, <1>5, <3>3, <4>1, <4>2 DEF Holding, Rivals
    <3> QED
      BY <3>1, <3>2, <3>3
  <2>2. \A v \in Worker : wk'[v].pc = "self" => alive'[Partner(wk'[v].fh)] = "freed"
    <3> TAKE v \in Worker
    <3> HAVE wk'[v].pc = "self"
    <3>1. v # w
      BY <1>4, IdleWork
    <3>2. wk'[v] = wk[v] /\ wk[v].pc = "self" /\ alive[Partner(wk[v].fh)] = "freed"
      BY <1>4, <3>1 DEF Holding, Rivals
    <3>3. Partner(wk[v].fh) \in Handle
      BY <3>2, HeldFacts
    <3> QED
      BY <1>3, <3>2, <3>3
  <2> QED
    BY <2>1, <2>2 DEF Rivals
<1> QED
  BY <1>7, <1>8, <1>9 DEF Holding

\* Nothing that says who has a handle changes.
LEMMA SameHolding ==
    ASSUME TypeOK, Holding,
           UNCHANGED <<alive, state, armed, batch, que, wk, rival>>,
           \A c \in Sess : client'[c] = client[c] \/ client[c] = "away"
    PROVE  Holding'
<1>1. \A h \in Handle : (InWork(h)' <=> InWork(h)) /\ (InFlight(h)' <=> InFlight(h))
  BY DEF InWork, InFlight
<1>2. Places'
  BY <1>1 DEF Holding, Places
<1>3. Young'
  BY <1>1, PartnerFacts, SideFacts DEF Holding, Young, Nowhere
<1>4. Rivals'
  BY <1>1, PartnerFacts DEF Holding, Rivals
<1> QED
  BY <1>2, <1>3, <1>4 DEF Holding

LEMMA ProcessorHolding ==
    ASSUME TypeOK, Holding, NEW w \in Worker, Processor(w)
    PROVE  Holding'
<1>1. CASE Pop(w)
  BY <1>1, PopHolding
<1>2. CASE ReadChunk(w)
  <2>1. /\ Moves(w) /\ wk[w].pc # "self" /\ wk'[w].pc # "self"
        /\ UNCHANGED <<alive, state, armed, client, batch, que, rival>>
    BY <1>2, ReadMoves DEF ReadChunk, At, Ready, fhs, net
  <2> QED
    BY <2>1, MovesHolding
<1>3. CASE ReadOff(w) \/ ReadErr(w) \/ WriteErr(w)
  <2>1. /\ wk[w].pc \notin {"pop", "self"} /\ Goto(w, "partner")
        /\ UNCHANGED <<alive, state, armed, client, batch, que, rival>>
    BY <1>3 DEF ReadOff, ReadErr, WriteErr, At, Ready, fhs, net
  <2>2. Moves(w) /\ wk'[w].pc = "partner"
    BY <2>1, GotoMoves
  <2> QED
    BY <2>1, <2>2, MovesHolding
<1>4. CASE WriteBlocking(w) \/ WriteNonblocking(w)
  <2>1. PICK from \in 0..1, k \in 1..2 :
              /\ Put(w, Partner(wk[w].fh), from, k)
              /\ wk[w].n + k <= LastChunk /\ from + k <= LastChunk
              /\ k <= room[Partner(wk[w].fh)]
    BY <1>4, WriteCount
  <2>2. wk[w].pc = "write" /\ Partner(wk[w].fh) \in Handle
    BY <1>4, HeldFacts DEF WriteBlocking, WriteNonblocking, At, Ready
  <2>3. PICK r \in Work : Advances(w, k, r)
    BY <2>1, <2>2, PutSet
  <2>4. UNCHANGED <<alive, state, armed, client, batch, que, rival>>
    BY <1>4, <2>1 DEF WriteBlocking, WriteNonblocking, At, Put, fhs, net
  <2>5. CASE r = Idle
    BY <2>2, <2>3, <2>4, <2>5, IdleHolding DEF Advances
  <2>6. CASE r # Idle
    <3>1. Moves(w) /\ wk'[w].pc = "write"
      <4>1. wk' = [wk EXCEPT ![w] = r] /\ r.pc = "write" /\ r.fh = wk[w].fh /\ r.fh # NULL
        BY <2>3, <2>6 DEF Advances
      <4>2. wk \in [Worker -> Work]
        BY DEF TypeOK, Work
      <4> QED
        BY <4>1, <4>2 DEF Moves
    <3> QED
      BY <2>2, <2>4, <3>1, MovesHolding
  <2> QED
    BY <2>5, <2>6
<1>5. CASE DestroyPartner(w)
  BY <1>5, DestroyPartnerHolding
<1>6. CASE DestroySelf(w)
  BY <1>6, DestroySelfHolding
<1>7. CASE Sigpipe(w) \/ WorkerUseFreed(w)
  <2>1. UNCHANGED <<alive, state, armed, client, batch, que, wk, rival>>
    BY <1>7 DEF Sigpipe, WorkerUseFreed, fhs, net
  <2> QED
    BY <2>1, SameHolding
<1> QED
  BY <1>1, <1>2, <1>3, <1>4, <1>5, <1>6, <1>7 DEF Processor

LEMMA MainHolding ==
    ASSUME TypeOK, Holding, Main
    PROVE  Holding'
<1>1. CASE Wait
  BY <1>1, WaitHolding
<1>2. CASE AcceptFailed
  <2>1. /\ Event(Listen) /\ UNCHANGED <<alive, state, armed, client, que, wk, rival>>
    BY <1>2 DEF AcceptFailed, Event, fhs
  <2>2. IsInjective(batch') /\ ToSet(batch') = ToSet(batch) \ {Listen}
    BY <2>1, EventSets
  <2>3. \A h \in Handle : /\ h \in ToSet(batch') <=> h \in ToSet(batch)
                          /\ InWork(h)' <=> InWork(h)
    BY <2>1, <2>2, PartnerFacts DEF InWork, Listen
  <2>4. \A h \in Handle : InFlight(h)' <=> InFlight(h)
    BY <2>1, <2>3 DEF InFlight, InWork
  <2>5. Places'
    BY <2>1, <2>2, <2>3, <2>4 DEF Holding, Places
  <2>6. Young'
    BY <2>1, <2>3, <2>4, PartnerFacts, SideFacts DEF Holding, Young, Nowhere
  <2>7. Rivals'
    BY <2>1, <2>4, PartnerFacts DEF Holding, Rivals
  <2> QED
    BY <2>5, <2>6, <2>7 DEF Holding
<1>3. ASSUME NEW c \in Sess, AcceptDropped(c) \/ AcceptConnected(c) \/ AcceptConnecting(c)
      PROVE Holding'
  BY <1>3, AcceptHolding
<1>4. ASSUME NEW h \in Handle, OnConnected(h) \/ OnConnectFailed(h) \/ OnReady(h)
      PROVE Holding'
  BY <1>4, OnHolding
<1>5. CASE MainUseFreed
  <2>1. UNCHANGED <<alive, state, armed, client, batch, que, wk, rival>>
    BY <1>5 DEF MainUseFreed, fhs, net
  <2> QED
    BY <2>1, SameHolding
<1> QED
  BY <1>1, <1>2, <1>3, <1>4, <1>5 DEF Main

LEMMA RemoteHolding ==
    ASSUME TypeOK, Holding, Remote
    PROVE  Holding'
<1>1. UNCHANGED <<alive, state, armed, batch, que, wk, rival>>
  BY DEF Remote, Arrive, Answer, PeerSend, PeerTake, PeerClose, Env, fhs
<1>2. \A c \in Sess : client'[c] = client[c] \/ client[c] = "away"
  <2>1. \/ client' = client
        \/ \E c \in Sess : client[c] = "away" /\ client' = [client EXCEPT ![c] = "backlog"]
    BY DEF Remote, Arrive, Answer, PeerSend, PeerTake, PeerClose
  <2> QED
    BY <2>1 DEF TypeOK
<1> QED
  BY <1>1, <1>2, SameHolding

LEMMA StepHolding == TypeOK /\ Holding /\ [Next]_vars => Holding'
<1> SUFFICES ASSUME TypeOK, Holding, [Next]_vars PROVE Holding'
  OBVIOUS
<1>1. CASE UNCHANGED vars
  BY <1>1, SameHolding DEF vars, fhs, net
<1> QED
  BY <1>1, MainHolding, ProcessorHolding, RemoteHolding DEF Next

-----------------------------------------------------------------------------
(***************************************************************************)
(* One handler, and what it takes to use a freed handle.                   *)
(***************************************************************************)
LEMMA AtMostOne ==
    ASSUME NEW A, \A x, y \in A : x = y
    PROVE  Cardinality(A) = (IF A = {} THEN 0 ELSE 1)
<1>1. CASE A = {}
  BY <1>1, FS_EmptySet
<1>2. CASE A # {}
  <2>1. PICK x : A = {x}
    BY <1>2
  <2> QED
    BY <1>2, <2>1, FS_Singleton
<1> QED
  BY <1>1, <1>2

LEMMA HoldingOneHandler == TypeOK /\ Holding => OneHandler
<1> SUFFICES ASSUME TypeOK, Holding, NEW h \in Handle PROVE Occurrences(h) <= 1
  BY DEF OneHandler
<1> DEFINE B == {i \in DOMAIN batch : batch[i] = h}
           Q == {i \in DOMAIN que : que[i] = h}
           W == {w \in Worker : wk[w].fh = h}
<1>1. Cardinality(B) = (IF B = {} THEN 0 ELSE 1)
  BY AtMostOne DEF Holding, Places, IsInjective
<1>2. Cardinality(Q) = (IF Q = {} THEN 0 ELSE 1)
  BY AtMostOne DEF Holding, Places, IsInjective
<1>3. Cardinality(W) = (IF W = {} THEN 0 ELSE 1)
  BY AtMostOne, PartnerFacts DEF Holding, Places
<1>4. /\ B # {} => h \in ToSet(batch)
      /\ Q # {} => h \in ToSet(que)
      /\ W # {} => InWork(h)
  BY DEF ToSet, InWork
<1>5. /\ armed[h] => B = {} /\ Q = {} /\ W = {}
      /\ B # {} => Q = {} /\ W = {}
      /\ Q # {} => W = {}
  BY <1>4 DEF Holding, Places, InFlight, InWork
<1>6. Occurrences(h) = Cardinality(B) + Cardinality(Q) + Cardinality(W)
                       + (IF armed[h] THEN 1 ELSE 0)
  BY DEF Occurrences
<1> HIDE DEF B, Q, W
<1> QED
  BY <1>1, <1>2, <1>3, <1>5, <1>6

\* However many processors there are and however the sockets are driven, a handle
\* waits in epoll or is with one thread, never two: the one-shot registrations of
\* Multiplexer::Add and Mod do what the packet in the handle, which has no lock,
\* needs of them.
THEOREM ProxyV1OneHandler == Spec => []OneHandler
<1>1. Init => TypeOK /\ Holding
  BY InitType, InitHolding
<1>2. TypeOK /\ Holding /\ [Next]_vars => TypeOK' /\ Holding'
  BY StepType, StepHolding
<1> QED
  BY <1>1, <1>2, HoldingOneHandler, PTL DEF Spec

LEMMA StepRival ==
    TypeOK /\ Holding /\ FreedNeedsRival /\ [Next]_vars => FreedNeedsRival'
<1> SUFFICES ASSUME TypeOK, Holding, FreedNeedsRival, [Next]_vars PROVE FreedNeedsRival'
  OBVIOUS
<1>1. CASE MainUseFreed
  <2>1. PICK h : h = Head(batch)
    OBVIOUS
  <2>2. /\ used' = {h} /\ rival' = rival /\ h # NULL /\ alive[h] = "freed" /\ batch # <<>>
        /\ batch \in Seq(Handle \cup {NULL}) /\ IsInjective(batch)
    BY <1>1, <2>1 DEF MainUseFreed, Listen, TypeOK, Holding, Places
  <2>3. h \in ToSet(batch) /\ h \in Handle
    BY <2>1, <2>2, TailSet
  <2> QED
    BY <2>2, <2>3 DEF FreedNeedsRival, InFlight, Holding, Rivals
<1>2. ASSUME NEW w \in Worker, WorkerUseFreed(w) PROVE FreedNeedsRival'
  <2>1. PICK h \in Uses(w) : alive[h] = "freed" /\ used' = {h} /\ rival' = rival
    BY <1>2 DEF WorkerUseFreed
  <2>2. PICK f : f = wk[w].fh
    OBVIOUS
  <2>3. /\ wk[w].pc # "pop"
        /\ h = f \/ (h = Partner(f) /\ wk[w].pc \in {"write", "partner"})
    BY <2>1, <2>2 DEF Uses, TypeOK
  <2>4. f \in Handle /\ InFlight(f) /\ Partner(f)[1] = f[1] /\ f # NULL
    BY <2>2, <2>3, HeldFacts, PartnerFacts DEF InFlight
  <2>5. CASE h = f
    BY <2>1, <2>4, <2>5 DEF FreedNeedsRival, Holding, Rivals
  <2>6. CASE h = Partner(f) /\ wk[w].pc \in {"write", "partner"}
    <3>1. \A v \in Worker : wk[v].fh = f => v = w
      BY <2>2, <2>4 DEF Holding, Places
    <3>2. f[1] \in rival
      BY <2>1, <2>4, <2>6, <3>1 DEF Holding, Rivals
    <3> QED
      BY <2>1, <2>4, <2>6, <3>2 DEF FreedNeedsRival
  <2> QED
    BY <2>3, <2>5, <2>6
<1>3. CASE ~MainUseFreed /\ ~(\E w \in Worker : WorkerUseFreed(w))
  <2>1. CASE Main
    BY <1>3, <2>1 DEF Main, Wait, AcceptFailed, AcceptDropped, AcceptConnected,
       AcceptConnecting, OnConnected, OnConnectFailed, OnReady, Event, FreedNeedsRival
  <2>2. ASSUME NEW w \in Worker, Processor(w) PROVE FreedNeedsRival'
    BY <1>3, <2>2 DEF Processor, Pop, ReadChunk, ReadOff, ReadErr, WriteBlocking,
       WriteNonblocking, WriteErr, DestroyPartner, DestroySelf, Sigpipe, At, FreedNeedsRival
  <2>3. CASE Remote
    BY <2>3 DEF Remote, Arrive, Answer, PeerSend, PeerTake, PeerClose, Env, FreedNeedsRival
  <2>4. CASE UNCHANGED vars
    BY <2>4 DEF vars, FreedNeedsRival
  <2> QED
    BY <2>1, <2>2, <2>3, <2>4 DEF Next
<1> QED
  BY <1>1, <1>2, <1>3

\* DESTORY_FH frees the partner of a handle without asking who holds it, and yet a
\* thread uses a freed handle only in a session both of whose handles were in
\* flight at the same time: a session that talks in one direction at a time is safe.
THEOREM ProxyV1Freed == Spec => []FreedNeedsRival
<1>1. Init => TypeOK /\ Holding /\ FreedNeedsRival
  BY InitType, InitHolding DEF Init, FreedNeedsRival
<1>2. TypeOK /\ Holding /\ FreedNeedsRival /\ [Next]_vars
      => TypeOK' /\ Holding' /\ FreedNeedsRival'
  BY StepType, StepHolding, StepRival
<1> QED
  BY <1>1, <1>2, PTL DEF Spec

-----------------------------------------------------------------------------
(***************************************************************************)
(* What is on the wire.                                                    *)
(***************************************************************************)
\* The handle has still to be read from, or is being read from.
Unread(h) ==
    \/ armed[h] \/ h \in ToSet(batch) \/ h \in ToSet(que) \/ alive[h] = "none"
    \/ \E w \in Worker : wk[w].fh = h /\ wk[w].pc = "read"

\* A step that writes nothing, brings no handle back, and begins to write only what
\* has been read.
LEMMA FreshKept ==
    ASSUME Fresh, wire' = wire,
           \A h \in Handle : h[2] = "C" /\ Unread(h)' => Unread(h),
           \A w \in Worker : wk'[w].pc = "write" =>
              \/ wk'[w] = wk[w]
              \/ wk[w].pc = "read" /\ wk'[w].fh = wk[w].fh /\ wk'[w].n = 0
    PROVE  Fresh'
<1> SUFFICES ASSUME NEW h \in Handle, h[2] = "C"
             PROVE  /\ armed'[h] \/ h \in ToSet(batch') \/ h \in ToSet(que') \/ alive'[h] = "none"
                          => wire'[Partner(h)] = <<>>
                    /\ \A w \in Worker :
                          wk'[w].fh = h =>
                              /\ wk'[w].pc = "read" => wire'[Partner(h)] = <<>>
                              /\ wk'[w].pc = "write" => Len(wire'[Partner(h)]) = wk'[w].n
  BY DEF Fresh
<1>1. Unread(h) => wire[Partner(h)] = <<>>
  BY DEF Fresh, Unread
<1>2. Unread(h)' => wire'[Partner(h)] = <<>>
  BY <1>1
<1>3. ASSUME NEW w \in Worker, wk'[w].fh = h, wk'[w].pc = "write"
      PROVE  Len(wire'[Partner(h)]) = wk'[w].n
  <2>1. CASE wk'[w] = wk[w]
    BY <1>3, <2>1 DEF Fresh
  <2>2. CASE wk[w].pc = "read" /\ wk'[w].fh = wk[w].fh /\ wk'[w].n = 0
    <3>1. wire[Partner(h)] = <<>> /\ Len(<<>>) = 0
      BY <1>1, <1>3, <2>2 DEF Unread
    <3> QED
      BY <2>2, <3>1
  <2> QED
    BY <1>3, <2>1, <2>2
<1> QED
  BY <1>2, <1>3 DEF Unread

\* Of the main thread's actions, none brings back a handle that has been read from.
LEMMA MainUnread ==
    ASSUME TypeOK, Holding, Main, NEW h \in Handle, h[2] = "C", Unread(h)'
    PROVE  Unread(h)
<1>1. wk' = wk
  BY DEF Main, Wait, AcceptFailed, AcceptDropped, AcceptConnected, AcceptConnecting,
         OnConnected, OnConnectFailed, OnReady, MainUseFreed, Event
<1>2. CASE Wait
  <2>1. batch' \in SetToSeqs(Pending) /\ UNCHANGED <<alive, que>> /\ (armed'[h] => armed[h])
    BY <1>2 DEF Wait, Disarm, TypeOK
  <2>2. h \in ToSet(batch') => armed[h]
    BY <2>1, WaitBatch, PartnerFacts DEF Pending, Listen
  <2> QED
    BY <1>1, <2>1, <2>2 DEF Unread
<1>3. CASE AcceptFailed
  <2>1. ToSet(batch') \subseteq ToSet(batch) /\ UNCHANGED <<alive, que, armed>>
    BY <1>3, EventSets DEF AcceptFailed, fhs
  <2> QED
    BY <1>1, <2>1 DEF Unread
<1>4. ASSUME NEW c \in Sess, AcceptDropped(c) \/ AcceptConnected(c) \/ AcceptConnecting(c)
      PROVE Unread(h)
  <2>1. ToSet(batch') \subseteq ToSet(batch) /\ que' = que
    BY <1>4, EventSets DEF AcceptDropped, AcceptConnected, AcceptConnecting
  <2>2. alive[S(c)] = "none" /\ alive[C(c)] = "none"
    BY <1>4 DEF AcceptDropped, AcceptConnected, AcceptConnecting, Holding, Young
  <2>3. h \notin {S(c), C(c)} => alive'[h] = alive[h] /\ armed'[h] = armed[h]
    BY <1>4 DEF AcceptDropped, AcceptConnected, AcceptConnecting, TypeOK
  <2> QED
    BY <1>1, <2>1, <2>2, <2>3 DEF Unread
<1>5. ASSUME NEW g \in Handle, OnConnected(g) PROVE Unread(h)
  <2>1. ToSet(batch') \subseteq ToSet(batch) /\ que' = que /\ g \in ToSet(batch)
        /\ alive' = alive
    BY <1>5, EventSets DEF OnConnected
  <2>2. g[2] = "C" /\ Partner(g)[2] = "S"
    <3>1. state[g] = "Connecting"
      BY <1>5 DEF OnConnected
    <3>2. g[2] = "C"
      BY <3>1 DEF Holding, Young
    <3> QED
      BY <3>2, PartnerFacts
  <2>3. h # g => armed'[h] = armed[h]
    <3>1. armed' = [armed EXCEPT ![Partner(g)] = TRUE, ![g] = TRUE]
      BY <1>5 DEF OnConnected
    <3>2. h # Partner(g)
      BY <2>2
    <3> QED
      BY <3>1, <3>2 DEF TypeOK
  <2> QED
    BY <1>1, <2>1, <2>3 DEF Unread
<1>6. ASSUME NEW g \in Handle, OnConnectFailed(g) PROVE Unread(h)
  <2>1. /\ Event(g) /\ que' = que /\ armed' = armed
        /\ alive' = [alive EXCEPT ![Partner(g)] = "freed", ![g] = "freed"]
    BY <1>6 DEF OnConnectFailed
  <2>2. ToSet(batch') \subseteq ToSet(batch)
    BY <2>1, EventSets
  <2>3. alive'[h] = "none" => alive[h] = "none"
    BY <2>1 DEF TypeOK
  <2> QED
    BY <1>1, <2>1, <2>2, <2>3 DEF Unread
<1>7. ASSUME NEW g \in Handle, OnReady(g) PROVE Unread(h)
  <2>0. Event(g) /\ que' = Append(que, g) /\ armed' = armed /\ alive' = alive
    BY <1>7 DEF OnReady
  <2>1. ToSet(batch') \subseteq ToSet(batch) /\ g \in ToSet(batch)
    BY <2>0, EventSets
  <2>2. que \in Seq(Handle) /\ IsInjective(que) /\ g \notin ToSet(que)
    BY <2>1 DEF Holding, Places, TypeOK
  <2>3. ToSet(que') = ToSet(que) \cup {g}
    BY <2>0, <2>2, AppendSet
  <2> QED
    BY <1>1, <2>0, <2>1, <2>3 DEF Unread
<1>8. CASE MainUseFreed
  BY <1>1, <1>8 DEF MainUseFreed, fhs, Unread
<1> QED
  BY <1>2, <1>3, <1>4, <1>5, <1>6, <1>7, <1>8 DEF Main

\* A processor that moves on without writing.
LEMMA MovesUnread ==
    ASSUME TypeOK, NEW w \in Worker, Moves(w), NEW h \in Handle,
           UNCHANGED <<batch, que>>, armed'[h] => armed[h],
           alive'[h] = "none" => alive[h] = "none",
           wk'[w].pc = "read" => wk[w].pc = "read",
           Unread(h)'
    PROVE  Unread(h)
<1>1. /\ \A v \in Worker : wk'[v].fh = wk[v].fh
      /\ \A v \in Worker : v # w => wk'[v] = wk[v]
  BY MovesType
<1> QED
  BY <1>1 DEF Unread

\* A chunk written to a client is the next of the packet under way.
LEMMA PutFresh ==
    ASSUME TypeOK, Holding, Fresh, FramesApart, NEW w \in Worker,
           WriteBlocking(w) \/ WriteNonblocking(w)
    PROVE  Fresh' /\ FramesApart'
<1>0. PICK f, p : f = wk[w].fh /\ p = Partner(f)
  OBVIOUS
<1>1. PICK from \in 0..1, k \in 1..2 :
            /\ Put(w, p, from, k)
            /\ wk[w].n + k <= LastChunk /\ from + k <= LastChunk /\ k <= room[p]
            /\ Blocking(p) => from = wk[w].n /\ k = 1
  BY <1>0, WriteCount
<1>2. /\ wk[w].pc = "write" /\ f \in Handle /\ p \in Handle /\ wk[w].n \in 0..1
      /\ Partner(p) = f /\ p[1] = f[1] /\ f # NULL
      /\ f[2] = "C" <=> p[2] = "S"
      /\ UNCHANGED <<alive, armed, batch, que>>
  <2>1. wk[w].pc = "write" /\ UNCHANGED <<alive, armed, batch, que>>
    BY <1>1 DEF WriteBlocking, WriteNonblocking, At, Ready, Put, fhs
  <2>2. f \in Handle /\ wk[w].n \in 0..1
    BY <1>0, <2>1, HeldFacts
  <2> QED
    BY <1>0, <2>1, <2>2, PartnerFacts
<1> DEFINE T == Handle \X (1..LastChunk)
           g == [i \in 1..k |-> <<f, from + i>>]
           u == wire[p]
<1>3. /\ wire \in [Handle -> Seq(T)] /\ u \in Seq(T) /\ Len(u) \in Nat
      /\ wire' = [wire EXCEPT ![p] = u \o g]
  <2>1. wire \in [Handle -> Seq(T)]
    BY DEF TypeOK
  <2>2. wire' = [wire EXCEPT ![p] = u \o g]
    BY <1>0, <1>1 DEF Put
  <2> HIDE DEF T, g
  <2>3. u \in Seq(T) /\ Len(u) \in Nat
    BY <1>2, <2>1
  <2> QED
    BY <2>1, <2>2, <2>3
<1>4. g \in Seq(T) /\ Len(g) = k /\ \A i \in 1..k : g[i] = <<f, from + i>>
  <2>1. \A i \in 1..k : from + i \in 1..LastChunk
    BY <1>1 DEF LastChunk
  <2>2. \A i \in 1..k : <<f, from + i>> \in T
    BY <1>2, <2>1
  <2> HIDE DEF T
  <2> QED
    BY <2>2
<1> HIDE DEF T, g, u
<1>5. /\ u \o g \in Seq(T) /\ Len(u \o g) = Len(u) + k
      /\ \A i \in 1..(Len(u) + k) :
            (u \o g)[i] = (IF i <= Len(u) THEN u[i] ELSE g[i - Len(u)])
  BY <1>3, <1>4, ConcatProperties
<1>6. wire'[p] = u \o g /\ \A h \in Handle : h # p => wire'[h] = wire[h]
  BY <1>2, <1>3
<1>7. f[2] = "C" => Len(u) = wk[w].n
  BY <1>0, <1>2 DEF Fresh, u
<1>8. FramesApart'
  <2>1. ASSUME NEW i \in 1..(Len(u) + k)
        PROVE  /\ (u \o g)[i][1] = f
               /\ Blocking(p) => (u \o g)[i][2] = i
    <3>1. CASE i <= Len(u)
      <4>1. i \in DOMAIN u /\ (u \o g)[i] = u[i]
        BY <1>3, <1>5, <3>1
      <4> QED
        BY <1>2, <4>1 DEF FramesApart, u
    <3>2. CASE ~(i <= Len(u))
      <4>1. i - Len(u) \in 1..k
        BY <1>3, <3>2
      <4>2. (u \o g)[i] = <<f, from + (i - Len(u))>>
        BY <1>4, <1>5, <3>2, <4>1
      <4>3. Blocking(p) => from + (i - Len(u)) = i
        BY <1>1, <1>2, <1>3, <1>7 DEF Blocking
      <4> QED
        BY <4>2, <4>3
    <3> QED
      BY <3>1, <3>2
  <2>2. DOMAIN (u \o g) = 1..(Len(u) + k)
    BY <1>3, <1>5
  <2>3. ASSUME NEW h \in Handle, NEW i \in DOMAIN wire'[h]
        PROVE  /\ wire'[h][i][1] = Partner(h)
               /\ Blocking(h) => wire'[h][i][2] = i
    <3>1. CASE h = p
      BY <1>2, <1>6, <2>1, <2>2, <2>3, <3>1
    <3>2. CASE h # p
      BY <1>6, <2>3, <3>2 DEF FramesApart
    <3> QED
      BY <3>1, <3>2
  <2> QED
    BY <2>3 DEF FramesApart, Blocking
<1>9. Fresh'
  <2>0. PICK r \in Work : Advances(w, k, r)
    BY <1>0, <1>1, <1>2, PutSet
  <2>1. /\ wk' = [wk EXCEPT ![w] = r]
        /\ r = Idle \/ (r.pc = "write" /\ r.fh = f /\ r.n = wk[w].n + k /\ r.fh # NULL)
    BY <1>0, <2>0 DEF Advances
  <2>2. wk'[w] = r /\ \A v \in Worker : v # w => wk'[v] = wk[v]
    BY <2>1, IdleWork, WkSet
  <2>3. \A v \in Worker : wk[v].fh = f => v = w
    BY <1>0, <1>2 DEF Holding, Places
  <2> SUFFICES ASSUME NEW h \in Handle, h[2] = "C"
               PROVE  /\ armed'[h] \/ h \in ToSet(batch') \/ h \in ToSet(que') \/ alive'[h] = "none"
                            => wire'[Partner(h)] = <<>>
                      /\ \A v \in Worker :
                            wk'[v].fh = h =>
                                /\ wk'[v].pc = "read" => wire'[Partner(h)] = <<>>
                                /\ wk'[v].pc = "write" => Len(wire'[Partner(h)]) = wk'[v].n
    BY DEF Fresh
  <2>4. Partner(h) \in Handle /\ Partner(Partner(h)) = h /\ h # NULL
    BY PartnerFacts
  <2>5. CASE h = f
    <3>1. InWork(h) /\ InFlight(h)
      BY <1>0, <2>5 DEF InWork, InFlight
    <3>2. ~armed[h] /\ h \notin ToSet(batch) /\ h \notin ToSet(que) /\ alive[h] # "none"
      BY <3>1 DEF Holding, Places, Young, Nowhere
    <3>3. ASSUME NEW v \in Worker, wk'[v].fh = h
          PROVE  wk'[v].pc = "write" /\ Len(wire'[Partner(h)]) = wk'[v].n
      <4>1. v = w /\ r # Idle
        BY <2>2, <2>3, <2>4, <2>5, <3>3, IdleWork
      <4>2. r.pc = "write" /\ r.n = wk[w].n + k
        BY <2>1, <4>1
      <4>3. Len(wire'[p]) = Len(u) + k /\ Len(u) = wk[w].n
        BY <1>5, <1>6, <1>7, <2>5
      <4> QED
        BY <1>0, <2>2, <2>5, <4>1, <4>2, <4>3
    <3> QED
      BY <1>2, <3>2, <3>3
  <2>6. CASE h # f
    <3>1. Partner(h) # p
      BY <1>2, <2>4, <2>6
    <3>2. wire'[Partner(h)] = wire[Partner(h)]
      BY <1>6, <2>4, <3>1
    <3>3. \A v \in Worker : wk'[v].fh = h => wk'[v] = wk[v]
      BY <2>1, <2>2, <2>4, <2>6, IdleWork
    <3> QED
      BY <1>2, <3>2, <3>3 DEF Fresh
  <2> QED
    BY <2>5, <2>6
<1> QED
  BY <1>8, <1>9

LEMMA ProcessorWire ==
    ASSUME TypeOK, Holding, Fresh, FramesApart, NEW w \in Worker, Processor(w)
    PROVE  Fresh' /\ FramesApart'
<1>0. ASSUME Fresh', wire' = wire PROVE Fresh' /\ FramesApart'
  BY <1>0 DEF FramesApart
<1>1. CASE Pop(w)
  <2> DEFINE r == [pc |-> "read", fh |-> Head(que), n |-> 0]
  <2>1. /\ que \in Seq(Handle) /\ que # <<>> /\ IsInjective(que) /\ que' = Tail(que)
        /\ wk' = [wk EXCEPT ![w] = r] /\ UNCHANGED <<alive, armed, batch, wire>>
    BY <1>1 DEF Pop, At, TypeOK, Holding, Places, fhs, data
  <2>2. /\ Head(que) \in Handle /\ Head(que) \in ToSet(que)
        /\ ToSet(que') \subseteq ToSet(que)
    BY <2>1, TailSet
  <2>3. r \in Work /\ r.pc = "read" /\ r.fh = Head(que) /\ r.fh # NULL
    BY <2>2, PartnerFacts DEF Work, LastChunk
  <2> HIDE DEF r
  <2>4. wk'[w] = r /\ \A v \in Worker : v # w => wk'[v] = wk[v]
    BY <2>1, <2>3, WkSet
  <2>5. \A h \in Handle : Unread(h)' => Unread(h)
    BY <2>1, <2>2, <2>3, <2>4 DEF Unread
  <2>6. Fresh'
    BY <2>1, <2>3, <2>4, <2>5, FreshKept
  <2> QED
    BY <1>0, <2>1, <2>6
<1>2. CASE ReadChunk(w)
  <2>1. /\ wk[w].pc = "read" /\ UNCHANGED <<alive, armed, batch, que, wire>>
    BY <1>2 DEF ReadChunk, At, Ready, fhs
  <2>2. Moves(w) /\ (wk'[w].pc = "write" => wk'[w].n = 0)
    BY <1>2, ReadMoves
  <2>3. /\ wk'[w].fh = wk[w].fh /\ \A v \in Worker : v # w => wk'[v] = wk[v]
    BY <2>2, MovesType
  <2>4. \A h \in Handle : Unread(h)' => Unread(h)
    BY <2>1, <2>2, MovesUnread
  <2>5. Fresh'
    BY <2>1, <2>2, <2>3, <2>4, FreshKept
  <2> QED
    BY <1>0, <2>1, <2>5
<1>3. CASE ReadOff(w) \/ ReadErr(w) \/ WriteErr(w) \/ DestroyPartner(w)
  <2>1. PICK pc \in {"partner", "self"} :
           Goto(w, pc) /\ wk[w].pc # "pop" /\ UNCHANGED <<batch, que, wire>>
    BY <1>3 DEF ReadOff, ReadErr, WriteErr, DestroyPartner, At, Ready, data
  <2>2. Moves(w) /\ wk'[w].pc = pc
    BY <2>1, GotoMoves
  <2>3. \A v \in Worker : v # w => wk'[v] = wk[v]
    BY <2>2, MovesType
  <2>4. ASSUME NEW h \in Handle
        PROVE  (armed'[h] => armed[h]) /\ (alive'[h] = "none" => alive[h] = "none")
    <3>1. CASE UNCHANGED fhs
      BY <3>1 DEF fhs
    <3>2. CASE DestroyPartner(w)
      BY <3>2 DEF DestroyPartner, Free, TypeOK
    <3> QED
      BY <1>3, <3>1, <3>2 DEF ReadOff, ReadErr, WriteErr
  <2>5. \A h \in Handle : Unread(h)' => Unread(h)
    BY <2>1, <2>2, <2>4, MovesUnread
  <2>6. Fresh'
    BY <2>1, <2>2, <2>3, <2>5, FreshKept
  <2> QED
    BY <1>0, <2>1, <2>6
<1>4. CASE WriteBlocking(w) \/ WriteNonblocking(w)
  BY <1>4, PutFresh
<1>5. CASE DestroySelf(w)
  <2>1. /\ wk' = [wk EXCEPT ![w] = Idle] /\ UNCHANGED <<batch, que, wire>> /\ Free(wk[w].fh)
    BY <1>5 DEF DestroySelf, At, data
  <2>2. wk'[w] = Idle /\ \A v \in Worker : v # w => wk'[v] = wk[v]
    BY <2>1, IdleWork, WkSet
  <2>3. \A h \in Handle : (armed'[h] => armed[h]) /\ (alive'[h] = "none" => alive[h] = "none")
    BY <2>1 DEF Free, TypeOK
  <2>4. \A h \in Handle : Unread(h)' => Unread(h)
    BY <2>1, <2>2, <2>3, IdleWork DEF Unread
  <2>5. Fresh'
    BY <2>1, <2>2, <2>4, FreshKept, IdleWork
  <2> QED
    BY <1>0, <2>1, <2>5
<1>6. CASE Sigpipe(w) \/ WorkerUseFreed(w)
  <2>1. UNCHANGED <<alive, armed, batch, que, wk, wire>>
    BY <1>6 DEF Sigpipe, WorkerUseFreed, fhs, data
  <2> QED
    BY <2>1 DEF Fresh, FramesApart
<1> QED
  BY <1>1, <1>2, <1>3, <1>4, <1>5, <1>6 DEF Processor

LEMMA StepWire ==
    TypeOK /\ Holding /\ Fresh /\ FramesApart /\ [Next]_vars => Fresh' /\ FramesApart'
<1> SUFFICES ASSUME TypeOK, Holding, Fresh, FramesApart, [Next]_vars
             PROVE  Fresh' /\ FramesApart'
  OBVIOUS
<1>1. CASE Main
  <2>1. wk' = wk /\ wire' = wire
    BY <1>1 DEF Main, Wait, AcceptFailed, AcceptDropped, AcceptConnected, AcceptConnecting,
           OnConnected, OnConnectFailed, OnReady, MainUseFreed, Event, data
  <2>2. \A h \in Handle : h[2] = "C" /\ Unread(h)' => Unread(h)
    BY <1>1, MainUnread
  <2>3. Fresh'
    BY <2>1, <2>2, FreshKept
  <2> QED
    BY <2>1, <2>3 DEF FramesApart
<1>2. CASE Remote \/ UNCHANGED vars
  <2>1. UNCHANGED <<alive, armed, batch, que, wk, wire>>
    BY <1>2 DEF Remote, Arrive, Answer, PeerSend, PeerTake, PeerClose, Env, fhs, data, vars
  <2> QED
    BY <2>1 DEF Fresh, FramesApart
<1> QED
  BY <1>1, <1>2, ProcessorWire DEF Next

LEMMA InitVInv == Init => VInv
<1>1. Init => Fresh /\ FramesApart /\ FreedNeedsRival
  BY PartnerFacts DEF Init, Fresh, FramesApart, FreedNeedsRival, Idle
<1> QED
  BY <1>1, InitType, InitHolding DEF VInv, Holding

LEMMA StepVInv == VInv /\ [Next]_vars => VInv'
BY StepType, StepHolding, StepWire, StepRival DEF VInv, Holding

\* Whatever the processors do at once, the bytes on a socket came from its partner,
\* and a client gets the chunks of the frame in order.
THEOREM ProxyV1Frames == Spec => []FramesApart
<1>1. VInv => FramesApart
  BY DEF VInv
<1> QED
  BY <1>1, InitVInv, StepVInv, PTL DEF Spec
=============================================================================
