--------------------------- MODULE PacketIOProofs ---------------------------
(***************************************************************************)
(* Proofs about PacketIO, for every header size, every limit on the        *)
(* payload and every stream of frames.  IInv (in PacketIO) is inductive;   *)
(* the three properties follow from it.                                    *)
(***************************************************************************)
EXTENDS PacketIO, TLAPS

\* The constants' types.
LEMMA SizeFacts ==
    /\ HEADER_SIZE \in Nat /\ HEADER_SIZE > 0 /\ MAX_PACKET_SIZE \in Nat
    /\ NumPackets \in Nat /\ Total \in Nat /\ Total = Start[NumPackets+1]
    /\ Start[1] = 0
BY SizeAssumption, StreamAssumption DEF Total

\* What the assumptions say of the place of an object in the stream ...
LEMMA PlaceFacts == ASSUME NEW k \in 1..NumPackets+1 PROVE Start[k] \in Nat
BY SizeAssumption, StreamAssumption

\* ... and of a frame.
LEMMA FrameFacts ==
    ASSUME NEW k \in 1..NumPackets
    PROVE  /\ k+1 \in 1..NumPackets+1
           /\ Payload[k] \in Nat
           /\ Start[k+1] = Start[k] + HEADER_SIZE + Payload[k]
BY SizeAssumption, StreamAssumption

\* The initial state satisfies the invariant: the first object stands at the
\* first frame.
LEMMA InitInv == Init => IInv
<1> SUFFICES ASSUME Init PROVE IInv
  OBVIOUS
<1>1. TypeOK
  BY SizeFacts
  DEF Init, TypeOK, FreshHeader, FreshData, FreshBase, Byte, Location, IOState
<1> QED
  BY <1>1, SizeFacts
  DEF Init, IInv, Aligned, HeaderPhase, BodyPhase, WritePhase, Verbatim, FreshBase,
      Place, FrameLen

\* Where everything stands while a header is read, ...
AtHeader ==
    /\ HEADER_SIZE \in Nat /\ HEADER_SIZE > 0 /\ Total \in Nat
    /\ n \in 1..NumPackets+1 /\ Place \in Nat
    /\ pc = "head" /\ size = 0 /\ base = [buf |-> "hdr", off |-> opSize]
    /\ opSize \in Nat /\ cur \in Nat /\ cur = Place + opSize
    /\ hdr \in [0..HEADER_SIZE-1 -> 0..Total]
    /\ \A i \in 0..opSize-1 : hdr[i] = Place + i + 1

\* ... while a body is read ...
AtBody ==
    /\ HEADER_SIZE \in Nat /\ HEADER_SIZE > 0 /\ Total \in Nat
    /\ n \in 1..NumPackets /\ Place \in Nat /\ FrameLen \in Nat
    /\ size \in Nat /\ size = FrameLen /\ opSize <= size
    /\ base = [buf |-> "data", off |-> opSize]
    /\ opSize \in Nat /\ cur \in Nat /\ cur = Place + opSize
    /\ data \in [0..size-1 -> 0..Total]
    /\ \A i \in 0..opSize-1 : data[i] = Place + i + 1

\* ... and while a packet is written.
AtWrite ==
    /\ HEADER_SIZE \in Nat /\ HEADER_SIZE > 0 /\ Total \in Nat
    /\ n \in 1..NumPackets /\ Place \in Nat /\ FrameLen \in Nat
    /\ size \in Nat /\ size = FrameLen /\ opSize <= size
    /\ base = [buf |-> "data", off |-> opSize]
    /\ opSize \in Nat /\ cur \in Nat /\ cur = Place + size
    /\ Len(sent) = Place + opSize
    /\ data \in [0..size-1 -> 0..Total]
    /\ \A i \in 0..size-1 : data[i] = Place + i + 1

LEMMA HeaderFacts ==
    ASSUME IInv, pc \in {"head", "body"}, opSize < HEADER_SIZE
    PROVE  AtHeader
<1>1. /\ n \in 1..NumPackets+1 /\ opSize \in Nat /\ cur \in Nat
      /\ hdr \in [0..HEADER_SIZE-1 -> 0..Total]
  BY SizeFacts DEF IInv, TypeOK, Byte
<1>2. Place \in Nat
  BY <1>1, PlaceFacts DEF Place
<1> QED
  BY <1>1, <1>2, SizeFacts DEF IInv, HeaderPhase, Aligned, AtHeader

LEMMA BodyFacts ==
    ASSUME IInv, pc \in {"head", "body"}, opSize >= HEADER_SIZE
    PROVE  AtBody
<1>1. /\ n \in 1..NumPackets+1 /\ opSize \in Nat /\ cur \in Nat /\ size \in Nat
      /\ data \in [0..size-1 -> 0..Total]
  BY SizeFacts DEF IInv, TypeOK, Byte
<1>2. n \in 1..NumPackets
  BY <1>1, SizeFacts DEF IInv, BodyPhase
<1>3. Place \in Nat /\ FrameLen \in Nat
  BY <1>1, <1>2, PlaceFacts, FrameFacts, SizeFacts DEF Place, FrameLen
<1>4. cur = Place + opSize
  BY DEF IInv, Aligned
<1> QED
  BY <1>1, <1>2, <1>3, <1>4, SizeFacts DEF IInv, BodyPhase, AtBody

LEMMA WriteFacts == ASSUME IInv, pc = "write" PROVE AtWrite
<1>1. /\ n \in 1..NumPackets+1 /\ opSize \in Nat /\ cur \in Nat /\ size \in Nat
      /\ data \in [0..size-1 -> 0..Total]
  BY SizeFacts DEF IInv, TypeOK, Byte
<1>2. n \in 1..NumPackets
  BY <1>1, SizeFacts DEF IInv, WritePhase
<1>3. Place \in Nat /\ FrameLen \in Nat
  BY <1>1, <1>2, PlaceFacts, FrameFacts, SizeFacts DEF Place, FrameLen
<1>4. cur = Place + size /\ Len(sent) = Place + opSize
  BY DEF IInv, Aligned
<1> QED
  BY <1>1, <1>2, <1>3, <1>4, SizeFacts DEF IInv, WritePhase, AtWrite

\* A part of a header keeps the invariant.
LEMMA ReadHeaderPartInv ==
    ASSUME IInv, NEW r \in 1..HEADER_SIZE, ReadHeaderPart(r)
    PROVE  IInv'
<1>1. pc \in {"head", "body"} /\ opSize < HEADER_SIZE
  BY DEF ReadHeaderPart, Receive, Reading
<1>2. AtHeader
  BY <1>1, HeaderFacts
<1>3. r \in Nat /\ r < HEADER_SIZE - opSize /\ cur + r <= Total
  BY <1>2 DEF AtHeader, ReadHeaderPart, Receive
<1>4. /\ opSize' = opSize + r /\ cur' = cur + r
      /\ base' = [buf |-> "hdr", off |-> opSize + r]
      /\ UNCHANGED <<n, data, size, pc, state, sent>>
  BY <1>2 DEF AtHeader, ReadHeaderPart, Receive, Advanced
<1>5. hdr' = [i \in 0..HEADER_SIZE-1 |->
                IF i \in opSize..opSize+r-1 THEN cur + (i - opSize) + 1 ELSE hdr[i]]
  BY <1>2 DEF AtHeader, ReadHeaderPart, Filled
<1>6. hdr' \in [0..HEADER_SIZE-1 -> 0..Total]
  BY <1>2, <1>3, <1>5 DEF AtHeader
<1>7. opSize' \in Nat /\ cur' \in 0..Total /\ opSize' < HEADER_SIZE
  BY <1>2, <1>3, <1>4 DEF AtHeader
<1>8. TypeOK'
  BY <1>2, <1>4, <1>6, <1>7 DEF IInv, TypeOK, Byte
<1>9. \A i \in 0..opSize'-1 : hdr'[i] = Place + i + 1
  BY <1>2, <1>3, <1>4, <1>5 DEF AtHeader
<1>10. HeaderPhase'
  BY <1>2, <1>4, <1>9 DEF AtHeader, HeaderPhase, Place
<1>11. Aligned'
  <2>1. Len(sent) = Place + 0
    BY <1>2 DEF AtHeader, IInv, Aligned
  <2>2. cur' = Place + opSize'
    BY <1>2, <1>3, <1>4 DEF AtHeader
  <2> QED
    BY <2>1, <2>2, <1>2, <1>4 DEF AtHeader, Aligned, Place
<1>12. BodyPhase' /\ WritePhase' /\ Verbatim'
  BY <1>2, <1>4, <1>7 DEF AtHeader, IInv, BodyPhase, WritePhase, Verbatim
<1> QED
  BY <1>8, <1>10, <1>11, <1>12 DEF IInv

\* The header's last bytes arrive: the frame's length is the one the peer wrote
\* and the copy of the header starts the vector.
LEMMA ReadHeaderInv == ASSUME IInv, ReadHeader PROVE IInv'
<1>1. pc \in {"head", "body"} /\ opSize < HEADER_SIZE
  BY DEF ReadHeader, Resized, BodyBase, Receive, Reading
<1>2. AtHeader
  BY <1>1, HeaderFacts
<1>3. opSize' = HEADER_SIZE /\ cur' = Place + HEADER_SIZE /\ Place + HEADER_SIZE <= Total
  BY <1>1, <1>2 DEF AtHeader, ReadHeader, Resized, BodyBase, Receive
<1>4. n \in 1..NumPackets
  <2>1. n # NumPackets + 1
    <3> SUFFICES ASSUME n = NumPackets + 1 PROVE FALSE
      OBVIOUS
    <3>1. Place = Total
      BY SizeFacts DEF Place
    <3> QED
      BY <3>1, <1>2, <1>3 DEF AtHeader
  <2> QED
    BY <2>1, <1>2, SizeFacts DEF AtHeader
<1>5. Payload[n] \in Nat /\ FrameLen \in Nat /\ FrameLen >= HEADER_SIZE
  BY <1>4, FrameFacts, SizeFacts DEF FrameLen
<1>6. hdr' = [i \in 0..HEADER_SIZE-1 |->
                IF i \in opSize..HEADER_SIZE-1 THEN cur + (i - opSize) + 1 ELSE hdr[i]]
  <2>1. opSize + (HEADER_SIZE - opSize) - 1 = HEADER_SIZE - 1
    BY <1>2 DEF AtHeader
  <2> QED
    BY <2>1, <1>2 DEF AtHeader, ReadHeader, Resized, BodyBase, Filled
<1>7. \A i \in 0..HEADER_SIZE-1 : hdr'[i] = Place + i + 1
  BY <1>2, <1>6 DEF AtHeader
<1>8. HeaderVal(hdr') = {Payload[n]}
  BY <1>4, <1>7, SizeFacts DEF HeaderVal
<1>9. /\ pc' = "body" /\ size' = FrameLen
      /\ data' = [i \in 0..size'-1 |-> IF i < HEADER_SIZE THEN hdr'[i] ELSE 0]
      /\ base' = [buf |-> "data", off |-> HEADER_SIZE]
      /\ UNCHANGED <<n, state, sent>>
  BY <1>5, <1>8, SizeFacts DEF ReadHeader, Resized, BodyBase, FrameLen
<1>10. hdr' \in [0..HEADER_SIZE-1 -> 0..Total]
  BY <1>2, <1>3, <1>6 DEF AtHeader
<1>11. data' \in [0..FrameLen-1 -> 0..Total]
  BY <1>2, <1>5, <1>9, <1>10 DEF AtHeader
<1>12. TypeOK'
  <2>1. opSize' \in Nat /\ cur' \in 0..Total
    BY <1>2, <1>3 DEF AtHeader
  <2> QED
    BY <2>1, <1>2, <1>3, <1>5, <1>9, <1>10, <1>11
    DEF AtHeader, IInv, TypeOK, Byte, Location
<1>13. BodyPhase'
  <2>1. \A i \in 0..HEADER_SIZE-1 : data'[i] = Place + i + 1
    BY <1>2, <1>5, <1>7, <1>9, <1>10 DEF AtHeader
  <2>2. n <= NumPackets
    BY <1>4, SizeFacts
  <2> QED
    BY <2>1, <2>2, <1>3, <1>5, <1>9 DEF BodyPhase, Place, FrameLen
<1>14. Aligned'
  <2>1. Len(sent) = Place + 0
    BY <1>2 DEF AtHeader, IInv, Aligned
  <2> QED
    BY <2>1, <1>2, <1>3, <1>9 DEF AtHeader, Aligned, Place
<1>15. HeaderPhase' /\ WritePhase' /\ Verbatim'
  BY <1>2, <1>3, <1>9 DEF AtHeader, IInv, HeaderPhase, WritePhase, Verbatim
<1> QED
  BY <1>12, <1>13, <1>14, <1>15 DEF IInv

\* Bytes of the body keep the invariant.
LEMMA ReadBodyInv ==
    ASSUME IInv, NEW r \in 1..MAX_PACKET_SIZE, ReadBody(r)
    PROVE  IInv'
<1>1. pc \in {"head", "body"} /\ opSize >= HEADER_SIZE
  BY DEF ReadBody, Receive, Reading
<1>2. AtBody
  BY <1>1, BodyFacts
<1>3. r \in Nat /\ r <= size - opSize /\ cur + r <= Total
  BY <1>1, <1>2, SizeFacts DEF AtBody, ReadBody, Receive, Wanted
<1>4. /\ opSize' = opSize + r /\ cur' = cur + r /\ pc' = "head"
      /\ base' = [buf |-> "data", off |-> opSize + r]
      /\ UNCHANGED <<n, hdr, size, state, sent>>
  BY <1>2 DEF AtBody, ReadBody, Receive, Advanced
<1>5. data' = [i \in 0..size-1 |->
                 IF i \in opSize..opSize+r-1 THEN cur + (i - opSize) + 1 ELSE data[i]]
  BY <1>2 DEF AtBody, ReadBody, Filled
<1>6. data' \in [0..size-1 -> 0..Total]
  BY <1>2, <1>3, <1>5 DEF AtBody
<1>7. opSize' \in Nat /\ cur' \in 0..Total /\ opSize' <= size /\ opSize' >= HEADER_SIZE
  BY <1>1, <1>2, <1>3, <1>4 DEF AtBody
<1>8. TypeOK'
  BY <1>2, <1>4, <1>6, <1>7 DEF AtBody, IInv, TypeOK, Byte, Location
<1>9. \A i \in 0..opSize'-1 : data'[i] = Place + i + 1
  BY <1>2, <1>3, <1>4, <1>5 DEF AtBody
<1>10. BodyPhase'
  <2>1. n <= NumPackets
    BY <1>2, SizeFacts DEF AtBody
  <2> QED
    BY <2>1, <1>2, <1>4, <1>7, <1>9 DEF AtBody, BodyPhase, Place, FrameLen
<1>11. Aligned'
  <2>1. Len(sent) = Place + 0
    BY <1>1 DEF IInv, Aligned
  <2>2. cur' = Place + opSize'
    BY <1>2, <1>3, <1>4 DEF AtBody
  <2> QED
    BY <2>1, <2>2, <1>4 DEF Aligned, Place
<1>12. HeaderPhase' /\ WritePhase' /\ Verbatim'
  BY <1>2, <1>4, <1>7 DEF AtBody, IInv, HeaderPhase, WritePhase, Verbatim
<1> QED
  BY <1>8, <1>10, <1>11, <1>12 DEF IInv

\* A complete packet becomes one to write.
LEMMA ReadDoneInv == ASSUME IInv, ReadDone PROVE IInv'
<1>1. opSize \in Nat /\ size \in Nat /\ HEADER_SIZE \in Nat
  BY SizeFacts DEF IInv, TypeOK
<1>2. pc = "head" /\ opSize >= HEADER_SIZE /\ opSize >= size
  BY <1>1 DEF ReadDone, Incomplete
<1>3. AtBody
  BY <1>2, BodyFacts
<1>4. opSize = size
  BY <1>2, <1>3 DEF AtBody
<1>5. /\ opSize' = 0 /\ pc' = "write" /\ base' = [buf |-> "data", off |-> 0]
      /\ state' = "Done"
      /\ UNCHANGED <<n, hdr, data, size, cur, sent>>
  BY DEF ReadDone
<1>6. TypeOK'
  BY <1>5 DEF IInv, TypeOK, Location, IOState
<1>7. Aligned'
  <2>1. Len(sent) = Place + 0
    BY <1>2 DEF IInv, Aligned
  <2> QED
    BY <2>1, <1>3, <1>4, <1>5 DEF AtBody, Aligned, Place
<1>8. WritePhase'
  <2>1. n <= NumPackets /\ 0 <= size
    BY <1>3, SizeFacts DEF AtBody
  <2> QED
    BY <2>1, <1>3, <1>4, <1>5 DEF AtBody, WritePhase, Place, FrameLen
<1>9. HeaderPhase' /\ BodyPhase' /\ Verbatim'
  BY <1>5 DEF IInv, HeaderPhase, BodyPhase, Verbatim
<1> QED
  BY <1>6, <1>7, <1>8, <1>9 DEF IInv

\* What appending a chunk to a sequence gives.
LEMMA AppendChunk ==
    ASSUME NEW S, NEW s \in Seq(S), NEW w \in Nat, NEW c \in [1..w -> S]
    PROVE  /\ s \o c \in Seq(S)
           /\ Len(s \o c) = Len(s) + w
           /\ \A j \in 1..Len(s) : (s \o c)[j] = s[j]
           /\ \A j \in 1..w : (s \o c)[Len(s) + j] = c[j]
<1>1. c \in Seq(S) /\ Len(c) = w
  OBVIOUS
<1> QED
  BY <1>1

\* Written bytes are the next ones of the stream.
LEMMA WriteSomeInv ==
    ASSUME IInv, NEW w \in 1..HEADER_SIZE+MAX_PACKET_SIZE, WriteSome(w)
    PROVE  IInv'
<1> DEFINE chunk == [i \in 1..w |-> Target[base.off + i - 1]]
<1>1. pc = "write"
  BY DEF WriteSome, Written
<1>2. AtWrite
  BY <1>1, WriteFacts
<1>3. w \in Nat /\ w > 0 /\ w <= size - opSize
  BY <1>2, SizeFacts DEF AtWrite, WriteSome, Written
<1>4. /\ opSize' = opSize + w /\ sent' = sent \o chunk
      /\ base' = [buf |-> "data", off |-> opSize + w]
      /\ UNCHANGED <<n, hdr, data, size, pc, state, cur>>
  BY <1>2 DEF AtWrite, WriteSome, Written, Advanced
<1>5. chunk = [i \in 1..w |-> data[opSize + i - 1]]
  BY <1>2 DEF AtWrite, Target
<1>6. ASSUME NEW i \in 1..w PROVE chunk[i] = Place + opSize + i /\ chunk[i] \in Byte
  <2>1. opSize + i - 1 \in 0..size-1
    BY <1>2, <1>3 DEF AtWrite
  <2>2. /\ data[opSize + i - 1] = Place + (opSize + i - 1) + 1
        /\ data[opSize + i - 1] \in Byte
    BY <2>1, <1>2 DEF AtWrite, Byte
  <2>3. chunk[i] = data[opSize + i - 1]
    BY <1>5
  <2>4. Place + (opSize + i - 1) + 1 = Place + opSize + i
    BY <1>2, <1>3 DEF AtWrite
  <2> QED
    BY <2>2, <2>3, <2>4
<1>7. chunk \in [1..w -> Byte]
  BY <1>5, <1>6
<1> HIDE DEF chunk
<1>8. sent \in Seq(Byte) /\ \A j \in 1..Len(sent) : sent[j] = j
  BY DEF IInv, TypeOK, Verbatim
<1>9. /\ sent' \in Seq(Byte) /\ Len(sent') = Len(sent) + w
      /\ \A j \in 1..Len(sent) : sent'[j] = sent[j]
      /\ \A j \in 1..w : sent'[Len(sent) + j] = chunk[j]
  <2>1. /\ sent \o chunk \in Seq(Byte) /\ Len(sent \o chunk) = Len(sent) + w
        /\ \A j \in 1..Len(sent) : (sent \o chunk)[j] = sent[j]
        /\ \A j \in 1..w : (sent \o chunk)[Len(sent) + j] = chunk[j]
    <3>1. sent \in Seq(Byte) /\ w \in Nat
      BY <1>3, <1>8
    <3> QED
      BY ONLY <3>1, <1>7, AppendChunk
  <2>2. sent' = sent \o chunk
    BY <1>4
  <2> QED
    BY <2>1, <2>2, Zenon
<1>10. Verbatim'
  <2> SUFFICES ASSUME NEW j \in 1..Len(sent)+w PROVE sent'[j] = j
    BY <1>9 DEF Verbatim
  <2>1. Len(sent) \in Nat
    BY <1>8
  <2>2. CASE j \in 1..Len(sent)
    BY <2>2, <1>8, <1>9
  <2>3. CASE j \notin 1..Len(sent)
    <3>1. PICK i \in 1..w : j = Len(sent) + i
      <4>1. j - Len(sent) \in 1..w /\ j = Len(sent) + (j - Len(sent))
        BY <2>1, <2>3, <1>3
      <4> QED
        BY <4>1
    <3>2. sent'[j] = Place + opSize + i
      BY <3>1, <1>6, <1>9
    <3>3. Len(sent) = Place + opSize
      BY <1>2 DEF AtWrite
    <3> QED
      BY <3>1, <3>2, <3>3
  <2> QED
    BY <2>2, <2>3
<1>11. opSize' \in Nat /\ opSize' <= size
  BY <1>2, <1>3, <1>4 DEF AtWrite
<1>12. TypeOK'
  BY <1>2, <1>4, <1>9, <1>11 DEF AtWrite, IInv, TypeOK
<1>13. WritePhase'
  <2>1. n <= NumPackets
    BY <1>2, SizeFacts DEF AtWrite
  <2> QED
    BY <2>1, <1>2, <1>4, <1>11 DEF AtWrite, WritePhase, Place, FrameLen
<1>14. Aligned'
  <2>1. Len(sent') = Place + opSize'
    BY <1>2, <1>3, <1>4, <1>9 DEF AtWrite
  <2> QED
    BY <2>1, <1>1, <1>2, <1>4 DEF AtWrite, Aligned, Place
<1>15. HeaderPhase' /\ BodyPhase'
  BY <1>1, <1>4 DEF HeaderPhase, BodyPhase
<1> QED
  BY <1>10, <1>12, <1>13, <1>14, <1>15 DEF IInv

\* The next object stands at the next frame.
LEMMA WriteDoneInv == ASSUME IInv, WriteDone PROVE IInv'
<1>1. pc = "write" /\ opSize >= size
  BY DEF WriteDone
<1>2. AtWrite
  BY <1>1, WriteFacts
<1>3. /\ n' = n + 1 /\ opSize' = 0 /\ size' = 0 /\ pc' = "head" /\ state' = "Done"
      /\ hdr' = FreshHeader /\ data' = FreshData /\ base' = FreshBase
      /\ UNCHANGED <<cur, sent>>
  BY DEF WriteDone
<1>4. n + 1 \in 1..NumPackets+1 /\ Start[n+1] = Start[n] + HEADER_SIZE + Payload[n]
  BY <1>2, FrameFacts DEF AtWrite
<1>5. Place' \in Nat
  BY <1>3, <1>4, PlaceFacts DEF Place
<1>6. Place' = Place + FrameLen
  <2>1. Start[n] \in Nat /\ Payload[n] \in Nat
    BY <1>2, FrameFacts DEF AtWrite, Place
  <2> QED
    BY <2>1, <1>3, <1>4, SizeFacts DEF Place, FrameLen
<1>7. cur = Place + FrameLen /\ Len(sent) = Place + FrameLen
  BY <1>1, <1>2 DEF AtWrite
<1>8. FreshHeader \in [0..HEADER_SIZE-1 -> 0..Total] /\ FreshData \in [0..0-1 -> 0..Total]
  BY SizeFacts DEF FreshHeader, FreshData
<1>9. TypeOK'
  BY <1>3, <1>4, <1>8 DEF IInv, TypeOK, FreshBase, Byte, Location, IOState
<1>10. Aligned'
  <2>1. cur' = Place' + 0 /\ Len(sent') = Place' + 0
    BY <1>3, <1>5, <1>6, <1>7
  <2> QED
    BY <2>1, <1>3 DEF Aligned
<1>11. HeaderPhase' /\ BodyPhase' /\ WritePhase' /\ Verbatim'
  BY <1>3, SizeFacts
  DEF IInv, HeaderPhase, BodyPhase, WritePhase, Verbatim, FreshBase
<1> QED
  BY <1>9, <1>10, <1>11 DEF IInv

\* The calls that fail, end or wait leave the object's progress alone.
LEMMA OtherInv ==
    ASSUME IInv,
           \/ ReadHeaderErr \/ ReadInterrupted \/ ReadAgain
           \/ ReadOff \/ WriteAgain \/ WriteErr
    PROVE  IInv'
<1>1. CASE ReadHeaderErr
  <2>1. pc \in {"head", "body"} /\ opSize < HEADER_SIZE
    BY <1>1 DEF ReadHeaderErr, Receive, Reading
  <2>2. AtHeader
    BY <2>1, HeaderFacts
  <2>3. opSize' = HEADER_SIZE /\ cur' = Place + HEADER_SIZE /\ Place + HEADER_SIZE <= Total
    BY <1>1, <2>1, <2>2 DEF AtHeader, ReadHeaderErr, Receive
  <2>4. hdr' = [i \in 0..HEADER_SIZE-1 |->
                  IF i \in opSize..opSize+(HEADER_SIZE-opSize)-1
                  THEN cur + (i - opSize) + 1 ELSE hdr[i]]
    BY <1>1, <2>2 DEF AtHeader, ReadHeaderErr, Filled
  <2>5. hdr' \in [0..HEADER_SIZE-1 -> 0..Total] /\ cur' \in 0..Total
    BY <2>2, <2>3, <2>4 DEF AtHeader
  <2>6. TypeOK'
    BY <1>1, <2>2, <2>3, <2>5 DEF AtHeader, IInv, TypeOK, ReadHeaderErr, Byte, Location, IOState
  <2> QED
    BY <1>1, <2>6
    DEF IInv, Aligned, HeaderPhase, BodyPhase, WritePhase, Verbatim, ReadHeaderErr
<1>2. CASE ReadOff \/ WriteErr
  BY <1>2
  DEF IInv, TypeOK, Aligned, HeaderPhase, BodyPhase, WritePhase, Verbatim, Location,
      IOState, ReadOff, WriteErr
<1>3. CASE ReadInterrupted \/ ReadAgain \/ WriteAgain
  BY <1>3
  DEF IInv, TypeOK, Aligned, HeaderPhase, BodyPhase, WritePhase, Verbatim, Location,
      IOState, ReadInterrupted, ReadAgain, WriteAgain, Reading, Incomplete, Place, FrameLen
<1> QED
  BY <1>1, <1>2, <1>3

\* IInv is inductive: every step of the code keeps it.
LEMMA StepInv == IInv /\ [Next]_vars => IInv'
<1> SUFFICES ASSUME IInv, [Next]_vars PROVE IInv'
  OBVIOUS
<1>1. CASE Next
  BY <1>1, ReadHeaderPartInv, ReadHeaderInv, ReadBodyInv, ReadDoneInv,
     WriteSomeInv, WriteDoneInv, OtherInv
  DEF Next
<1>2. CASE UNCHANGED vars
  BY <1>2
  DEF vars, IInv, TypeOK, Aligned, HeaderPhase, BodyPhase, WritePhase, Verbatim,
      Place, FrameLen
<1> QED
  BY <1>1, <1>2

THEOREM Invariance == Spec => []IInv
BY InitInv, StepInv, PTL DEF Spec

\* Every variable of a packet keeps to its type (packet.h).
THEOREM SpecTypeOK == Spec => []TypeOK
<1>1. IInv => TypeOK
  BY DEF IInv
<1> QED
  BY <1>1, Invariance, PTL

\* Reads and writes stay inside their buffers (packet.cpp: Read and Write).
LEMMA IInvInBounds == IInv => InBounds
<1> SUFFICES ASSUME IInv PROVE InBounds
  OBVIOUS
<1>1. ASSUME Reading PROVE \A i \in 0..Wanted-1 : base.off + i \in DOMAIN Target
  <2>1. opSize \in Nat /\ pc \in {"head", "body"}
    BY <1>1 DEF IInv, TypeOK, Reading
  <2>2. CASE opSize < HEADER_SIZE
    <3>1. AtHeader
      BY <2>1, <2>2, HeaderFacts
    <3> QED
      BY <2>2, <3>1 DEF AtHeader, Wanted, Target
  <2>3. CASE opSize >= HEADER_SIZE
    <3>1. AtBody
      BY <2>1, <2>3, BodyFacts
    <3> QED
      BY <2>3, <3>1 DEF AtBody, Wanted, Target
  <2> QED
    BY <2>1, <2>2, <2>3, SizeFacts
<1>2. ASSUME pc = "write"
      PROVE  \A i \in 0..size-opSize-1 : base.off + i \in DOMAIN Target
  <2>1. AtWrite
    BY <1>2, WriteFacts
  <2> QED
    BY <2>1 DEF AtWrite, Target
<1> QED
  BY <1>1, <1>2 DEF InBounds

\* A packet handed over is exactly one frame.
LEMMA IInvBoundary == IInv => Boundary
<1> SUFFICES ASSUME IInv, pc = "write"
             PROVE  Boundary
  BY DEF Boundary
<1>1. AtWrite
  BY WriteFacts
<1>2. n <= NumPackets /\ DOMAIN data = 0..FrameLen-1 /\ cur = Place + FrameLen
  BY <1>1, SizeFacts DEF AtWrite
<1>3. Start[n+1] = Place + FrameLen
  <2>1. /\ Start[n+1] = Start[n] + HEADER_SIZE + Payload[n]
        /\ Start[n] \in Nat /\ Payload[n] \in Nat
    BY <1>1, FrameFacts DEF AtWrite, Place
  <2> QED
    BY <2>1, SizeFacts DEF Place, FrameLen
<1>4. \A i \in 0..FrameLen-1 : data[i] = Place + i + 1
  BY <1>1 DEF AtWrite
<1> QED
  BY <1>2, <1>3, <1>4 DEF Boundary

\* No read(2) and no write(2) of a Packet leaves its buffer.
THEOREM SpecInBounds == Spec => []InBounds
BY Invariance, IInvInBounds, PTL

\* Every packet handed over for writing is exactly one frame of the stream.
THEOREM SpecBoundary == Spec => []Boundary
BY Invariance, IInvBoundary, PTL

\* The bytes written are the bytes read, in order.
THEOREM SpecVerbatim == Spec => []Verbatim
BY Invariance, PTL DEF IInv
=============================================================================
