------------------------------ MODULE PacketIO ------------------------------
(***************************************************************************)
(* The life of the Packet objects of mq-proxy2 (packet.h, packet.cpp), at  *)
(* the level of single bytes.  FdHandle::DoRead creates a Packet, calls    *)
(* Packet::Read on the source socket until one frame is complete, the      *)
(* I/O processor turns it into a packet to write and Packet::Write sends   *)
(* it on the destination socket; then the object is deleted and the next   *)
(* frame gets an object of its own.                                        *)
(*                                                                         *)
(* The peer sends NumPackets frames, a frame being HEADER_SIZE bytes that  *)
(* hold the payload's length and then the payload.  The bytes of its       *)
(* stream are numbered from 1, so that a buffer shows where each of its    *)
(* bytes came from; 0 stands for a byte nobody has read.                   *)
(*                                                                         *)
(* Every read(2) and write(2) may transfer fewer bytes than asked, fail    *)
(* with EINTR or EAGAIN, fail for good, or find the end of the stream.     *)
(***************************************************************************)
EXTENDS Integers, Sequences

CONSTANTS HEADER_SIZE,     \* bytes of a header (packet.h:26)
          MAX_PACKET_SIZE, \* longest payload the proxy accepts (packet.h:25)
          NumPackets,      \* number of frames in the peer's stream
          Payload,         \* Payload[k] is the payload length of frame k
          Start            \* Start[k] bytes of the stream precede frame k

ASSUME SizeAssumption ==
    /\ HEADER_SIZE \in Nat \ {0}
    /\ MAX_PACKET_SIZE \in Nat
    /\ NumPackets \in Nat

ASSUME StreamAssumption ==
    /\ Payload \in [1..NumPackets -> Nat]
    /\ Start \in [1..NumPackets+1 -> Nat]
    /\ Start[1] = 0
    /\ \A k \in 1..NumPackets : Start[k+1] = Start[k] + HEADER_SIZE + Payload[k]

Total == Start[NumPackets + 1]

VARIABLES n,       \* the frame the current Packet object is for
          hdr,     \* header_: HEADER_SIZE bytes
          data,    \* data_: a vector, indexed from 0
          size,    \* size_
          opSize,  \* op_size_: bytes of this operation done so far
          base,    \* op_base_: a buffer and an offset into it
          pc,      \* where the code is: see TypeOK
          state,   \* the last IOState a call returned
          cur,     \* bytes the proxy has taken from the source socket
          sent     \* bytes the proxy has put on the destination socket

vars == <<n, hdr, data, size, opSize, base, pc, state, cur, sent>>

Byte     == 0..Total
IOState  == {"None", "Again", "Done", "SockOff", "HeaderErr", "Errno"}

\* "head": at the test of the loop in Packet::Read (or about to call it),
\* "body": past the header branch of the loop, in front of the body's read,
\* "write": Packet::Write is called on the object, "closed": the pair of
\* handles this object belongs to was cleared.
Location == {"head", "body", "write", "closed"}

TypeOK ==
    /\ n \in 1..NumPackets+1
    /\ hdr \in [0..HEADER_SIZE-1 -> Byte]
    /\ size \in Nat
    /\ data \in [0..size-1 -> Byte]
    /\ opSize \in Nat
    /\ base \in [buf : {"hdr", "data"}, off : Nat]
    /\ pc \in Location
    /\ state \in IOState
    /\ cur \in Byte
    /\ sent \in Seq(Byte)

-----------------------------------------------------------------------------
\* Bytes of the stream in front of the current object's frame, and bytes of
\* that frame, its header included.
Place    == Start[n]
FrameLen == HEADER_SIZE + Payload[n]

\* The buffer op_base_ points into.
Target == IF base.buf = "hdr" THEN hdr ELSE data

\* Buffer b after read(2) has stored the next r bytes of the stream at
\* op_base_.
Filled(b, r) ==
    [i \in DOMAIN b |-> IF i \in base.off .. base.off + r - 1
                        THEN cur + (i - base.off) + 1 ELSE b[i]]

\* What header_.val may be once the header's bytes are h: the length the peer
\* wrote if they are the header of frame n, and any number otherwise.
HeaderVal(h) ==
    IF n <= NumPackets /\ \A i \in 0..HEADER_SIZE-1 : h[i] = Place + i + 1
    THEN {Payload[n]}
    ELSE 0..MAX_PACKET_SIZE+1

Advanced(r) == [base EXCEPT !.off = @ + r]

\* How many bytes the next read(2) of Packet::Read asks for.
Wanted == (IF opSize < HEADER_SIZE THEN HEADER_SIZE ELSE size) - opSize

\* The loop of Packet::Read goes on.  The mutant stops behind the header.
IncompleteHeader == opSize < HEADER_SIZE
Incomplete == opSize < HEADER_SIZE \/ opSize < size

\* Packet::Read is in front of a read(2).
Reading == pc = "body" \/ (pc = "head" /\ Incomplete)

\* header_, data_ and op_base_ as the constructor leaves them; size_ and
\* op_size_ are 0.
FreshHeader == [i \in 0..HEADER_SIZE-1 |-> 0]
FreshData   == [i \in 0..-1 |-> 0]
FreshBase   == [buf |-> "hdr", off |-> 0]

Init ==
    /\ n = 1
    /\ hdr = FreshHeader
    /\ data = FreshData
    /\ size = 0
    /\ opSize = 0
    /\ base = FreshBase
    /\ pc = "head"
    /\ state = "None"
    /\ cur = 0
    /\ sent = <<>>

-----------------------------------------------------------------------------
\* read(2) delivers r bytes.
Receive(r) ==
    /\ Reading
    /\ r \in 1..Wanted
    /\ cur + r <= Total
    /\ cur' = cur + r
    /\ opSize' = opSize + r

\* A part of the header arrives (ret < nread).
ReadHeaderPart(r) ==
    /\ opSize < HEADER_SIZE
    /\ r < HEADER_SIZE - opSize
    /\ Receive(r)
    /\ hdr' = Filled(hdr, r)
    /\ base' = Advanced(r)
    /\ UNCHANGED <<n, data, size, pc, state, sent>>

\* data_ once it has size v, and op_base_ behind the copy of the header.  The
\* mutants do not resize the vector, or read the body where the header was.
ResizedNot(h, v)  == h
Resized(h, v)     == [i \in 0..v-1 |-> IF i < HEADER_SIZE THEN h[i] ELSE 0]
BodyBaseInHeader  == Advanced(HEADER_SIZE - opSize)
BodyBase          == [buf |-> "data", off |-> HEADER_SIZE]

\* The rest of the header arrives and its length is acceptable: the vector
\* gets the frame's size, the header is copied into it and the next bytes go
\* behind that copy.
ReadHeader ==
    /\ opSize < HEADER_SIZE
    /\ Receive(HEADER_SIZE - opSize)
    /\ hdr' = Filled(hdr, HEADER_SIZE - opSize)
    /\ \E v \in HeaderVal(hdr') :
          /\ v <= MAX_PACKET_SIZE
          /\ size' = v + HEADER_SIZE
          /\ data' = Resized(hdr', size')
          /\ base' = BodyBase
    /\ pc' = "body"
    /\ UNCHANGED <<n, state, sent>>

\* The rest of the header arrives and announces too long a payload.
ReadHeaderErr ==
    /\ opSize < HEADER_SIZE
    /\ Receive(HEADER_SIZE - opSize)
    /\ hdr' = Filled(hdr, HEADER_SIZE - opSize)
    /\ \E v \in HeaderVal(hdr') : v > MAX_PACKET_SIZE
    /\ state' = "HeaderErr"
    /\ pc' = "closed"
    /\ UNCHANGED <<n, data, size, base, sent>>

\* Bytes of the body arrive.
ReadBody(r) ==
    /\ opSize >= HEADER_SIZE
    /\ Receive(r)
    /\ IF base.buf = "hdr" THEN hdr' = Filled(hdr, r) /\ UNCHANGED data
                           ELSE data' = Filled(data, r) /\ UNCHANGED hdr
    /\ base' = Advanced(r)
    /\ pc' = "head"
    /\ UNCHANGED <<n, size, state, sent>>

\* EINTR: the loop goes on.
ReadInterrupted ==
    /\ Reading
    /\ Wanted > 0
    /\ pc' = "head"
    /\ UNCHANGED <<n, hdr, data, size, opSize, base, state, cur, sent>>

\* EAGAIN: Read returns and will be called again on the same object.
ReadAgain ==
    /\ Reading
    /\ Wanted > 0
    /\ state' = "Again"
    /\ pc' = "head"
    /\ UNCHANGED <<n, hdr, data, size, opSize, base, cur, sent>>

\* The peer has closed after the bytes taken so far, or the socket is broken:
\* the caller clears the pair.  The read(2) of an empty body asks for 0 bytes
\* and returns 0, which the code takes for the end of the stream too.
ReadOff ==
    /\ Reading
    /\ state' \in (IF Wanted = 0 THEN {"SockOff"} ELSE {"SockOff", "Errno"})
    /\ pc' = "closed"
    /\ UNCHANGED <<n, hdr, data, size, opSize, base, cur, sent>>

\* Read returns IO_Done; the I/O processor takes the packet, sets its type to
\* OP_Write and resets its base and size.
ReadDone ==
    /\ pc = "head"
    /\ ~Incomplete
    /\ state' = "Done"
    /\ opSize' = 0
    /\ base' = [buf |-> "data", off |-> 0]
    /\ pc' = "write"
    /\ UNCHANGED <<n, hdr, data, size, cur, sent>>

-----------------------------------------------------------------------------
\* op_base_ after a write of w bytes.  The mutant sends the same bytes again.
WrittenNot(w) == base
Written(w)    == Advanced(w)

\* write(2) takes w bytes.
WriteSome(w) ==
    /\ pc = "write"
    /\ w \in 1..(size - opSize)
    /\ sent' = sent \o [i \in 1..w |-> Target[base.off + i - 1]]
    /\ opSize' = opSize + w
    /\ base' = Written(w)
    /\ UNCHANGED <<n, hdr, data, size, pc, state, cur>>

\* EAGAIN: Write returns and is called again on the same object (EINTR, the
\* other reason to come back to the same place, changes nothing at all).
WriteAgain ==
    /\ pc = "write"
    /\ opSize < size
    /\ state' = "Again"
    /\ UNCHANGED <<n, hdr, data, size, opSize, base, pc, cur, sent>>

WriteErr ==
    /\ pc = "write"
    /\ opSize < size
    /\ state' = "Errno"
    /\ pc' = "closed"
    /\ UNCHANGED <<n, hdr, data, size, opSize, base, cur, sent>>

\* Write returns IO_Done, FdHandle::DoWrite deletes the object; the next
\* DoRead works on a new one.
WriteDone ==
    /\ pc = "write"
    /\ opSize >= size
    /\ n' = n + 1
    /\ hdr' = FreshHeader
    /\ data' = FreshData
    /\ size' = 0
    /\ opSize' = 0
    /\ base' = FreshBase
    /\ state' = "Done"
    /\ pc' = "head"
    /\ UNCHANGED <<cur, sent>>

Next ==
    \/ \E r \in 1..HEADER_SIZE : ReadHeaderPart(r)
    \/ ReadHeader
    \/ ReadHeaderErr
    \/ \E r \in 1..MAX_PACKET_SIZE : ReadBody(r)
    \/ ReadInterrupted
    \/ ReadAgain
    \/ ReadOff
    \/ ReadDone
    \/ \E w \in 1..HEADER_SIZE+MAX_PACKET_SIZE : WriteSome(w)
    \/ WriteAgain
    \/ WriteErr
    \/ WriteDone

Spec == Init /\ [][Next]_vars

-----------------------------------------------------------------------------
\* Every read(2) and write(2) stays inside the buffer op_base_ points into:
\* the bytes it may transfer all have a place there.  (Packet::Read moves
\* op_base_ from header_ to data_ in the middle of a frame, and data_ has just
\* been reallocated then.)
InBounds ==
    /\ Reading => \A i \in 0..Wanted-1 : base.off + i \in DOMAIN Target
    /\ pc = "write" => \A i \in 0..size-opSize-1 : base.off + i \in DOMAIN Target

\* A packet handed over for writing holds one whole frame of the peer's
\* stream, its header included, and the socket is positioned right behind that
\* frame: short reads neither cut a frame nor run into the next one.
Boundary ==
    pc = "write" =>
        /\ n <= NumPackets
        /\ DOMAIN data = 0 .. FrameLen - 1
        /\ \A i \in DOMAIN data : data[i] = Place + i + 1
        /\ cur = Start[n+1]

\* What leaves the proxy is what came in, byte by byte: however the reads and
\* writes are cut up, nothing is lost, repeated or reordered.
Verbatim == \A j \in 1..Len(sent) : sent[j] = j

-----------------------------------------------------------------------------
\* An inductive invariant.  The position in the source stream, the one in the
\* destination stream and op_size_ never drift apart ...
Aligned ==
    pc # "closed" =>
        /\ cur = Place + (IF pc = "write" THEN size ELSE opSize)
        /\ Len(sent) = Place + (IF pc = "write" THEN opSize ELSE 0)

\* ... op_base_ is op_size_ bytes into header_ while the header is read ...
HeaderPhase ==
    pc \in {"head", "body"} /\ opSize < HEADER_SIZE =>
        /\ pc = "head"
        /\ size = 0
        /\ base = [buf |-> "hdr", off |-> opSize]
        /\ \A i \in 0..opSize-1 : hdr[i] = Place + i + 1

\* ... and op_size_ bytes into data_, with all of the frame before it in place,
\* while the body is read ...
BodyPhase ==
    pc \in {"head", "body"} /\ opSize >= HEADER_SIZE =>
        /\ n <= NumPackets
        /\ size = FrameLen
        /\ opSize <= size
        /\ base = [buf |-> "data", off |-> opSize]
        /\ \A i \in 0..opSize-1 : data[i] = Place + i + 1

\* ... and while the frame is written.
WritePhase ==
    pc = "write" =>
        /\ n <= NumPackets
        /\ size = FrameLen
        /\ opSize <= size
        /\ base = [buf |-> "data", off |-> opSize]
        /\ \A i \in 0..size-1 : data[i] = Place + i + 1

IInv ==
    TypeOK /\ Aligned /\ HeaderPhase /\ BodyPhase /\ WritePhase /\ Verbatim

-----------------------------------------------------------------------------
\* fdhandle.h:50 says that DoRead returns IO_Done once it has read a complete
\* packet: a call never ends as if the stream were over when the object holds
\* a complete frame.
CompleteIsDone ==
    state = "SockOff" => ~(opSize >= HEADER_SIZE /\ opSize = size)
=============================================================================
