----------------------------- MODULE SendStream -----------------------------
(***************************************************************************)
(* The outgoing half of a logical stream (stream.go, type SendStream) and  *)
(* the arithmetic with which the packer turns its bytes into a packet.     *)
(*                                                                         *)
(* Bytes are numbered by their stream offset; byte k lies between offsets  *)
(* k-1 and k.  The Go code keeps the unsent data as a list of chunks, one  *)
(* per Write.  Only the chunk boundaries matter for framing, so a buffer   *)
(* is                                                                      *)
(*    base         offset of the first unsent byte (baseOffset)            *)
(*    writeOffset  offset just after the last byte accepted by Write       *)
(*    ends         the end offset of every chunk still (partly) unsent     *)
(* and the sendBuffer slice is empty exactly when ends = {}.  finSent is   *)
(* never assigned in the source, so no frame ever carries Fin.             *)
(***************************************************************************)
EXTENDS Integers, FiniteSets

\* Encoded sizes in bytes (packet.go, frame.go, packer.go): the packet header
\* with its frame count, a StreamFrame without data, and the packer's own,
\* smaller, estimate of a StreamFrame without data.
PacketOverhead == 17
StreamOverhead == 26
StreamEstimate == 21

SendBuffer == [base : Nat, writeOffset : Nat, ends : SUBSET Nat]

NewSendStream == [base |-> 0, writeOffset |-> 0, ends |-> {}]

HasBuffered(buf) == buf.ends # {}

\* SendStream.Write: one more chunk of n bytes.
BufferWrite(buf, n) ==
    [buf EXCEPT !.writeOffset = @ + n, !.ends = @ \cup {buf.writeOffset + n}]

\* How far PopFrames(maxBytes) gets: maxBytes from base, or the end of the data.
PopLimit(buf, maxBytes) ==
    IF buf.base + maxBytes < buf.writeOffset THEN buf.base + maxBytes
                                             ELSE buf.writeOffset

\* The frames PopFrames returns for stream sid: the chunks up to the limit, the
\* one that crosses it being split there.
PopFrames(buf, sid, maxBytes) ==
    LET limit == PopLimit(buf, maxBytes)
        cuts  == {e \in buf.ends : e <= limit} \cup {limit}
    IN  {f \in [sid : {sid}, from : cuts \cup {buf.base}, to : cuts] :
            /\ f.from < f.to
            /\ \A c \in cuts : ~(f.from < c /\ c < f.to)}

\* Mutant: the last byte handed out stays in the buffer.
AfterPopOneShort(buf, maxBytes) ==
    LET limit == PopLimit(buf, maxBytes) - 1
    IN  [buf EXCEPT !.base = limit, !.ends = {e \in @ : e > limit}]

\* What PopFrames leaves in the SendStream.
AfterPop(buf, maxBytes) ==
    LET limit == PopLimit(buf, maxBytes)
    IN  [buf EXCEPT !.base = limit, !.ends = {e \in @ : e > limit}]

\* The bytes a set of stream frames carries.
BytesOf(frames) == UNION {(f.from + 1) .. f.to : f \in frames}

\* SubmitFromSendStream's running size estimate once f has been added.
RunningEstimate(frames, f) ==
    LET upTo == {g \in frames : g.to <= f.to}
    IN  StreamEstimate * Cardinality(upTo) + Cardinality(BytesOf(upTo))

\* The frames that loop puts in the packet: it stops at the first overflow.
PackedFrames(frames, max) == {f \in frames : RunningEstimate(frames, f) <= max}

\* The loop gives up instead of stopping when the overflowing frame could not
\* even be sent alone.
FrameTooLarge(frames, max) ==
    \E f \in frames :
        /\ StreamEstimate + f.to - f.from > max
        /\ \A g \in frames : g.to < f.to => RunningEstimate(frames, g) <= max

\* Length of the serialised packet that carries these stream frames.
StreamPacketSize(frames) ==
    PacketOverhead + StreamOverhead * Cardinality(frames) + Cardinality(BytesOf(frames))

=============================================================================
