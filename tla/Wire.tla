-------------------------------- MODULE Wire --------------------------------
(***************************************************************************)
(* Packets between two paths: from the packer through Path.WriteStream,    *)
(* the bytes of a QUIC stream, and the reader goroutine (reader.go) to     *)
(* Multiplexer.PushPacket.                                                 *)
(*                                                                         *)
(* The packer puts the length of the packet in front of it, WriteStream    *)
(* puts the length of the whole in front of that.  The reader gets the     *)
(* bytes in pieces of any size, cuts packets at the outer length and has   *)
(* no other means to find the next packet.  When the stream breaks, both   *)
(* paths go on with a new one (path.go, tryRecoverTransportStream): the    *)
(* bytes that were not read are lost, and so is the reader's buffer.       *)
(***************************************************************************)
EXTENDS Codec

CONSTANTS
    Packets,         \* what the packer may send
    MaxPacketSize,   \* the packer's limit, which is also the reader's (1 MiB both)
    ReadSizes,       \* how many bytes one Read may return
    MaxWritten,      \* bound: packets written to one stream
    MaxStreams       \* bound: transport streams, the first one included

ASSUME WireConstants ==
    /\ Packets \subseteq Packet /\ \A p \in Packets : Len(p.frames) <= MaxFrames
    /\ MaxPacketSize \in Nat /\ MaxPacketSize + 4 \in Uint32    \* with a length in front
    /\ MaxWritten \in Nat /\ MaxStreams \in Nat \ {0}
    /\ ReadSizes \subseteq 1 .. 2048

VARIABLES
    written,     \* history: packets written to the current stream
    pushed,      \* history: what PushPacket made of the packets read from it
    unread,      \* bytes of the stream not read yet
    readBuffer,  \* the reader's buffer
    reader,      \* "running", or "stopped" when the goroutine has returned
    streams      \* transport streams so far

vars == <<written, pushed, unread, readBuffer, reader, streams>>

Init ==
    /\ written = <<>> /\ pushed = <<>>
    /\ unread = <<>> /\ readBuffer = <<>>
    /\ reader = "running"
    /\ streams = 1

WithLength(bytes) == BigEndian(Len(bytes), 4) \o bytes

\* What a packet becomes in the stream.
OnTheWire(p) == WithLength(WithLength(SerializePacket(p)))

Encoded == [p \in Packets |-> OnTheWire(p)]

\* Mutant: packets over the limit are not refused.
MayBeSent(p) == Len(SerializePacket(p)) >= 8

\* The packer's tests of the packet's length.
SizeAllowed(p) == Len(SerializePacket(p)) >= 8 /\ Len(SerializePacket(p)) <= MaxPacketSize

Sendable == {p \in Packets : SizeAllowed(p)}

WritePacket(p) ==
    /\ Len(written) < MaxWritten
    /\ p \in Sendable
    /\ written' = Append(written, p)
    /\ unread' = unread \o Encoded[p]
    /\ UNCHANGED <<pushed, readBuffer, reader, streams>>

\* The loop over the buffer, from each position: the packets it pushes, what stays in the
\* buffer, and whether it met a length over the limit, on which the goroutine returns.
CutFrom(buf) ==
    LET cut[i \in 1 .. Len(buf) + 1] ==
            LET n    == Number(SubSeq(buf, i, i + 3))
                left == Len(buf) + 1 - i
                rest == SubSeq(buf, i, Len(buf))
            IN  CASE left < 4 -> [packets |-> <<>>, rest |-> rest, stop |-> FALSE]
                  [] left >= 4 /\ n = 0 -> cut[i + 4]
                  [] left >= 4 /\ n > MaxPacketSize -> [packets |-> <<>>, rest |-> rest, stop |-> TRUE]
                  [] left >= 4 /\ n \in 1 .. MaxPacketSize /\ left < 4 + n ->
                        [packets |-> <<>>, rest |-> rest, stop |-> FALSE]
                  [] OTHER -> [cut[i + 4 + n] EXCEPT !.packets = <<SubSeq(buf, i + 4, i + 3 + n)>> \o @]
    IN  cut

CutPackets(buf) == CutFrom(buf)[1]

\* One Read, and the loop.
ReadAndPush(k) ==
    LET size == IF k < Len(unread) THEN k ELSE Len(unread)
        loop == CutPackets(readBuffer \o SubSeq(unread, 1, size))
    IN  /\ reader = "running" /\ unread # <<>>
        /\ unread' = SubSeq(unread, size + 1, Len(unread))
        /\ pushed' = pushed \o [i \in DOMAIN loop.packets |-> DeserializePacket(loop.packets[i])]
        /\ readBuffer' = loop.rest
        /\ reader' = IF loop.stop THEN "stopped" ELSE "running"
        /\ UNCHANGED <<written, streams>>

\* Mutant: the new reader goes on with the old one's buffer.
BufferKept ==
    /\ reader = "running" /\ streams < MaxStreams
    /\ streams' = streams + 1
    /\ written' = <<>> /\ pushed' = <<>> /\ unread' = <<>>
    /\ UNCHANGED <<readBuffer, reader>>

\* The stream breaks, both readers fail and both paths recover: a new stream and a new
\* reader goroutine.  A reader that has returned before notices nothing.
Recover ==
    /\ reader = "running" /\ streams < MaxStreams
    /\ streams' = streams + 1
    /\ written' = <<>> /\ pushed' = <<>>
    /\ unread' = <<>> /\ readBuffer' = <<>>
    /\ UNCHANGED reader

Read == \E k \in ReadSizes : ReadAndPush(k)

Next == (\E p \in Packets : WritePacket(p)) \/ Read \/ Recover

Spec == Init /\ [][Next]_vars

(***************************************************************************)
(* Properties                                                              *)
(***************************************************************************)

\* The packets written but not pushed yet.
Waiting == SubSeq(written, Len(pushed) + 1, Len(written))

TypeOK ==
    /\ written \in Seq(Packets) /\ Len(pushed) <= Len(written)
    /\ unread \in Seq(Byte) /\ readBuffer \in Seq(Byte)
    /\ reader \in {"running", "stopped"} /\ streams \in 1 .. MaxStreams

\* Every packet comes out in its place with its number and its count of frames, and with
\* its frame when it has one (packet.go, reader.go).
PacketsIntact ==
    \A i \in DOMAIN pushed :
        /\ pushed[i].num = written[i].num
        /\ Len(pushed[i].frames) = Len(written[i].frames)
        /\ Len(written[i].frames) = 1 => pushed[i] = written[i]

\* However the bytes were cut into pieces, the running reader stands at the start of a
\* packet and keeps no packet back that it has read completely (reader.go:104-166).
InStep ==
    reader = "running" =>
        /\ readBuffer \o unread = FlattenSeq([i \in DOMAIN Waiting |-> Encoded[Waiting[i]]])
        /\ Waiting # <<>> => Len(readBuffer) < Len(Encoded[Waiting[1]])

\* The goroutine returns on a packet only when the two lengths in front of the packet push it
\* over the limit that it kept by itself (packer.go:162, reader.go:122).
StopsOnlyAtTheLimit ==
    reader = "stopped" => Len(SerializePacket(Waiting[1])) \in MaxPacketSize - 3 .. MaxPacketSize

\* packet.go:19: the frames of a packet come out one after another, as they went in.
\* Not kept: README, section 7.
EveryFramePushed == \A i \in DOMAIN pushed : pushed[i].frames = written[i].frames

=============================================================================
