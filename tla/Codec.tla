------------------------------- MODULE Codec -------------------------------
(***************************************************************************)
(* Packets and frames to bytes and back (internal/protocol/frame.go,       *)
(* packet.go).  A byte is a number, an address or a payload a sequence of  *)
(* bytes, and a frame a record whose "type" is the name of its Go type.    *)
(* Writing and parsing are separate code in the source and separate        *)
(* definitions here: nothing below assumes that one inverts the other.     *)
(*                                                                         *)
(* A parser gets what follows the type byte and returns the frame, or      *)
(* NoFrame where the Go function returns an error.  (A length field that   *)
(* exceeds what follows makes Go allocate first and fail then.)            *)
(***************************************************************************)
EXTENDS Naturals, Sequences, SequencesExt

Byte == 0 .. 255

\* Numbers of four bytes and of eight: nothing is left after two shifts of 16 bits, and after four.
Uint32 == {v \in Nat : (v \div 65536) \div 65536 = 0}

Uint64 == {v \in Nat : (((v \div 65536) \div 65536) \div 65536) \div 65536 = 0}

\* A slice has a length of eight bytes.
Slice(S) == {s \in Seq(S) : Len(s) \in Uint64}

AckRange == [smallest : Uint64, largest : Uint64]

Frame ==
    [type : {"Stream"}, sid : Uint64, offset : Uint64, fin : BOOLEAN, data : Slice(Byte)]
        \cup [type : {"Ack"}, largest : Uint64, delay : Uint64, ranges : Slice(AckRange)]
        \cup [type : {"Ping"}]
        \cup [type : {"AddPath"}, address : Slice(Byte)]
        \cup [type : {"AddPathResp"}, pathID : Uint64, address : Slice(Byte)]
        \cup [type : {"RelayData"}, pathID : Uint64, sid : Uint64, data : Slice(Byte)]
        \cup [type : {"OpenStream"}, sid : Uint64]
        \cup [type : {"OpenStreamResp"}, sid : Uint64, success : BOOLEAN]

Packet == [num : Uint64, frames : Slice(Frame)]

NoFrame == [type |-> "error"]

(***************************************************************************)
(* Numbers                                                                 *)
(***************************************************************************)

\* binary.BigEndian.PutUint32/PutUint64: the low w bytes of v.
BigEndian(v, w) ==
    LET shifted[k \in 0 .. w - 1] == IF k = 0 THEN v ELSE shifted[k - 1] \div 256
    IN  [i \in 1 .. w |-> shifted[w - i] % 256]

Number(bytes) ==
    LET upTo[k \in 0 .. Len(bytes)] == IF k = 0 THEN 0 ELSE 256 * upTo[k - 1] + bytes[k]
    IN  upTo[Len(bytes)]

\* writeVarInt: always eight bytes.
VarInt(v) == BigEndian(v, 8)

\* readVarInt at position i.
VarIntAt(r, i) == Number(SubSeq(r, i, i + 7))

Counted(bytes) == VarInt(Len(bytes)) \o bytes

Flag(b) == <<IF b THEN 1 ELSE 0>>

(***************************************************************************)
(* Serialize of each frame                                                 *)
(***************************************************************************)

TypeByte == [Stream |-> 1, Ack |-> 2, Ping |-> 5, AddPath |-> 6, AddPathResp |-> 7,
             RelayData |-> 8, OpenStream |-> 9, OpenStreamResp |-> 10]

StreamFields(f) == VarInt(f.sid) \o VarInt(f.offset) \o Flag(f.fin) \o Counted(f.data)

AckFields(f) ==
    VarInt(f.largest) \o VarInt(f.delay) \o VarInt(Len(f.ranges))
        \o FlattenSeq([i \in DOMAIN f.ranges |->
                          VarInt(f.ranges[i].smallest) \o VarInt(f.ranges[i].largest)])

AddPathFields(f) == Counted(f.address)

AddPathRespFields(f) == VarInt(f.pathID) \o Counted(f.address)

RelayDataFields(f) == VarInt(f.pathID) \o VarInt(f.sid) \o Counted(f.data)

OpenStreamFields(f) == VarInt(f.sid)

OpenStreamRespFields(f) == VarInt(f.sid) \o Flag(f.success)

Serialize(f) ==
    <<TypeByte[f.type]>> \o
    CASE f.type = "Stream"         -> StreamFields(f)
      [] f.type = "Ack"            -> AckFields(f)
      [] f.type = "Ping"           -> <<>>
      [] f.type = "AddPath"        -> AddPathFields(f)
      [] f.type = "AddPathResp"    -> AddPathRespFields(f)
      [] f.type = "RelayData"      -> RelayDataFields(f)
      [] f.type = "OpenStream"     -> OpenStreamFields(f)
      [] f.type = "OpenStreamResp" -> OpenStreamRespFields(f)

(***************************************************************************)
(* The parsers                                                             *)
(***************************************************************************)

\* A length field at position i is there, and so are the bytes it announces.
HasCounted(r, i) == Len(r) >= i + 7 /\ Len(r) >= i + 7 + VarIntAt(r, i)

\* Mutant: the last byte is left out.
CountedShort(r, i) == SubSeq(r, i + 8, i + 6 + VarIntAt(r, i))

CountedAt(r, i) == SubSeq(r, i + 8, i + 7 + VarIntAt(r, i))

parseStreamFrame(r) ==
    IF HasCounted(r, 18)
    THEN [type |-> "Stream", sid |-> VarIntAt(r, 1), offset |-> VarIntAt(r, 9),
          fin |-> r[17] = 1, data |-> CountedAt(r, 18)]
    ELSE NoFrame

parseAckFrame(r) ==
    IF Len(r) >= 24 /\ Len(r) >= 24 + 16 * VarIntAt(r, 17)
    THEN [type |-> "Ack", largest |-> VarIntAt(r, 1), delay |-> VarIntAt(r, 9),
          ranges |-> [i \in 1 .. VarIntAt(r, 17) |->
                        [smallest |-> VarIntAt(r, 16 * i + 9), largest |-> VarIntAt(r, 16 * i + 17)]]]
    ELSE NoFrame

parseAddPathFrame(r) ==
    IF HasCounted(r, 1) THEN [type |-> "AddPath", address |-> CountedAt(r, 1)] ELSE NoFrame

parseAddPathRespFrame(r) ==
    IF HasCounted(r, 9)
    THEN [type |-> "AddPathResp", pathID |-> VarIntAt(r, 1), address |-> CountedAt(r, 9)]
    ELSE NoFrame

parseRelayDataFrame(r) ==
    IF HasCounted(r, 17)
    THEN [type |-> "RelayData", pathID |-> VarIntAt(r, 1), sid |-> VarIntAt(r, 9),
          data |-> CountedAt(r, 17)]
    ELSE NoFrame

parseOpenStreamFrame(r) ==
    IF Len(r) >= 8 THEN [type |-> "OpenStream", sid |-> VarIntAt(r, 1)] ELSE NoFrame

parseOpenStreamRespFrame(r) ==
    IF Len(r) >= 9 THEN [type |-> "OpenStreamResp", sid |-> VarIntAt(r, 1), success |-> r[9] = 1]
                   ELSE NoFrame

\* An empty slice has no type byte.
ParseFrame(data) ==
    LET r == Tail(data)
    IN  CASE data = <<>>  -> NoFrame
          [] data # <<>> /\ data[1] = 1  -> parseStreamFrame(r)
          [] data # <<>> /\ data[1] = 2  -> parseAckFrame(r)
          [] data # <<>> /\ data[1] = 5  -> [type |-> "Ping"]
          [] data # <<>> /\ data[1] = 6  -> parseAddPathFrame(r)
          [] data # <<>> /\ data[1] = 7  -> parseAddPathRespFrame(r)
          [] data # <<>> /\ data[1] = 8  -> parseRelayDataFrame(r)
          [] data # <<>> /\ data[1] = 9  -> parseOpenStreamFrame(r)
          [] data # <<>> /\ data[1] = 10 -> parseOpenStreamRespFrame(r)
          [] OTHER -> NoFrame

(***************************************************************************)
(* Packets: a number and frames.  The packer leaves Header.Type 0.         *)
(***************************************************************************)

SerializePacket(p) ==
    <<0>> \o VarInt(p.num) \o VarInt(Len(p.frames))
        \o FlattenSeq([i \in DOMAIN p.frames |-> Serialize(p.frames[i])])

\* The most frames that a packet is read with.
MaxFrames == 10000

NoPacket == [num |-> 0, frames |-> <<NoFrame>>]

\* A packet that starts with its own length loses those four bytes.
WithoutPrefix(data) ==
    IF Len(data) >= 4 /\ Number(SubSeq(data, 1, 4)) = Len(data) - 4
    THEN SubSeq(data, 5, Len(data))
    ELSE data

\* Every round of the loop reads the type byte, unreads it and parses a copy of what is
\* left, so that the reader has not moved and nothing is skipped: all rounds parse the
\* same bytes.
DeserializePacket(bytes) ==
    LET data  == WithoutPrefix(bytes)
        count == VarIntAt(data, 10)
        frame == ParseFrame(SubSeq(data, 18, Len(data)))
    IN  IF Len(data) < 17 \/ count > MaxFrames \/ (count > 0 /\ frame = NoFrame)
        THEN NoPacket
        ELSE [num |-> VarIntAt(data, 2), frames |-> [i \in 1 .. count |-> frame]]

=============================================================================
