------------------------------- MODULE MCWire -------------------------------
(* Wire instantiated for TLC: one packet of each kind of frame, one with two    *)
(* frames, and packets of exactly, just below and just above the limits.        *)
EXTENDS Wire, TLC

Data(n) == [i \in 1 .. n |-> (7 * i) % 256]
StreamData(off, n) ==
    [type |-> "Stream", sid |-> 258, offset |-> off, fin |-> FALSE, data |-> Data(n)]
Ack(ranges) == [type |-> "Ack", largest |-> 70000, delay |-> 0, ranges |-> ranges]

OneFrame == {
    StreamData(300, 3),
    StreamData(0, 13), \* 56 bytes: 60 with the packer's length, the most that is read
    StreamData(0, 17), \* 60 bytes: the most that the packer sends
    StreamData(0, 18), \* 61 bytes: refused
    Ack(<<[smallest |-> 1, largest |-> 258]>>),
    Ack(<<>>),
    [type |-> "Ping"],
    [type |-> "AddPath", address |-> Data(5)],
    [type |-> "AddPathResp", pathID |-> 2, address |-> Data(5)],
    [type |-> "RelayData", pathID |-> 2, sid |-> 1, data |-> Data(4)],
    [type |-> "OpenStream", sid |-> 1],
    [type |-> "OpenStreamResp", sid |-> 1, success |-> TRUE] }

AllKinds ==
    {[num |-> 515, frames |-> <<f>>] : f \in OneFrame}
        \cup {[num |-> 1, frames |-> <<[type |-> "OpenStream", sid |-> 1], [type |-> "Ping"]>>]}

=============================================================================
