--------------------------- MODULE MCMultiplexer ---------------------------
(* Multiplexer instantiated for TLC: packet 1 carries data of a stream, the others *)
(* control frames.                                                                 *)
EXTENDS Multiplexer, TLC

AllOnPath1 == [r \in Readers |-> 1]
FirstCarriesData == [n \in 1 .. MaxSeq |-> IF n = 1 /\ StreamIDs # {} THEN 1 ELSE NoStream]

=============================================================================
