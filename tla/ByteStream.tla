----------------------------- MODULE ByteStream -----------------------------
(***************************************************************************)
(* What the reading side of a logical stream promises ("provides a Read()  *)
(* that blocks like quic.Stream", stream.go; "direct in-order reassembly", *)
(* internal/transport/interface.go): Read returns the bytes that follow    *)
(* the read position, in order, each once, and never beyond what has       *)
(* arrived.  Byte k is represented by its position k in the stream.        *)
(***************************************************************************)
EXTENDS Naturals, Sequences

CONSTANT Length    \* bytes the peer writes

VARIABLES
    position,      \* offset of the next byte Read returns
    limit,         \* offset up to which the bytes have arrived without a gap
    returned       \* what the last Read returned

vars == <<position, limit, returned>>

Init == position = 0 /\ limit = 0 /\ returned = <<>>

Bytes(from, to) == [i \in 1 .. to - from |-> from + i]

\* The next bytes without a gap have arrived.
Arrive ==
    /\ limit' \in limit + 1 .. Length
    /\ UNCHANGED <<position, returned>>

Read ==
    \E to \in position + 1 .. limit :
        /\ returned' = Bytes(position, to)
        /\ position' = to
        /\ UNCHANGED limit

\* SetReadOffset moves the reader and forgets what had arrived.
Seek ==
    \E offset \in 0 .. Length :
        /\ position' = offset /\ limit' = offset
        /\ UNCHANGED returned

Next == Arrive \/ Read \/ Seek

Spec == Init /\ [][Next]_vars

=============================================================================
