-------------------------- MODULE MCStreamOpening --------------------------
(* StreamOpening instantiated for TLC: a client and a server, and the side of each *)
(* calling goroutine.                                                              *)
EXTENDS StreamOpening, TLC

CONSTANTS client, server, c1, s1

Ends == {client, server}
OtherEnd == [x \in Ends |-> IF x = client THEN server ELSE client]
AppSide == [c \in Callers |-> IF c = s1 THEN server ELSE client]
ClientOpens == [c \in Callers |-> IF c = s1 THEN {"accept"} ELSE {"open"}]

\* A bound: two streams while both sides stay, one once the session or its path closes.
OneStreamWhenLeaving ==
    \/ \A x \in Sides : Ready(x) /\ ~sessionClosed[x]
    \/ \A x \in Sides : nextStreamID[x] <= 2

=============================================================================
