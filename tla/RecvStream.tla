----------------------------- MODULE RecvStream -----------------------------
(***************************************************************************)
(* The incoming half of a logical stream (stream.go, type RecvStream).     *)
(* The readers of all paths deliver stream frames to it, in any order and, *)
(* because packets are retransmitted, more than once (HandleFrame); the    *)
(* application reads (Read) and may move the read offset (SetReadOffset).  *)
(*                                                                         *)
(* Byte k of the stream is represented by its position k, so that data     *)
(* delivered from the wrong place shows.  The peer cuts its bytes into     *)
(* frames once: a retransmission repeats a frame.  It never sets Fin       *)
(* (SendStream.finSent is never assigned), so finReceived stays false and  *)
(* is left out.                                                            *)
(***************************************************************************)
EXTENDS Naturals, Sequences, FiniteSets

CONSTANTS
    Length,        \* bytes the peer writes
    Readers,       \* goroutines of the application that call Read
    ReadSizes      \* lengths of the slices passed to Read

ASSUME RecvConstants == Length \in Nat /\ ReadSizes \subseteq Nat \ {0}

VARIABLES
    cuts,           \* where the peer ends its frames
    expectedOffset, \* s.expectedOffset
    buffered,       \* s.buffered; a missing key has no data
    readBuf,        \* s.readBuf
    notify,         \* s.notifyCh holds its one token
    readActive,     \* s.readActive
    reader,         \* where each goroutine stands in Read
    returned,       \* history: what the last Read returned
    handled         \* history: frames handled since the last SetReadOffset

recvVars == <<expectedOffset, buffered, readBuf>>
vars == <<cuts, recvVars, notify, readActive, reader, returned, handled>>

Offsets == 0 .. Length

Frame == {f \in [from : Offsets, to : Offsets] : f.from < f.to}
Data(f) == [i \in 1 .. f.to - f.from |-> f.from + i]

\* The frames the peer sends.
Frames ==
    {f \in Frame : /\ f.from \in cuts /\ f.to \in cuts
                   /\ \A c \in cuts : ~(f.from < c /\ c < f.to)}

Init ==
    /\ cuts \in {{0, Length} \cup c : c \in SUBSET Offsets}
    /\ expectedOffset = 0
    /\ buffered = [o \in Offsets |-> <<>>]
    /\ readBuf = <<>>
    /\ notify = FALSE
    /\ readActive = FALSE
    /\ reader = [t \in Readers |-> "idle"]
    /\ returned = <<>>
    /\ handled = {}

\* Mutant: a frame that was already delivered is delivered again.
ContiguousOrOld(f) == f.from <= expectedOffset

Contiguous(f) == f.from = expectedOffset

\* Mutant: only a frame that has to wait wakes up the reader.
NotifyIfBuffered(f) == notify \/ f.from > expectedOffset

\* The token is put in the channel unless it is there already.
Notify(f) == TRUE

\* Mutant: out-of-order data is stored under the offset that is missing.
StoredAtExpected(f) == [buffered EXCEPT ![expectedOffset] = Data(f)]

Stored(f) == [buffered EXCEPT ![f.from] = Data(f)]

\* handleFrame.  A contiguous frame is followed by the chunk buffered behind it.
\* The loop of lines 46-54 then deletes the entry at the offset it has just reached,
\* so it never finds a second chunk.
HandleFrame(f) ==
    /\ \/ /\ Contiguous(f)
          /\ LET next == f.from + Len(Data(f))
                 after == next + Len(buffered[next])
             IN  /\ readBuf' = readBuf \o Data(f) \o buffered[next]
                 /\ expectedOffset' = after
                 /\ buffered' = IF buffered[next] = <<>> THEN buffered
                                ELSE [buffered EXCEPT ![after] = <<>>]
       \/ /\ f.from > expectedOffset
          /\ buffered' = Stored(f)
          /\ UNCHANGED <<readBuf, expectedOffset>>
       \/ /\ ~Contiguous(f) /\ f.from < expectedOffset
          /\ UNCHANGED recvVars
    /\ notify' = Notify(f)
    /\ handled' = handled \cup {f}
    /\ UNCHANGED <<cuts, readActive, reader, returned>>

\* Read, first lock hold: a second concurrent Read is refused.
ReadEnter(t) ==
    /\ reader[t] = "idle" /\ ~readActive
    /\ readActive' = TRUE
    /\ reader' = [reader EXCEPT ![t] = "poll"]
    /\ UNCHANGED <<cuts, recvVars, notify, returned, handled>>

\* One turn of Read's loop: take what there is, or go and wait for a token.
ReadPoll(t) ==
    /\ reader[t] = "poll"
    /\ \/ /\ readBuf # <<>>
          /\ \E size \in ReadSizes :
               LET n == IF size < Len(readBuf) THEN size ELSE Len(readBuf)
               IN  /\ returned' = SubSeq(readBuf, 1, n)
                   /\ readBuf' = SubSeq(readBuf, n + 1, Len(readBuf))
          /\ reader' = [reader EXCEPT ![t] = "leave"]
       \/ /\ readBuf = <<>>
          /\ reader' = [reader EXCEPT ![t] = "wait"]
          /\ UNCHANGED <<returned, readBuf>>
    /\ UNCHANGED <<cuts, expectedOffset, buffered, notify, readActive, handled>>

ReadWake(t) ==
    /\ reader[t] = "wait" /\ notify
    /\ notify' = FALSE
    /\ reader' = [reader EXCEPT ![t] = "poll"]
    /\ UNCHANGED <<cuts, recvVars, readActive, returned, handled>>

\* The deferred function, in a lock hold of its own.
ReadLeave(t) ==
    /\ reader[t] = "leave"
    /\ readActive' = FALSE
    /\ reader' = [reader EXCEPT ![t] = "idle"]
    /\ UNCHANGED <<cuts, recvVars, notify, returned, handled>>

\* SetReadOffset drops everything; it does not touch the notification.
SetReadOffset(offset) ==
    /\ readBuf' = <<>>
    /\ expectedOffset' = offset
    /\ buffered' = [o \in Offsets |-> <<>>]
    /\ handled' = {}
    /\ UNCHANGED <<cuts, notify, readActive, reader, returned>>

GetReadOffset == expectedOffset - Len(readBuf)

Reading(t) == ReadPoll(t) \/ ReadWake(t) \/ ReadLeave(t)

Next ==
    \/ \E f \in Frames : HandleFrame(f)
    \/ \E t \in Readers : ReadEnter(t) \/ Reading(t)
    \/ \E offset \in Offsets : SetReadOffset(offset)

Spec == Init /\ [][Next]_vars

\* The scheduler runs a goroutine that can proceed.
FairSpec == Spec /\ \A t \in Readers : WF_vars(Reading(t))

-----------------------------------------------------------------------------
(***************************************************************************)
(* Properties                                                              *)
(***************************************************************************)

Chunks == {Data(f) : f \in Frame} \cup {<<>>}

\* Every variable has the shape the source gives it, and whatever is buffered at an
\* offset is the data of a frame that starts there.
TypeOK ==
    /\ cuts \subseteq Offsets
    /\ expectedOffset \in Offsets
    /\ buffered \in [Offsets -> Chunks]
    /\ \A o \in Offsets : \A i \in 1 .. Len(buffered[o]) : buffered[o][i] = o + i
    /\ readBuf \in Seq(1 .. Length) /\ returned \in Seq(1 .. Length)
    /\ notify \in BOOLEAN /\ readActive \in BOOLEAN
    /\ reader \in [Readers -> {"idle", "poll", "wait", "leave"}]
    /\ handled \subseteq Frame

\* No lost wakeup: a reader that has decided to wait while data is readable finds
\* the token in the channel, although the data may have arrived between its
\* unlock and its receive; and only one goroutine waits at a time, so nobody else
\* takes the token.
NoMissedWakeup ==
    \A t \in Readers : reader[t] = "wait" =>
        /\ readBuf # <<>> => notify
        /\ readActive /\ \A u \in Readers : reader[u] # "idle" => u = t

\* Reading a RecvStream is reading a byte stream: whatever the order and the number
\* of deliveries, Read returns the next bytes in order, and GetReadOffset is the
\* position it has reached.
Stream == INSTANCE ByteStream WITH position <- GetReadOffset, limit <- expectedOffset
ReadsByteStream == Stream!Spec

\* A blocked Read returns when there is something to read.
ReadReturns ==
    \A t \in Readers : reader[t] = "wait" /\ readBuf # <<>> ~> reader[t] = "leave" \/ readBuf = <<>>

\* Reassembly: what has been handled (and acknowledged, so that the peer does not send
\* it again) is readable or still buffered.
\* Not kept: README, section 7.
HandledIsKept ==
    \A f \in handled :
        f.from < expectedOffset \/ buffered[f.from] = Data(f)

=============================================================================
