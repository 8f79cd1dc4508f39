---------------------------- MODULE Multiplexer ----------------------------
(***************************************************************************)
(* The receiving side of one session (internal/transport/multiplexer.go).  *)
(* The reader goroutine of each path pushes the packets it reads; the      *)
(* multiplexer records their numbers and hands their frames out.  The ack  *)
(* worker turns the recorded numbers into ranges, submits them to the      *)
(* packer and forgets what it submitted; a ticker asks it to do so for     *)
(* every path, a reader that finds many numbers recorded asks at once.     *)
(*                                                                         *)
(* Goroutines: the readers, the ack worker, the ticker and the session     *)
(* that closes the multiplexer.  One action is one lock hold, one channel  *)
(* operation or one read of the closed flag.  The packer and the paths are *)
(* seen through GetRegisteredPath and SubmitFrame, the stream manager      *)
(* through its lookups.                                                    *)
(***************************************************************************)
EXTENDS Integers, Sequences, FiniteSets

CONSTANTS
    Paths,         \* paths of the session
    Readers,       \* goroutines that read them (more than one after a recovery)
    PathOf,        \* the path each of them reads
    MaxSeq,        \* bound: packet numbers the peer uses on a path
    Sent,          \* those it sends packets with (Packer refuses some after it numbered them)
    Carries,       \* the stream whose data the packet of each number carries
    StreamIDs,     \* logical streams of the session
    Threshold,     \* ackThreshold
    QueueSize,     \* capacity of ackQueue
    NoStream, NoPath

ASSUME MultiplexerConstants ==
    /\ MaxSeq \in Nat /\ Threshold \in Nat \ {0} /\ QueueSize \in Nat \ {0}
    /\ PathOf \in [Readers -> Paths] /\ Sent \subseteq 1 .. MaxSeq
    /\ NoPath \notin Paths /\ NoStream \notin StreamIDs
    /\ Carries \in [1 .. MaxSeq -> StreamIDs \cup {NoStream}]

VARIABLES
    received,      \* m.received; a missing key is an empty set
    ackQueue,      \* m.ackQueue
    phase,         \* how far Close has got: m.closed, stopCh, the maps released
    reader,        \* the reader goroutines
    worker,        \* the ack worker
    ticker,        \* the paths the periodic sender has still to ask for
    registered,    \* paths registered with the packer
    streams,       \* streams the stream manager knows
    works,         \* paths that are ready and whose transport stream takes bytes
    delivered,     \* history: packets whose data reached its stream
    acked,         \* history: packets an ack handed to the packer covers
    recorded,      \* history: packets recorded as received
    crashed        \* history: the ack worker panicked, and the process with it

externalVars == <<registered, streams, works>>
history == <<delivered, acked, recorded>>
vars == <<received, ackQueue, phase, reader, worker, ticker, externalVars, history, crashed>>

Seqs == 1 .. MaxSeq

Resting == [pc |-> "idle", seq |-> 0]
WorkerIdle == [pc |-> "idle", pid |-> NoPath, ranges |-> {}, draining |-> FALSE]

Init ==
    /\ received = [p \in Paths |-> {}]
    /\ ackQueue = <<>>
    /\ phase = "open"
    /\ reader = [r \in Readers |-> Resting]
    /\ worker = WorkerIdle
    /\ ticker = [pc |-> "idle", paths |-> {}]
    /\ registered = Paths
    /\ streams = {}
    /\ works = Paths
    /\ delivered = {} /\ acked = {} /\ recorded = {}
    /\ crashed = FALSE

IsClosed == phase # "open"
Stopped == phase \in {"stopping", "released"}   \* stopCh is closed
Released == phase = "released"                  \* the maps are nil, ackQueue is closed

(***************************************************************************)
(* The readers: PushPacket                                                 *)
(***************************************************************************)

\* A packet arrives, the first time or again; a closed multiplexer refuses it.
PushPacket(r, n) ==
    /\ ~crashed
    /\ reader[r].pc = "idle" /\ ~IsClosed
    /\ reader' = [reader EXCEPT ![r] = [pc |-> "record", seq |-> n]]
    /\ UNCHANGED <<received, ackQueue, phase, worker, ticker, externalVars, history, crashed>>

\* recordReceivedPacket looks at the closed flag again; it may still have read it
\* before Close wrote it when it takes the lock, but not miss the released map.
MayRecord == ~Released

RecordReceived(r) ==
    LET p == PathOf[r]
        n == reader[r].seq
    IN  /\ ~crashed
        /\ reader[r].pc = "record"
        /\ \/ /\ MayRecord
              /\ received' = [received EXCEPT ![p] = @ \cup {n}]
              /\ recorded' = recorded \cup {<<p, n>>}
              /\ reader' = [reader EXCEPT ![r].pc =
                     IF Cardinality(received'[p]) >= Threshold THEN "urgent" ELSE "handler"]
           \/ /\ IsClosed
              /\ reader' = [reader EXCEPT ![r].pc = "handler"]
              /\ UNCHANGED <<received, recorded>>
        /\ UNCHANGED <<ackQueue, phase, worker, ticker, externalVars, delivered, acked, crashed>>

\* Mutant: the queue is not bounded.
EnqueuedAlways(p) == Append(ackQueue, p)

\* A select with a default: a full queue is skipped.
Enqueued(p) == IF Len(ackQueue) < QueueSize THEN Append(ackQueue, p) ELSE ackQueue

\* The urgent request.  Sending on the closed channel panics; the reader recovers,
\* ends, and leaves the rest of the packet undone.
RequestUrgent(r) ==
    /\ ~crashed
    /\ reader[r].pc = "urgent"
    /\ \/ /\ ~Released
          /\ ackQueue' = Enqueued(PathOf[r])
          /\ reader' = [reader EXCEPT ![r].pc = "handler"]
       \/ /\ Released
          /\ reader' = [reader EXCEPT ![r].pc = "dead"]
          /\ UNCHANGED ackQueue
    /\ UNCHANGED <<received, phase, worker, ticker, externalVars, history, crashed>>

\* processBatchStreamFrames: data goes to the stream's handler ...
FindHandler(r) ==
    LET s == Carries[reader[r].seq]
    IN  /\ ~crashed
        /\ reader[r].pc = "handler"
        /\ reader' = [reader EXCEPT ![r] = IF s \in streams \/ s = NoStream THEN Resting
                                           ELSE [@ EXCEPT !.pc = "stream"]]
        /\ delivered' = IF s \in streams THEN delivered \cup {<<PathOf[r], reader[r].seq>>}
                        ELSE delivered
        /\ UNCHANGED <<received, ackQueue, phase, worker, ticker, externalVars, acked,
                       recorded, crashed>>

\* ... or, if the stream has appeared meanwhile, to a reception buffer nobody reads
\* (PopFramesForStream has no caller); else it is dropped.
FindStream(r) ==
    /\ ~crashed
    /\ reader[r].pc = "stream"
    /\ reader' = [reader EXCEPT ![r] = Resting]
    /\ UNCHANGED <<received, ackQueue, phase, worker, ticker, externalVars, history, crashed>>

(***************************************************************************)
(* The ack worker                                                          *)
(***************************************************************************)

\* Mutants: the range under construction is not closed at the end; everything up to
\* the largest number is acknowledged.
RangesButLast(received_p) ==
    {i \in [smallest : received_p, largest : received_p] :
        /\ i.smallest .. i.largest \subseteq received_p
        /\ i.smallest - 1 \notin received_p /\ i.largest + 1 \notin received_p
        /\ \E n \in received_p : n > i.largest}
Cumulative(received_p) ==
    {i \in [smallest : {1}, largest : received_p] : received_p \subseteq 1 .. i.largest}

\* GetAckRanges takes the numbers in ascending order and cuts where one is not the successor
\* of the one before it.  Looped[n] is what the loop has made of the numbers up to n.
Appended(acc) == acc.ranges \cup {[smallest |-> acc.start, largest |-> acc.prev]}

Extended(acc, n) ==
    IF n = acc.prev + 1 THEN [acc EXCEPT !.prev = n]
    ELSE [ranges |-> Appended(acc), start |-> n, prev |-> n]

Smallest(S) == CHOOSE n \in S : \A m \in S : n <= m

Looped(received_p) ==
    LET first == Smallest(received_p)
        loop[n \in 0 .. MaxSeq] ==
            IF n = 0 THEN [ranges |-> {}, start |-> first, prev |-> first]
            ELSE IF n \in received_p \ {first} THEN Extended(loop[n - 1], n)
            ELSE loop[n - 1]
    IN  loop

GetAckRanges(received_p) ==
    IF received_p = {} THEN {} ELSE Appended(Looped(received_p)[MaxSeq])

\* The packet numbers a set of ranges stands for.
Covered(ranges) == UNION {r.smallest .. r.largest : r \in ranges}

\* The worker takes a request, also when stopCh is closed: the select may choose
\* either, and the drain of line 226 takes them all.
TakeRequest ==
    /\ ~crashed
    /\ worker.pc = "idle" /\ ackQueue # <<>>
    /\ worker' = [worker EXCEPT !.pc = "closed?", !.pid = Head(ackQueue)]
    /\ ackQueue' = Tail(ackQueue)
    /\ UNCHANGED <<received, phase, reader, ticker, externalVars, delivered, acked,
                   recorded, crashed>>

BeginDrain ==
    /\ ~crashed
    /\ worker.pc = "idle" /\ Stopped /\ ~worker.draining
    /\ worker' = [worker EXCEPT !.draining = TRUE]
    /\ UNCHANGED <<received, ackQueue, phase, reader, ticker, externalVars, history, crashed>>

StopWorker ==
    /\ ~crashed
    /\ worker.pc = "idle" /\ worker.draining /\ ackQueue = <<>>
    /\ worker' = [worker EXCEPT !.pc = "stopped"]
    /\ UNCHANGED <<received, ackQueue, phase, reader, ticker, externalVars, history, crashed>>

Done == [WorkerIdle EXCEPT !.draining = worker.draining]

\* processAckRequest: a closed multiplexer sends no acknowledgements.
CheckClosed ==
    /\ ~crashed
    /\ worker.pc = "closed?"
    /\ worker' = IF IsClosed THEN Done ELSE [worker EXCEPT !.pc = "ranges"]
    /\ UNCHANGED <<received, ackQueue, phase, reader, ticker, externalVars, history, crashed>>

\* The ranges are computed and the path is looked up ...
ComputeRanges ==
    /\ ~crashed
    /\ worker.pc = "ranges"
    /\ worker' = IF received[worker.pid] = {} THEN Done
                 ELSE [worker EXCEPT !.pc = "path", !.ranges = GetAckRanges(received[worker.pid])]
    /\ UNCHANGED <<received, ackQueue, phase, reader, ticker, externalVars, history, crashed>>

LookUpPath ==
    /\ ~crashed
    /\ worker.pc = "path"
    /\ worker' = IF worker.pid \in registered THEN [worker EXCEPT !.pc = "submit"] ELSE Done
    /\ UNCHANGED <<received, ackQueue, phase, reader, ticker, externalVars, history, crashed>>

\* ... and looked up again for the submission: SubmitFrame dereferences a nil path
\* if it has been unregistered in between, and nobody recovers.  A submission
\* that fails may still reach the peer, because the packer keeps the packet pending.
\* On a path that does not work the write may also hang (module PathLink), and the one
\* worker of the session with it.
SubmitAck ==
    LET cover == {worker.pid} \X Covered(worker.ranges)
    IN  /\ ~crashed
        /\ worker.pc = "submit"
        /\ \/ /\ worker.pid \in registered
              /\ \/ /\ worker.pid \in works
                    /\ worker' = [worker EXCEPT !.pc = "cleanup"]
                    /\ acked' = acked \cup cover
                 \/ /\ worker' = Done
                    /\ acked' \in {acked, acked \cup cover}
                 \/ /\ worker.pid \notin works
                    /\ worker' = [worker EXCEPT !.pc = "hung"]
                    /\ acked' \in {acked, acked \cup cover}
              /\ UNCHANGED crashed
           \/ /\ worker.pid \notin registered
              /\ crashed' = TRUE
              /\ UNCHANGED <<worker, acked>>
        /\ UNCHANGED <<received, ackQueue, phase, reader, ticker, externalVars, delivered,
                       recorded>>

\* Mutant: the whole entry of the path is deleted, numbers recorded since included.
RemainingNone(p) == {}

Remaining(p) == received[p] \ Covered(worker.ranges)

\* cleanupAckedPackets: what was submitted is forgotten.
CleanupAcked ==
    /\ ~crashed
    /\ worker.pc = "cleanup"
    /\ received' = [received EXCEPT ![worker.pid] = Remaining(worker.pid)]
    /\ worker' = Done
    /\ UNCHANGED <<ackQueue, phase, reader, ticker, externalVars, history, crashed>>

(***************************************************************************)
(* The ticker                                                              *)
(***************************************************************************)

\* Mutant: only paths with many numbers are asked for.
TickerSkipsFew == {p \in Paths : Cardinality(received[p]) >= Threshold}

PathsWithNumbers == {p \in Paths : received[p] # {}}

\* sendPeriodicAcks: snapshot the paths with numbers recorded, then ask for each.
Tick ==
    /\ ~crashed
    /\ ticker.pc = "idle" /\ PathsWithNumbers # {}
    /\ ticker' = [pc |-> "send", paths |-> PathsWithNumbers]
    /\ UNCHANGED <<received, ackQueue, phase, reader, worker, externalVars, history, crashed>>

TickSend ==
    /\ ~crashed
    /\ ticker.pc = "send"
    /\ \E p \in ticker.paths :
         /\ ackQueue' = Enqueued(p)
         /\ ticker' = [pc |-> IF ticker.paths = {p} THEN "idle" ELSE "send",
                       paths |-> ticker.paths \ {p}]
    /\ UNCHANGED <<received, phase, reader, worker, externalVars, history, crashed>>

StopTicker ==
    /\ ~crashed
    /\ ticker.pc = "idle" /\ Stopped
    /\ ticker' = [ticker EXCEPT !.pc = "stopped"]
    /\ UNCHANGED <<received, ackQueue, phase, reader, worker, externalVars, history, crashed>>

(***************************************************************************)
(* Close, and what happens outside                                         *)
(***************************************************************************)

SetClosed ==
    /\ ~crashed
    /\ phase = "open" /\ phase' = "closed"
    /\ UNCHANGED <<received, ackQueue, reader, worker, ticker, externalVars, history, crashed>>

CloseStopCh ==
    /\ ~crashed
    /\ phase = "closed" /\ phase' = "stopping"
    /\ UNCHANGED <<received, ackQueue, reader, worker, ticker, externalVars, history, crashed>>

\* Mutant: Close waits for the workers without the timeout.
WorkersGone == worker.pc = "stopped" /\ ticker.pc = "stopped"

\* wg.Wait returned, or two seconds went by because the worker is stuck in a write.
WaitEnds == ticker.pc = "stopped" /\ worker.pc \in {"stopped", "submit", "hung"}

\* The maps become nil and ackQueue is closed.
ReleaseMaps ==
    /\ ~crashed
    /\ phase = "stopping" /\ WaitEnds
    /\ phase' = "released"
    /\ received' = [p \in Paths |-> {}]
    /\ UNCHANGED <<ackQueue, reader, worker, ticker, externalVars, history, crashed>>

\* The worker hangs in a write on the path and holds its stream lock for ever.
HangsOn(p) == worker.pc = "hung" /\ worker.pid = p

\* Packer.RegisterPath and UnregisterPath, by the paths; a path leaves after it has
\* taken the lock and closed its transport stream.
RegisterPath(p) ==
    /\ ~crashed
    /\ \/ registered' = registered \cup {p} /\ works' = works
       \/ registered' = registered \ {p} /\ works' = works \ {p} /\ ~HangsOn(p)
    /\ UNCHANGED <<received, ackQueue, phase, reader, worker, ticker, streams, history, crashed>>

\* The transport stream of a path breaks, or a recovery replaces it under the lock.
ChangeStream(p) ==
    /\ ~crashed
    /\ p \in registered
    /\ works' \in {works \cup {p}, works \ {p}}
    /\ ~HangsOn(p)
    /\ UNCHANGED <<received, ackQueue, phase, reader, worker, ticker, registered, streams,
                   history, crashed>>

\* The stream manager learns of a stream when the application accepts or opens it.
AddStream(s) ==
    /\ ~crashed
    /\ s \notin streams
    /\ streams' = streams \cup {s}
    /\ UNCHANGED <<received, ackQueue, phase, reader, worker, ticker, registered, works,
                   history, crashed>>

Reader(r) == RecordReceived(r) \/ RequestUrgent(r) \/ FindHandler(r) \/ FindStream(r)

WorkerLocal ==
    \/ TakeRequest \/ BeginDrain \/ StopWorker \/ CheckClosed \/ ComputeRanges
    \/ LookUpPath \/ CleanupAcked

Worker == WorkerLocal \/ SubmitAck

Ticker == Tick \/ TickSend

Closer == SetClosed \/ CloseStopCh \/ ReleaseMaps

Next ==
    \/ \E r \in Readers : Reader(r) \/ \E n \in Sent : PushPacket(r, n)
    \/ Worker \/ Ticker \/ StopTicker \/ Closer
    \/ \E p \in Paths : RegisterPath(p) \/ ChangeStream(p)
    \/ \E s \in StreamIDs : AddStream(s)

Spec == Init /\ [][Next]_vars

\* The scheduler runs every goroutine, the ticker ticks and Close finishes once begun.
\* A submission ends, or hangs for good, and on a path that keeps working some of them
\* succeeds (SubmitFrame has no error of its own for a registered path that is ready).
Fairness ==
    /\ WF_vars(WorkerLocal) /\ WF_vars(Ticker) /\ SF_vars(StopTicker)
    /\ WF_vars(CloseStopCh \/ ReleaseMaps)
    /\ WF_vars(SubmitAck)
    /\ \A p \in Paths : SF_vars(worker.pid = p /\ SubmitAck /\ worker'.pc = "cleanup")

FairSpec == Spec /\ Fairness

-----------------------------------------------------------------------------
(***************************************************************************)
(* Properties                                                              *)
(***************************************************************************)

AckRange == [smallest : Seqs, largest : Seqs]

\* Every variable has the shape the source gives it; the queue keeps its capacity.
TypeOK ==
    /\ received \in [Paths -> SUBSET Seqs]
    /\ ackQueue \in Seq(Paths) /\ Len(ackQueue) <= QueueSize
    /\ phase \in {"open", "closed", "stopping", "released"}
    /\ \A r \in Readers :
         /\ reader[r].pc \in {"idle", "record", "urgent", "handler", "stream", "dead"}
         /\ reader[r].seq \in 0 .. MaxSeq
    /\ worker.pc \in {"idle", "closed?", "ranges", "path", "submit", "cleanup",
                     "stopped", "hung"}
    /\ worker.pid \in Paths \cup {NoPath} /\ worker.ranges \subseteq AckRange
    /\ ticker.pc \in {"idle", "send", "stopped"} /\ ticker.paths \subseteq Paths
    /\ registered \subseteq Paths /\ streams \subseteq StreamIDs /\ works \subseteq Paths

\* The worker acknowledges exactly what was received when it looks, now or after any
\* further packets, with and without gaps: the ranges are the maximal intervals of the
\* recorded numbers, so no number is acknowledged that was not received and none that
\* was is left out.
RangesExact ==
    \A p \in Paths : \A S \in SUBSET Seqs : received[p] \subseteq S =>
        GetAckRanges(S) =
              {i \in AckRange : /\ i.smallest .. i.largest \subseteq S
                                /\ i.smallest <= i.largest
                                /\ i.smallest - 1 \notin S /\ i.largest + 1 \notin S}

\* A packet is not forgotten unacknowledged: whatever arrives between the
\* computation of the ranges, the submission and the cleanup, a recorded number
\* stays until an ack that covers it has been handed to the packer.
ReceivedNotForgotten ==
    Released \/ \A k \in recorded : k[2] \in received[k[1]] \/ k \in acked

\* Nothing is acknowledged that was not received on that path.
AckedWasReceived == acked \subseteq recorded

\* A received packet is acknowledged in the end, even if it never reaches the
\* threshold, unless the session closes, the path goes or stops working, or the worker,
\* which serves all paths, hangs in a write on any of them.
AckedEventually ==
    \A p \in Paths : \A n \in Sent :
        n \in received[p] ~>
            \/ <<p, n>> \in acked \/ IsClosed \/ crashed
            \/ p \notin registered \cap works \/ worker.pc = "hung"

\* Close returns although the worker may hang in a write.
CloseReturns == (phase = "closed") ~> (Released \/ crashed)

\* The data of an acknowledged packet has reached its stream, or its reader still
\* works on it: the peer will not send it again.
\* Not kept: README, section 7.
AckedIsDelivered ==
    \A k \in acked :
        \/ Carries[k[2]] = NoStream \/ k \in delivered
        \/ \E r \in Readers : PathOf[r] = k[1] /\ reader[r].seq = k[2]

=============================================================================
