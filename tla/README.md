# KWIK: a verification development

KWIK carries logical, ordered byte streams between a client and a server over one
or more QUIC connections (*paths*). This directory holds TLA+ models of its
transport, the TLC configurations that check them on small instances, and proofs,
checked by TLAPS, that hold for every value of the parameters. Paths and line
numbers below refer to `src/`.

Contents: 1 the system; 2 the models; 3 what each run shows; 4 bounds; 5 fairness;
6 proofs; 7 disagreements found; 8 not modelled; 9 plan.

## 1. The system

### Components, their state and their operations

| Component | State | Operations |
|---|---|---|
| **Packer** `internal/transport/packer.go` | per-path frame queues, packet counters `nextPacketSeq`, registered `paths`, `pending` packets with attempts and due times, `bufferedStreams` (streams to flush), `stopCh` | `SubmitFrame`, `SubmitFromSendStream`, `OnAck`, `RegisterPath`, `UnregisterPath`, `CancelFramesForStream`, `Close`; two goroutines started by `StartRetransmitLoop` (retransmit, flush) |
| **SendStream** `stream.go` | list of unsent chunks, `baseOffset`, `writeOffset` | `Write`, `PopFrames`, `HasBuffered` |
| **RecvStream** `stream.go` | `expectedOffset`, out-of-order map `buffered`, `readBuf`, one-token channel `notifyCh`, `readActive` | `handleFrame`, `Read`, `SetReadOffset`, `GetReadOffset` |
| **Stream** (`StreamImpl`) `stream.go` | paths, primary path, the two halves | `Write`, `Read`, `Flush`, `AddPath`, `Close` |
| **Multiplexer** `internal/transport/multiplexer.go` | packet numbers `received` per path, `ackQueue` (capacity 100), `closed`, `stopCh` | `PushPacket` (record, ask for an urgent ack, dispatch frames), `GetAckRanges`, `processAckRequest`, `cleanupAckedPackets`, `Close`; goroutines `ackWorker` and `periodicAckSender` |
| **Path** `internal/transport/path.go` | `state` (connecting, ready, failed, closed), transport stream and its lock, response channels of opening streams, health counters | `WriteStream`, `SubmitSendStream`, `OpenStreamSync`, `AcceptStream`, `HandleControlFrame`, `handleWriteError`/`tryRecover`, health loop, `Close` |
| **Path reader** `internal/transport/reader.go` | byte buffer | cuts length-prefixed packets out of the QUIC stream and pushes them to the multiplexer; recovers from panics |
| **Codec** `internal/protocol/packet.go`, `frame.go` | none | packets and eight kinds of frames to and from bytes |
| **Stream manager** `stream_manager.go` | stream table, next stream number | `CreateStream`, `addStream`, `CloseStream`, lookups |
| **Sessions** `client.go`, `server.go` | session state, path manager, multiplexer, packer | connect, accept, `OpenStreamSync`, `AcceptStream`, `AddPath`, close |
| **Listener** `listener.go` | registry of sessions | `Accept`, `RemoveSession`, graceful shutdown |
| **Path manager** `internal/transport/path_manager.go` | path table, primary path | `OpenPath`, `AcceptPath`, `RemovePath`, `CloseAllPaths`, `AddRelay` |
| **Relay** `internal/transport/relay.go` | a path to a third party | `SendRawData`, forwarding |
| **kwikhttp** `kwikhttp/` | connections | requests and responses over streams |

### How they interact

```
 application
   | Write / Read                      Accept / Open
   v                                        v
 StreamImpl --- SendStream / RecvStream   Session --- path manager --- Listener
   | SubmitSendStream      ^ handleFrame     |
   v                       |                 v
 Path ----> Packer      Multiplexer <---- Path reader <---- QUIC stream
   ^          |   ^        |  |                                 ^
   |          |   +-OnAck--+  |  SubmitFrame(AckFrame)          |
   |          |   +-----------+                                 |
   +----------+  Path.WriteStream ------------------------------+
```

Everything runs in goroutines: the application's, one reader per path, the packer's
two, the multiplexer's two, one health loop per path. They share the packer and the
multiplexer under `p.mu`/`seqMu` and `m.mu`, and they give these locks up between the
steps of one operation: a submission is six critical sections, an acknowledgement five.

### What is hard, and what makes each part correct

*Packer.* A submission checks the path, takes a number and fills the pending table in
different lock holds while the path may be closed, unregistered (its counter
restarts) and registered again, while acknowledgements arrive and while the retransmit goroutine
works on a copy of the table. Correct if: a packet number names one packet; an
acknowledged packet is not resurrected; every packet is acknowledged, cancelled or
given up; no byte is packed twice; what `Write` reported is not lost; buffered data
gets flushed; `Close` returns and hurts nobody.

*RecvStream.* Frames come from several paths in any order and repeatedly, while
`Read` unlocks before it waits. Correct if: `Read` returns the byte stream; a wakeup is never
lost; what was handled (hence acknowledged) stays.

*Multiplexer.* The ranges are computed, submitted and cleaned up in separate lock holds
while readers record, the queue may be full, the write may hang, the path may go
and `Close` may run. Correct if: exactly what was received is acknowledged; nothing is
forgotten unacknowledged; everything is acknowledged in the end; `Close` returns and is final;
acknowledged data reaches its stream.

*Opening a stream* spans the session, the stream manager, the path and the peer. Both peers number
streams from 1 in their own order, frames are repeated and come late, a call's context ends at any
time, the path may close under the calls. Correct if: a stream that was opened can be accepted under its number; an
accepted one was opened; a call that fails leaves nothing behind; a waiting call can be woken; a late answer
does no harm.

*Path.* A stream is reset or the connection lost while writers write, the reader reads, several of them recover
and the session closes the path. Correct if: one reader reads at a time; recoveries are counted; a loss is
handled by somebody and reported; everyone who waits for a lock gets it.

*Framing.* Bytes arrive in pieces of any size, and a broken stream is replaced by a new one. Correct if: the reader stays in step
with the packets, and what comes out is what went in.

*Sessions, path manager, listener.* A session is closed by the application, by the loss of its last path, by
`RemoveSession` and by the listener's shutdown, at once, while it is set up, while paths are added and fail, and each
of these calls the others. Correct if: all of them return; no path stays open; the registry does not keep what is closed;
a session without paths is closed.

*Relays.* One response channel serves all calls of `AddRelay`; every frame is handled by a goroutine of its own, repeats
included. Correct if: a relay names a path that exists and leads to its address; data that was relayed is sent, on a stream that
is open and known to the session, frame after frame.

`PROJECT.json` lists each hazard with its line and the properties that watch it.

## 2. The models

| Module | Models | Notes |
|---|---|---|
| `SendStream` | `SendStream` and the packer's size arithmetic | operators only; a buffer is its offsets and chunk ends |
| `Packer` | the packer, `StreamImpl.Write/Flush/AddPath`, the path states it depends on | the core; extends `SendStream` |
| `MCPacker` | constants for TLC | |
| `PackerProof` | type invariant, `AttemptsBounded`, `BytesPackedOnce`, `WireIdentity`, `AckedNotPending` proved | |
| `ByteStream` | what the reading half promises | abstract specification |
| `RecvStream` | the reading half | refines `ByteStream` |
| `RecvStreamProof` | type invariant, `NoMissedWakeup` and the refinement of `ByteStream` proved | |
| `Multiplexer` | the receiving side of a session | |
| `MCMultiplexer` | constants for TLC | |
| `MultiplexerProof` | type invariant, `RangesExact`, `ReceivedNotForgotten`, `AckedWasReceived` proved | |
| `StreamOpening` | how two sessions open, accept and close streams: session calls, stream manager, `Path.OpenStreamSync/AcceptStream/HandleControlFrame/Close` on both sides | |
| `MCStreamOpening` | constants for TLC, one bound | |
| `StreamOpeningProof` | the type invariant and the safety of `StreamOpening` proved | |
| `Codec` | `packet.go` and `frame.go`: encoding and parsing of packets and of the eight kinds of frames | operators on bytes |
| `Wire` | the bytes between two paths: prefixes, the reader's buffer and loop, streams that break | extends `Codec` |
| `MCWire` | packets for TLC | |
| `WireProof` | the parsers invert the writers; type invariant, `InStep`, `PacketsIntact`, `StopsOnlyAtTheLimit` proved | |
| `PathLink` | one path: `NewPath`, `WriteStream`, error handling, stream recovery, fatal errors, `Close` | |
| `PathLinkProof` | `OneReaderReads` and `RecoveriesCounted` proved | |
| `Sessions` | one session, its path manager and its entry in the listener: setting up, paths, closing, shutdown | |
| `SessionsProof` | type invariant and the safety of `Sessions` proved | |
| `Relay` | `AddRelay` on a server, `OpenPath` and the forwarding of relayed data on its client | both ends |
| `RelayProof` | type invariant and the safety of `Relay` proved | |

**Atomicity.** One action is one lock hold, one channel operation, or one call that leaves
the component. Local variables that live across lock holds are in a record per goroutine
(`sub[t]`, `rtx`, `flush`, `worker`, `ticker`, `reader[r]`) whose `pc` names the place.

**Packer.** `SubmitFrame`/`StreamWrite`/`StreamFlush` begin a submission; then
`SubmitSendStream` (path ready?), `PopAndPack` (pop from the provider, pack what fits),
`AssignSeq` (`seqMu`, then serialise; an oversized packet is refused here), `CheckPath`
(`p.paths`), `RegisterPending`, `WritePacket` (`Path.WriteStream`), `CheckBuffered`,
`ScheduleFlush`. `RtxCollect`/`RtxWrite`/`RtxUpdate` and
`FlushTick`/`FlushVisit`/(a submission of thread `Flusher`)/`FlushCheck`/`FlushUnschedule` are
the two goroutines. `OnAck`, `CancelFramesForStream`, `UnregisterPath`, `Close`, `CloseRelease` are the
other operations. A write succeeds, fails, or never returns: then its goroutine is "hung", and so is whoever writes on the same path after it (`Stuck`),
because the stuck writer keeps the stream lock (section 7, 2); a path with a stuck writer does not get as far as `UnregisterPath`.
A missing map key is a default value (`Absent`, `NoPath`, 0). Go's
`panic` on a write to a nil map is `panicked`: no goroutine of the packer recovers, so everything
stops. Real encoded sizes are used (17 bytes per packet, 26 per stream frame, against the
packer's estimate of 21), because two properties depend on the difference. The frame queue is not a
variable: it is filled and emptied in one lock hold (see the module's header). "closed" as a path
state means that `Path.Close` has begun: it changes the state first and unregisters
last. `wire`, `acked`, `packed` (the packets filled from streams) and `written` are history variables: no guard reads them except `OnAck`
(only what is on the wire can be acknowledged).

**RecvStream.** The peer cuts the stream into frames once (`cuts`), a retransmission repeats a
frame. Byte *k* is represented by *k*, so a byte delivered in the wrong place shows. `HandleFrame` keeps the
loop's deletion of the wrong buffer entry, `ReadPoll`/`ReadWake` the gap between
unlock and receive, `ReadLeave` the deferred function's own lock hold.

**Multiplexer.** Readers: `PushPacket`, `RecordReceived`, `RequestUrgent`, `FindHandler`,
`FindStream`. Worker: `TakeRequest`, `CheckClosed`, `ComputeRanges`, `LookUpPath`, `SubmitAck`,
`CleanupAcked`, `BeginDrain`, `StopWorker`. Ticker: `Tick`, `TickSend`, `StopTicker`. Close: `SetClosed`,
`CloseStopCh`, `ReleaseMaps`. A submission may succeed, fail, or fail although the packet stays
pending in the packer and is delivered later; on a path that does not work (`works`, changed by `ChangeStream`) it may also hang, and the one worker of all paths
with it ("hung", `HangsOn`). `GetAckRanges` is the code's loop over the sorted numbers, as a recursive
function (`Looped`): its value at *n* is what the loop has made of the numbers up to *n*. A reader's send on the closed queue panics and is recovered by
the path reader (`dead`), the worker's panic is not recovered (`crashed`).

**StreamOpening.** A call is a record whose `pc` names the place in the session's `OpenStreamSync` or
`AcceptStream` and in the path's. `CreateStream` takes a number; an opener goes through `RegisterResponse`, `SubmitOpen`,
`AwaitResponse`, `UnregisterResponse`, `CloseResponse` (the deferred function's two steps), an acceptor through `AwaitChannel`
(`LoadOrStore`), `AwaitOpen`, `DeleteWaiter`; both end in `LookUpStream` and `AddPathToStream`,
or in `GiveUp` (the path's part failed), or in `UndoCreate` and `RemoveStream` (`AddPathToStream` failed).
The reader of each path runs `ReceiveOpen` (the `Load`), then `WakeWaiter` or `StoreWaiter`, then `Answer`; and
`ReceiveResponse`, `DeliverResponse`. `Path.Close` is `BeginClose`, `DropStreams`, `VisitWaiter`, `CloseWaiter`, `ForgetWaiter`
(once per waiter, since `sync.Map.Range` holds no lock), `ForgetResponses`, `CloseLink`. Frames that were submitted stay in `sent` and are
received any number of times in any order, or never. The submission inside the packer is
one step here: it succeeds, fails, or fails with the packet left in the pending table. A panic in the reader is recovered and ends
it (`dead`); one in `Path.Close` is not (`crashed`).

**Codec and Wire.** Bytes are numbers, so that the parsers' length tests, their fixed eight-byte integers, and the test for a packet that starts with its own length
are the code's. `DeserializePacket` parses all frames from one position, as the code does. `WritePacket` puts both prefixes in front
(packer and `WriteStream`); `ReadAndPush` is one `Read` of any allowed size and the whole loop over the
buffer; `Recover` is a new stream on both sides, with a new reader.
`Wire` assumes that a packet has 10000 frames at most: the parser refuses more (`packet.go:138`) and the packer does not count them. It also assumes that the
limit on packets and four more bytes fit in a length of four bytes.

**PathLink.** `BeginWrite`, `LockStream`, `WriteSucceeds`/`WriteFails` are `WriteStream`; an error is `FatalError`
(a goroutine is left that runs `MarkFailed`, `TestStream`, `EndStream`, `ReportFailure`) or `TryRecover`, and then `LockRecovery`,
`CloseOld`, `Reopen`, `Install` for readers and writers alike. A writer keeps `transportStreamMu` (`streamMu`) all the time, as in the code.
`NoticeLoss` is the goroutine that waits for the connection's context. `Close` is `BeginClose`, `StoreClosed`, `DropStream`, `Unregister`,
`CloseConnection`. Error texts become two classes, `fatal` and `other`; the recovery's pauses are left out. An end of stream (`eof`) ends
the reader and nobody handles it. A nil stream that is closed stops the program (`crashed`).

**Sessions.** `main` is `Accept` with `NewServerSession`, or `DialAddr` with `Connect` and its retries: `BeginSession`,
`GotPath`/`NoPathMade`, `SetPrimaryPath`, `VerifyPrimary`, `Activate`, `Register`, `RegisterConnection`. `AdderLocks`/`AdderEnds`
open a path for a frame. `RemovePath` and `CountPaths` are `HandlePathFailure`'s two lock holds. `close` is entered once (`EnterClose`, `SkipClose`) and goes through
`LockPaths`, `ClosePath` (for each path, under `pm.mu`), `UnlockPaths`, `CloseComponents`, `NotifyListener`,
`FinishClose`. Behind a stuck writer it stays for ever in `Path.Close`, with `pm.mu` held (`CloseHangs`, step "locked"), or in `Packer.Close` (`PackerHangs`, step
"waiting"). `SetPrimaryPath` uses the number that `GotPath` was given (`made`), though another path may have been added since. `BeginShutdown`, `Drained`, `ForceClose` are the listener's `Close`. One session is enough, because sessions share
nothing but the registry, in which each has its own entries; `Init` chooses its role.

**Relay.** Callers of `AddRelay` go through `FindPrimary`, `RegisterHandler`, `SubmitAddPath` and `TakeResponse` or
`TimeOut`. `ReceiveAddPathResp` loads the channel, `ForwardResponse` sends on it later. On the client `ReceiveAddPath` starts a goroutine for
`OpenPath`; a copy of a data frame is a job that goes through `FindPath`, `OpenStream` (the look at line 485), `LookAgain` (the one at 724, after an error), `PutStream`,
`JoinStream`, `ReadWriteOffset`, `IncrementWriteOffset` and `SubmitData`, one lock hold each. Meanwhile the client's application creates streams (`CreateStream`) and closes
them: `CloseStream` visits the stream's paths in any order and stops at the first that does not know the stream, which then stays with the manager. It is one step: what a
goroutine that relays data does between two of its visits has the same effect before or after the whole call, because each of its steps looks at the entry of one path. `ClosePath` is a path that the session closes: it forgets its streams, one that fails (`LosePath`) does not.
The stream manager's `CloseAllStreams` is left to `StreamOpening`.

## 3. Runs

| Run | Checks | Shows |
|---|---|---|
| `packer_frames` | `WireIdentity`, `AckedNotPending` | two goroutines submit control frames while the path closes, is registered again through `StreamImpl.AddPath`, acks arrive, packets are retransmitted (2.2 M states) |
| `packer_flush` | `TypeOK`, `BytesPackedOnce`, `FlushDrains` | a writer, `Flush` and the flush goroutine pop one stream; chunks of 110 and 170 bytes against packets of 80, so that frames are split, refused and left over. The data of a scheduled stream leaves the send stream, unless the path is unregistered or a write hangs |
| `packer_retransmit` | `AttemptsBounded`, `PendingResolved`, `CloseReturns` | every pending packet is resolved and `Close` returns, unless the retransmit or the flush goroutine hangs in a write |
| `recv_stream` | `TypeOK`, `NoMissedWakeup`, `ReadsByteStream`, `ReadReturns` | refinement of `ByteStream` under every frame layout, order and repetition, with two reading goroutines and seeks |
| `mux_acks` | `TypeOK`, `RangesExact`, `ReceivedNotForgotten`, `AckedWasReceived`, `AckedEventually`, `CloseReturns` | acknowledgement bookkeeping against readers, ticker, path and Close, with a worker that may hang; the ranges of every set of numbers with what was received are computed, with gaps and without |
| `opening` | `TypeOK`, `OpenedIsAcceptable`, `AcceptedWasOpened`, `NothingLeftBehind` | a client opens two streams, a server accepts, contexts end at any point, streams are closed by the application, and the server's path and session close, while calls fail at every step (631 k states) |
| `wire` | `PacketsIntact`, `InStep`, `StopsOnlyAtTheLimit` | every kind of frame, cut anywhere, comes out as it went in; the reader stays in step over broken streams and gives up only on packets within the four bytes of the inner prefix of the limit (21 k states) |
| `link` | `OneReaderReads`, `RecoveriesCounted`, `LossIsReported`, `BreakIsHandled`, `CloseReturns` | a writer, the readers, the monitor and `Close` meet resets and a lost connection: one reader at a time, no recovery over the limit, nothing goes unnoticed, `Close` returns, all of it unless the writer has locked itself out |
| `sessions` | `PrimaryIsKnown`, `CloseReachesPaths`, `ClosedIsUnregistered`, `ShutdownDrains`, `CloseReturns`, `LostSessionCloses` | setting up, paths that come and fail, and five callers of `close`, for a client and for a server, with writers that may lock the close out (25 k states) |
| `relay` | `RelayIsReal`, `OpenIsJoined`, `FramesFollow`, `RelayedIsSubmitted` | two calls of `AddRelay` with late and crossed answers, relayed data handled twice at once, the stream created before or after the data comes and closed at any time, paths lost and closed (2.4 M states) |

The violation runs each check one statement of the repository the code does not keep (section 7):
`packer_lost_write` and `link_write_stuck`.

`FramesFollow` says that each frame starts where the one before it on its stream ends. It is about streams on which no two frames were handled at once;
with two at once they read one offset, see section 7. `OpenIsJoined` excepts streams that data had opened on a path before the client created them, and `RelayedIsSubmitted` data whose path was lost or whose
stream was closed on it (section 7).
`StopsOnlyAtTheLimit` states how far the packer's limit and the reader's are apart. The type invariants of
`PathLink`, `Sessions`, `Relay` and `Wire` are proved (section 6) and checked by no run.

Deadlock checking is off where the system really stops: everything stops after Close,
after a panic, and when the bounds are reached.

## 4. Bounds

* `MaxSeq` (packets per path: 1 to 3): the numbering hazards need one number used twice, that is two
  submissions around a restart; two numbers let one packet be written while another is acknowledged. A goroutine
  that would need another number waits. For the multiplexer there are four numbers, of which the peer sends packets 1 and 3 (`Sent`), because the packer may refuse a packet after it has
  numbered it: what is received has a gap, the urgent threshold (2) is reached, and a packet is recorded during an acknowledgement of the other. `RangesExact` looks
  at every set of the four numbers that contains what was received, so all patterns of runs and gaps within four occur. Number 1 carries stream data, 3 a control frame.
* `MaxOffset` (bytes accepted per stream: at most 280): enough for chunks to be split over packets, left over,
  and popped together with a neighbour.
* `MaxPacketSize` 80 or 120 with the real overheads: 80 bytes hold a frame of at most 37 bytes, so a chunk that fits, one
  that is split and one that the packer's estimate wrongly accepts all occur.
* `MaxAttempts` 2 or 3 instead of 12 (`packer.go:58`); the theorem covers every value from 2.
* `QueueSize` 2 instead of 100: it fills with one urgent and one periodic request.
* `Length` 4 bytes with read sizes 1 and 3: every layout of up to four frames.
* `MaxStreams` 2 streams a side, one opener and one acceptor: two numbers are needed for the sides to disagree
  (a given-up accept uses one up). `OneStreamWhenLeaving` goes on with one stream only once the server's path or session has begun to close
  (`Leaving`), because no property relates two streams there.
* `Packer` has one path: no property there relates two paths' numbers, and the theorems hold for any set of paths.
* `Wire`: two packets a stream and one broken stream; pieces of 1 byte cut at every place, pieces of 2048 bytes give several packets at once. The limit is 60 bytes
  instead of 1 MiB, with packets of 56, 57 to 60 and 61 bytes around it.
* `PathLink`: the code's `MaxRecovery` 2, hence three streams and their readers; one writer, because a second waits for the lock of the first.
* `Sessions`: two paths (one to lose, one to become primary), one retry. `RemovePath` and the adder meet every step of `close` with two.
* `Relay`: two calls, paths 2 and 3, one item of data in two copies on one stream. `MaxControl` 1: a frame about a path arrives at most
  once; that it may come late or for another call is what the properties turn on. Two arrivals were tried and are beyond TLC's time. With one item the stream has at most one relay path
  (and the primary one, which may have been closed); a `CloseStream` that stops between two relay paths is covered by the theorems.

## 5. Fairness

Fairness is used for liveness properties only (`FairSpec`).

* *Packer*: weak fairness of each goroutine in the middle of a submission or of a pass (the scheduler runs it). Nothing in
  the packer blocks but `WriteStream`, which has no deadline and may lock itself out (section 7, 2): a goroutine that hangs there is in a place of its own, "hung", from which
  nothing is fair. `PendingResolved` and `CloseReturns` therefore except a retransmit goroutine that hangs, `FlushDrains` and `CloseReturns` a flush goroutine. Strong fairness of collecting each due packet: the
  ticker fires again and the pass collects everything due. Strong fairness of `RtxStop`/`FlushStop`: the loop comes back to
  its `select` again and again, and Go chooses among ready cases at random.
* *RecvStream*: weak fairness of a reader inside `Read`. Nothing obliges frames to arrive or the application to read.
* *Multiplexer*: weak fairness of worker, ticker and a `Close` that has begun. A submission ends or hangs; on one path, if it is attempted
  again and again while the path works, some attempt succeeds (strong fairness per path). That is what QUIC gives: a write on a healthy stream may fail, but not each time. Nothing is assumed of a path that does not
  work, where the worker may hang for good, so `AckedEventually` excepts a worker that hangs, a path that is gone and one that does not work. `Close`'s two-second timeout is for the worker that
  hangs, and `CloseReturns` has no exception.

* *PathLink*: weak fairness of every goroutine that can run, strong fairness of those that wait for a mutex: Go's `sync.Mutex` hands
  itself to the first waiter after a millisecond (starvation mode). Dial, accept and open calls have timeouts, so they end. Nothing obliges QUIC
  to fail, a writer to write or the session to close.
* *Sessions*: the same for `main`, the adder, `HandlePathFailure`, whoever is inside `close`, and each caller of `close`. `CloseReturns` and `LostSessionCloses` except a close that a stuck writer
  has locked out (`CloseIsLockedOut`). The shutdown needs no fairness: nobody waits for it.
* *Relay*, *Wire*: none; safety only.

## 6. Proofs

The theorems are about `Spec` of `Packer`, `RecvStream`, `Multiplexer`, `StreamOpening`, `PathLink`, `Sessions`, `Relay` and `Wire` (safety needs no
fairness), for arbitrary sets of paths, streams, sides and goroutines and arbitrary sizes and bounds, from the assumptions that these modules
state about their constants (`PackerConstants`, `RecvConstants`, `MultiplexerConstants`, `OpeningConstants`, `LinkConstants`,
`SessionConstants`, `RelayConstants`, `WireConstants`) and from nothing else. In each proof module the inductive invariant is a conjunction of named parts, one lemma
says that the initial state satisfies it, one lemma per action or per part that the steps keep it, and the theorems follow.

* `PackerProof!TypeInvariant`, `TypeCorrect`: `TypeOK` is not inductive by itself; `TypeInv` adds what a
  goroutine's `pc` says about its locals (a submitting goroutine has a path, a numbered one a number, the stream
  steps a stream chunk).
* `PackerProof!AttemptsAreBounded`: a packet's attempts are counted when it becomes a task and judged when the task ends; the
  invariant says that an entry with all attempts used has its task still open, and that the tasks and the key
  under update are distinct.
* `PackerProof!BytesArePackedOnce` from `BytesInv`: the unsent data of a stream lies between its base and its write offset
  (`SendWindow`), so a pop takes bytes from above the base and moves the base past them (`PopTakes`). Whatever a goroutine carries from the pop to
  `RegisterPending`, and whatever is packed, was popped: it lies below the base, hence apart from what the next pop takes. Frames
  that two goroutines carry are apart (`CarriedApart`) because the pop and the move of the base are one lock hold.
* `PackerProof!WireIdentityHolds`, `AckedStaysAcked` from `NumberInvariant`. A number is *held* between `AssignSeq` and
  `RegisterPending` and then *circulates* (pending table, the writing goroutine, retransmit tasks, wire). On a live path a
  circulating number has been given out and circulates with one set of frames; a held number has one holder and does
  not circulate. Most steps put nothing new into circulation (`Shrinks`), one lemma handles them all; `AssignSeq`,
  `RegisterPending` and `OnAck` have their own. When the path goes down the argument stops, because `UnregisterPath` restarts the counter: from then on
  nothing is written on the path, so the wire stays as it is. This is where the order inside `Path.Close` (state first,
  unregister last) matters; the mutant that swaps it breaks `WireIdentity`.
* `RecvStreamProof!NoMissedWakeupHolds`, `ReadsByteStreamHolds` from `RecvInvariant`, for any length, cut into frames and number of reading
  goroutines. `ReadBufIsRun`: the read buffer is the run of bytes that ends at `expectedOffset`, whichever buffered frames the loop joins and
  deletes. `OneReader`: whoever is inside `Read` holds `readActive`. `TokenWaits`: a `Read` that waits although there are bytes has a token on its channel;
  the frame may come in the gap between the unlock and the receive. The refinement is proved step by step: a frame that continues the
  stream is an `Arrive` of `ByteStream`, a turn of `Read` that finds data a `Read` of the next bytes, `SetReadOffset` a `Seek`, everything else stutters.
* `MultiplexerProof`, from `MuxInvariant`:
  * `RangesExactHolds`: the loop of `GetAckRanges` covers exactly the recorded numbers, with gaps at both ends of each range. This is an
    induction over data: the loop is a recursive function, and instead of an induction theorem, which
    the provers cannot instantiate, `LeastNatural` gives the least number at which a claim about it fails.
  * `ReceivedNotForgottenHolds`, `AckedWasReceivedHolds`: `Bookkeeping` says that what the worker is about to acknowledge was received, and what it is about
    to clean up was acknowledged; numbers recorded between the computation and the cleanup are in neither.
* `StreamOpeningProof!AcceptedWasOpenedHolds`, `OpenedIsAcceptableHolds`, `NothingLeftBehindHolds`, for any two sides (or
  pairs of sides), any number of calls and streams, and with every side free to close. Each invariant builds on the one before:
  * `TypeInv` adds to `TypeOK` that a busy call, a working reader and a working closer have a stream number at all.
  * `OneOwner`: a number belongs to one call of its side, and to none once the stream has been returned. `InPlace`: a call is
    at a place of its own operation and has succeeded where it goes on to `AddPathToStream`.
  * `Owned`: a call's own channel is in the map only for a number its side has asked for; `Unasked` only ever ends.
  * `Traces`: everything a frame can leave on the acceptor's side (a stored channel, a closed one, a frame the reader is working
    on, a call that has succeeded) has the frame behind it, as long as the path is open: `Path.Close` closes channels as well.
  * `Answers`: everything a response can leave on the opener's side, back to the submitted frame, has a closed channel
    on the other side behind it. The channel is put there before the response is submitted; the mutant `NothingStored` breaks it.
  * `Undone`: until it takes its stream back, a call keeps it in the manager, or the session's close has removed it; after that only the call itself (at "remove") stands for what the
    path has open. With `OneOwner` this covers a failure at every step, that of `AddPathToStream` after `CloseAllStreams` included; the mutant that undoes only the manager's part breaks it.

* `PathLinkProof!OneReaderReadsHolds`, `RecoveriesCountedHolds`, from `LinkInvariant`, for any writers and any limit:
  * `OneRecovers`: whoever is between `LockRecovery` and `Install` holds `recoveryMu`. `Paid`: the attempt that makes a stream is
    counted under that lock before the stream is made; the mutant that skips the second look at the attempts breaks it.
  * `OneActive`: of all readers one at most reads or recovers. It is inductive only with `WriterHolds`: a writer that recovers keeps
    `transportStreamMu` and so never gets past the old stream. A recovery by a writer would install a second reader beside the one that
    still reads (the mutant `UnlockAndRecover`); what keeps the readers apart is the self-deadlock of section 7, 2, so that a repair of the one has to look after the other.
  * `NotMade`, `NothingEarly`: a stream that is not installed has no reader, and nobody runs before `NewPath` has a stream.

* `SessionsProof`, from `SessionInvariant`, for servers and clients, any number of paths and of attempts to connect:
  * `CloseAgrees` ties `once`, the place inside `close` and the holder of `pm.mu` together, also when `close` is locked out. What holds when `once` is "done" holds of a close that got there:
    a close behind a stuck writer never does. `OpenAreListed`: an open path is in the table until
    `CloseAllPaths` has run and there is none later, but for paths that were made afterwards (`late`); that is `CloseReachesPaths` at the end of `close`.
  * `PrimaryIsKnown` is inductive: `RemovePath` removes a path and chooses the new primary in one lock hold, and `SetPrimaryPath` looks in the table for the path it was given.
  * `RegistryAgrees`: who is registered before `close` begins is removed by `NotifyListener`, whoever calls it; after that nobody registers the session again.
* `RelayProof`, from `RelayInvariant`, for any callers, paths, streams and data, and any number of copies of a frame:
  * `AnswersAreReal`: an answer may reach the wrong call, but names on every leg of its way (sent, in a goroutine, in a channel) a path that was opened to
    its address. `AskedIsBounded` is needed for the types only.
  * `WorkIsForData`: every job and every open stream belongs to data that was sent.
  * `FramesFollowHolds` from `OffsetsAgree`: the write offset of an undisturbed stream is the end of the last frame, but for the goroutine that has moved it and
    has not submitted yet, which knows that end (`RestingOffset`, `OffsetOfJob`); `OverlapIsSeen` puts two goroutines on one stream on record.
  * `OpenIsJoinedHolds`: an entry that is made on a path has its goroutine at "join"; `JoinStream` adds the path if the client has created the stream, and an entry that is there before that is in `early`.
    `CloseStream` takes a stream from the manager only together with every path that was joined.
  * `RelayedIsSubmittedHolds` from `AgainIsOpen` (a goroutine is at the third look because the stream was open: it is so still, or the stream was closed or its path lost) and `LostStays` (neither is undone):
    a goroutine that ends without submitting has seen one or the other.
* `WireProof`, for any packets, limit, sizes of pieces and number of streams:
  * `PacketRead` from `FrameParsed`: the parser of each kind of frame, at the place where a written one starts, finds the fields that were written, whatever comes
    before and after. `NumberOfBigEndian` is the round trip of a number below 256 to the power of its width. Because all frames are parsed from one position
    (section 7, 8), the theorem for a packet with several frames says what the code does: as many copies of the first.
  * `InStepHolds`, `PacketsIntactHolds`, `StopsOnlyAtTheLimitHolds` from `WireInv`: what was pushed is what the parser makes of the first packets written, in
    order; buffer and unread bytes together are the encoding of the others; a reader that has stopped has one in front of it that is too long with its
    length. The step is `LoopInStep`: from the start of a packet, the loop (a recursive function over the buffer) cuts off the whole packets that are there and leaves a
    part of the next. That is an induction over the waiting packets, again through the least number at which the claim fails; `LoopStep` is one turn of the loop, `LoopEnd` its end.

Left to TLC: all liveness (no prover for it under fairness), and what the two violation runs show. That a waiting call can be woken is not proved because it does not
hold (section 7).

## 7. Disagreements between the code and what it says

With a run that shows it:

1. A popped frame that does not fit the packet is dropped; with two writers of a stream a `Write` succeeds and its data is gone (`packer_lost_write`).
2. `WriteStream` starts the recovery of its stream with `transportStreamMu` held, and the recovery locks it again (`path.go:797`, `:259`): the
   writer waits for itself, and with it everyone who needs the path's stream, `Close` included (`link_write_stuck`).

Stated as properties the code does not keep; TLC gives a counterexample for each when it is put into the configuration of its module:

3. The flush goroutine unschedules a stream on a stale check (`packer.go:540`; `Packer!LeftoverIsScheduled`).
4. The reassembly loop deletes the wrong buffer entry, so data that was acknowledged is lost (`stream.go:50`; `RecvStream!HandledIsKept`).
5. Data for a stream not yet accepted is dropped but acknowledged (`multiplexer.go:343`; `Multiplexer!AckedIsDelivered`, with a stream of the constants).
6. An `AcceptStream` that comes while the frame is handled waits on a channel nobody can close (`path.go:636`; `StreamOpening!WaiterIsReachable`).
7. A response that meets the end of `OpenStreamSync` panics and ends the path's reader (`path.go:602`, "Channel full or closed - ignore"; `StreamOpening!LateResponseIgnored`).
8. `DeserializePacket` does not advance: a packet of several frames comes out as copies of the first (`packet.go:19` "Inside the packet we
   serialize frames one after another"; `Wire!EveryFramePushed`). Stream submissions with several chunks meet it.
9. `NewServerSession` stores Active over Closed, so that a session whose path fails while it is made looks active for ever
   (`server.go:118`, `:452` "Set final state"; `Sessions!ClosedIsFinal`).
10. `OpenStream` on a relay path replaces an entry made meanwhile, and the offset starts again (`path.go:490`; `Relay!OffsetGrows`).

The models also contain, without a property of their own, what these lines do: the flush goroutine drops the entry of a stream whose path is no longer registered, and the
data stays in the send stream (`packer.go:521`); a relay path that data has opened before the client creates the stream is never joined, because `handleRelayDataFrame` joins only what it opens
(`path.go:722`, `early`), so that `CloseStream` does not reach it; relayed data is dropped when its stream is opened by another goroutine and closed before the third look
(`path.go:724`); `CloseStream` stops at the first path that does not know the stream, and the stream stays in the manager, half closed (`stream_manager.go:161`); a session that removes itself before
`Accept` registers it stays in the registry (`listener.go:184`); `Packer.Close` releases maps under submissions that are under
way, which then panic (`packer.go:581`, `panicked`); the ack worker's drain at shutdown processes nothing, because the closed flag is set first
(`multiplexer.go:598`); its second lookup of the path may give nil (`multiplexer.go:475`, `crashed`); a reader may send to the closed request
queue (`multiplexer.go:443`, `dead`); `Path.Close` and
`handleOpenStreamFrame` may close one channel twice (`path.go:625`, `path.go:891`); `closePathDueToFatalError` may close a stream that
`Close` has taken away (`path.go:334`, `crashed`); `NewPath` stores Ready over Failed (`path.go:181`), and leaves a path that it gives up
with the packer (`GiveUpPath`); the answer to one `AddRelay` may become the relay of another, with the address of the answer (`path_manager.go:229`); two
goroutines that relay data of one stream read one offset, so that their frames overlap and leave a hole (`path.go:742`); a packet within four bytes of the
limit ends the peer's reader (`reader.go:122`); a path that is added after `CloseAllPaths` stays open, or its registration with the closed packer panics (`late`, `crashed` in `Sessions`).

## 8. Not modelled

* `Packer.ResendRanges` has no caller; the metrics and log lines have no effect on the protocol.
* `SetWriteOffset` is called by the examples only; `PopFramesForStream` (reception buffers) has no caller.
* `Fin`: `finSent` is never assigned, so no frame carries it (the codec has the flag).
* Time: any pending packet may be due; timeouts are nondeterministic choices.
* The health loop (`path.go:550`) counts pings that nobody sends; only `GetMetrics` reads its flag.
* `StreamImpl`'s choice between paths.
* Listener: the wait for the port, and the counters.
* The data race on `p.paths` in the retransmit loop (read without the lock, `packer.go:395`) is modelled as reading the current value.
* The Go runtime's fatal error for concurrent map access (`AddPathToStream` takes no lock): the model gives each access its value.
* kwikhttp: requests and responses over one stream each. Both sides read with `io.Copy` up to the end of the stream (`kwikhttp/server.go:259`, `client.go:155`), which
  `RecvStream.Read` never reports because no frame carries `Fin`: as far as `src/` goes, every exchange ends with its timeout, and there is no
  completed request to model.
* QUIC itself, TLS, logging, configuration, the examples and benchmarks.

## 9. Plan

1. *Done*: `SendStream`, `Packer`, `RecvStream` against `ByteStream`, `Multiplexer`, `StreamOpening`, `Codec` and `Wire`, `PathLink`, `Sessions`, `Relay`; the safety
   properties of all of them proved, and the refinement of `ByteStream`.
2. `Delivery`: `Packer`, `Multiplexer` and `RecvStream` composed over a lossy, reordering path, as a refinement
   of a reliable stream as far as the code is one (section 7, 4 and 5), with the proof of the refinement.
3. Proofs to come: the safety that the liveness properties rest on, such as which goroutine can still take the step that a waiting one needs.
