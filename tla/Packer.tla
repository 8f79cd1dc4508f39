------------------------------- MODULE Packer -------------------------------
(***************************************************************************)
(* The packer of one session (internal/transport/packer.go): goroutines    *)
(* hand it control frames (SubmitFrame) or the bytes of a stream           *)
(* (StreamImpl.Write, Flush -> Path.SubmitSendStream ->                    *)
(* SubmitFromSendStream); it numbers packets per path, keeps them pending  *)
(* until they are acknowledged and writes them on the path.  A retransmit  *)
(* goroutine resends what is due, a flush goroutine drains the streams     *)
(* that still hold data, and Close stops both and releases the maps.       *)
(*                                                                         *)
(* One action is one critical section of p.mu, p.seqMu or the send         *)
(* stream's mutex, or one call that leaves the packer (WriteStream).       *)
(* Time is abstracted: any pending packet may be the next one that is due. *)
(* The per-path queue of SubmitFrame is not a variable: one lock hold      *)
(* appends the frame and removes all it finds (the break of line 104       *)
(* leaves the switch, not the loop), so it is empty whenever the lock is   *)
(* free and a packet of SubmitFrame carries exactly the submitted frame.   *)
(* The early return of lines 98-102, which leaves the queue as it is, is   *)
(* for a StreamFrame larger than a packet; the one caller that submits a   *)
(* StreamFrame (path.go:748) takes its data from a RelayData frame of 25   *)
(* bytes more that already came in a packet of at most that size.          *)
(***************************************************************************)
EXTENDS SendStream

CONSTANTS
    PathIDs,        \* paths the session may open
    StreamIDs,      \* logical streams, positive numbers
    Callers,        \* goroutines of the application, multiplexer and paths
    MaxPacketSize,  \* the argument of NewPacker
    MaxAttempts,    \* maxAttempts
    ControlSizes,   \* encoded sizes of the control frames each caller submits
    WriteSizes,     \* lengths of the application's writes
    MaxSeq,         \* bound: packets numbered per path
    MaxOffset       \* bound: bytes accepted per stream

CONSTANTS Flusher, NoPath, NoStream

ASSUME PackerConstants ==
    /\ MaxAttempts \in Nat /\ MaxAttempts >= 2
    /\ MaxSeq \in Nat /\ MaxPacketSize \in Nat
    /\ ControlSizes \in [Callers -> SUBSET Nat] /\ WriteSizes \subseteq Nat \ {0}
    /\ Flusher \notin Callers /\ NoPath \notin PathIDs /\ NoStream \notin StreamIDs

VARIABLES
    pathState,        \* state of each Path, as WriteStream and SubmitSendStream see it
    paths,            \* p.paths: the registered paths
    nextPacketSeq,    \* p.nextPacketSeq (a missing key reads as 0)
    pending,          \* p.pending; a missing key has 0 attempts
    bufferedStreams,  \* p.bufferedStreams
    send,             \* the SendStream of every stream
    streams,          \* streams the stream manager still knows
    sub,              \* where each goroutine stands in a submission
    rtx,              \* the retransmit goroutine
    flush,            \* the flush goroutine's snapshot: entries still to visit
    stopping,         \* stopCh is closed
    closed,           \* Close has set the maps to nil
    panicked,         \* a goroutine wrote to a nil map: no one recovers, the process is gone
    wire,             \* history: packets written on a path
    acked,            \* history: packets whose acknowledgement was processed
    packed,           \* history: packets of stream frames that entered the pending table
    written           \* history: chunks whose Write returned without error

pathVars == <<pathState, paths, nextPacketSeq>>
streamVars == <<send, streams, written>>
loopVars == <<rtx, flush>>
closeVars == <<stopping, closed, panicked>>
vars == <<pathVars, pending, bufferedStreams, streamVars, sub, loopVars,
          closeVars, wire, acked, packed>>

Seqs == 1 .. MaxSeq
Threads == Callers \cup {Flusher}
Keys == PathIDs \X Seqs

Frame == [sid : StreamIDs \cup {NoStream}, from : Nat, to : Nat]
ControlFrame(n) == [sid |-> NoStream, from |-> 0, to |-> n]

\* pendingPacket; attempts = 0 stands for "no such key in the map".
PendingPacket == [attempts : 0 .. MaxAttempts, frames : SUBSET Frame]
Absent == [attempts |-> 0, frames |-> {}]
IsPending(k) == pending[k].attempts > 0

\* A goroutine's local variables during a submission.
Idle == [pc |-> "idle", pid |-> NoPath, frames |-> {}, seq |-> 0,
         chunk |-> ControlFrame(0)]

RtxIdle == [pc |-> "idle", tasks |-> {}, key |-> <<NoPath, 0>>]

Init ==
    /\ pathState = [p \in PathIDs |-> "none"]
    /\ paths = {}
    /\ nextPacketSeq = [p \in PathIDs |-> 0]
    /\ pending = [k \in Keys |-> Absent]
    /\ bufferedStreams = [s \in StreamIDs |-> NoPath]
    /\ send = [s \in StreamIDs |-> NewSendStream]
    /\ streams = StreamIDs
    /\ sub = [t \in Threads |-> Idle]
    /\ rtx = RtxIdle
    /\ flush = {}
    /\ stopping = FALSE /\ closed = FALSE /\ panicked = FALSE
    /\ wire = {} /\ acked = {} /\ packed = {} /\ written = {}

(***************************************************************************)
(* Paths                                                                   *)
(***************************************************************************)

\* RegisterPath: a no-op for a registered path; a write to a nil map panics.
Register(p) ==
    /\ paths' = IF closed THEN paths ELSE paths \cup {p}
    /\ panicked' = (panicked \/ (closed /\ p \notin paths))
    /\ UNCHANGED nextPacketSeq

\* NewPath registers the path before its transport stream exists.
NewPath(p) ==
    /\ ~panicked
    /\ pathState[p] = "none"
    /\ pathState' = [pathState EXCEPT ![p] = "connecting"]
    /\ Register(p)
    /\ UNCHANGED <<pending, bufferedStreams, streamVars, sub, loopVars, stopping,
                   closed, wire, acked, packed>>

PathReady(p) ==
    /\ ~panicked
    /\ pathState[p] = "connecting"
    /\ pathState' = [pathState EXCEPT ![p] = "ready"]
    /\ UNCHANGED <<paths, nextPacketSeq, pending, bufferedStreams, streamVars, sub,
                   loopVars, closeVars, wire, acked, packed>>

\* StreamImpl.AddPath registers again whatever path it is given, even a closed one.
StreamAddPath(p) ==
    /\ ~panicked
    /\ pathState[p] # "none" /\ p \notin paths
    /\ Register(p)
    /\ UNCHANGED <<pathState, pending, bufferedStreams, streamVars, sub, loopVars,
                   stopping, closed, wire, acked, packed>>

\* Path.Close sets the state first.  A failed NewPath and a fatal error
\* (closePathDueToFatalError) end in Failed and never reach UnregisterPath.
PathDown(p, final) ==
    /\ ~panicked
    /\ pathState[p] = "ready" \/ (pathState[p] = "connecting" /\ final = "failed")
    /\ pathState' = [pathState EXCEPT ![p] = final]
    /\ UNCHANGED <<paths, nextPacketSeq, pending, bufferedStreams, streamVars, sub,
                   loopVars, closeVars, wire, acked, packed>>

\* A writer of the path holds its stream lock for ever: QUIC does not take its bytes,
\* or the write failed without being fatal and recovers the stream under the lock
\* (module PathLink).
Stuck(p) ==
    \/ \E t \in Threads : sub[t].pc = "hung" /\ sub[t].pid = p
    \/ rtx.pc = "hung" /\ rtx.key[1] = p

\* Path.WriteStream takes effect when it reads the state: it can only succeed while the
\* path is Ready.  (The bytes may leave later, but Path.Close takes the transport
\* stream away before it unregisters the path.)  Behind a stuck writer it waits for ever.
WriteOutcome(p) ==
    CASE pathState[p] # "ready" -> {"err"}
      [] pathState[p] = "ready" /\ Stuck(p) -> {"hang"}
      [] OTHER -> {"ok", "err", "hang"}

\* Mutant: Path.Close unregisters before it changes the path's state.
LeavesEarly(p) == pathState[p] # "none" /\ p \in paths

\* Path.Close has come past the stream lock.
Leaves(p) == pathState[p] = "closed" /\ p \in paths /\ ~Stuck(p)

\* UnregisterPath, the last thing Path.Close does to the packer.
UnregisterPath(p) ==
    /\ ~panicked
    /\ Leaves(p)
    /\ paths' = paths \ {p}
    /\ pending' = [k \in Keys |-> IF k[1] = p THEN Absent ELSE pending[k]]
    /\ nextPacketSeq' = [nextPacketSeq EXCEPT ![p] = 0]
    /\ UNCHANGED <<pathState, bufferedStreams, streamVars, sub, loopVars, closeVars,
                   wire, acked, packed>>

(***************************************************************************)
(* Submission                                                              *)
(***************************************************************************)

\* The flush goroutine goes on with its loop, any other caller returns.
Return(t) == [sub EXCEPT ![t] = IF t = Flusher THEN [Idle EXCEPT !.pc = "flushed",
                                                       !.pid = sub[t].pid,
                                                       !.chunk = sub[t].chunk]
                                              ELSE Idle]

\* SubmitFrame, first lock hold: the frame goes through the queue into a packet.
SubmitFrame(t, p, n) ==
    /\ ~panicked
    /\ sub[t].pc = "idle" /\ pathState[p] # "none"
    /\ \/ /\ ~closed
          /\ sub' = [sub EXCEPT ![t] = [Idle EXCEPT !.pc = "seq", !.pid = p,
                                                    !.frames = {ControlFrame(n)}]]
          /\ UNCHANGED panicked
       \/ /\ closed
          /\ panicked' = TRUE
          /\ UNCHANGED sub
    /\ UNCHANGED <<pathVars, pending, bufferedStreams, streamVars, loopVars, stopping,
                   closed, wire, acked, packed>>

\* StreamImpl.Write buffers the chunk, then asks the primary path to submit.
StreamWrite(t, p, s, n) ==
    /\ ~panicked
    /\ sub[t].pc = "idle" /\ pathState[p] \notin {"none", "connecting"} /\ s \in streams
    /\ send[s].writeOffset + n <= MaxOffset
    /\ send' = [send EXCEPT ![s] = BufferWrite(@, n)]
    /\ sub' = [sub EXCEPT ![t] = [Idle EXCEPT !.pc = "submit", !.pid = p,
                  !.chunk = [sid |-> s, from |-> send[s].writeOffset,
                             to |-> send[s].writeOffset + n]]]
    /\ UNCHANGED <<pathVars, pending, bufferedStreams, streams, written, loopVars,
                   closeVars, wire, acked, packed>>

\* StreamImpl.Flush: the same without data of its own.
StreamFlush(t, p, s) ==
    /\ ~panicked
    /\ sub[t].pc = "idle" /\ pathState[p] \notin {"none", "connecting"} /\ s \in streams
    /\ HasBuffered(send[s])
    /\ sub' = [sub EXCEPT ![t] = [Idle EXCEPT !.pc = "submit", !.pid = p,
                  !.chunk = [sid |-> s, from |-> 0, to |-> 0]]]
    /\ UNCHANGED <<pathVars, pending, bufferedStreams, streamVars, loopVars, closeVars,
                   wire, acked, packed>>

\* Write returns without error: its chunk counts as written.
Succeed(t) ==
    /\ sub' = Return(t)
    /\ written' = IF t # Flusher /\ sub[t].chunk.from < sub[t].chunk.to
                  THEN written \cup {sub[t].chunk} ELSE written

\* Path.SubmitSendStream refuses unless the path is Ready.  A Write whose data another
\* goroutine has popped meanwhile need not call it (shouldFlushSendStream).
SubmitSendStream(t) ==
    /\ ~panicked
    /\ sub[t].pc = "submit"
    /\ \/ /\ sub' = IF pathState[sub[t].pid] = "ready" THEN [sub EXCEPT ![t].pc = "pop"]
                                                       ELSE Return(t)
          /\ UNCHANGED written
       \/ /\ sub[t].chunk.from < sub[t].chunk.to /\ ~HasBuffered(send[sub[t].chunk.sid])
          /\ Succeed(t)
    /\ UNCHANGED <<pathVars, pending, bufferedStreams, send, streams, loopVars, closeVars,
                   wire, acked, packed>>

\* SubmitFromSendStream up to the packet: pop from the provider and pack.  What
\* was popped and is not packed is gone.
PopAndPack(t) ==
    LET s == sub[t].chunk.sid
        frames == PopFrames(send[s], s, MaxPacketSize)
        fit == PackedFrames(frames, MaxPacketSize)
    IN  /\ ~panicked
        /\ sub[t].pc = "pop"
        /\ \/ /\ s \notin streams \/ ~HasBuffered(send[s])
              /\ Succeed(t)
              /\ UNCHANGED send
           \/ /\ s \in streams /\ HasBuffered(send[s])
              /\ send' = [send EXCEPT ![s] = AfterPop(@, MaxPacketSize)]
              /\ sub' = IF FrameTooLarge(frames, MaxPacketSize) THEN Return(t)
                        ELSE [sub EXCEPT ![t].pc = "seq", ![t].frames = fit]
              /\ UNCHANGED written
        /\ UNCHANGED <<pathVars, pending, bufferedStreams, streams, loopVars, closeVars,
                       wire, acked, packed>>

\* Length of the serialised packet.
PacketSize(frames) ==
    IF \E f \in frames : f.sid = NoStream
    THEN PacketOverhead + (CHOOSE f \in frames : TRUE).to
    ELSE StreamPacketSize(frames)

\* The packet number is taken under seqMu, then the packet is serialised; an
\* oversized one is refused and its number is never used.
AssignSeq(t) ==
    LET p == sub[t].pid
        n == nextPacketSeq[p] + 1
    IN  /\ ~panicked
        /\ sub[t].pc = "seq"
        /\ n \in Seqs
        /\ nextPacketSeq' = [nextPacketSeq EXCEPT ![p] = n]
        /\ sub' = IF PacketSize(sub[t].frames) > MaxPacketSize THEN Return(t)
                  ELSE [sub EXCEPT ![t].pc = "check", ![t].seq = n]
        /\ UNCHANGED <<pathState, paths, pending, bufferedStreams, streamVars, loopVars,
                       closeVars, wire, acked, packed>>

CheckPath(t) ==
    /\ ~panicked
    /\ sub[t].pc = "check"
    /\ sub' = IF sub[t].pid \in paths THEN [sub EXCEPT ![t].pc = "register"]
                                      ELSE Return(t)
    /\ UNCHANGED <<pathVars, pending, bufferedStreams, streamVars, loopVars, closeVars,
                   wire, acked, packed>>

OnWire(k, frames) == [pid |-> k[1], seq |-> k[2], frames |-> frames]

\* The packet enters the pending table before it is written.
RegisterPending(t) ==
    LET k == <<sub[t].pid, sub[t].seq>>
    IN  /\ ~panicked
        /\ sub[t].pc = "register"
        /\ \/ /\ ~closed
              /\ pending' = [pending EXCEPT ![k] =
                     [attempts |-> 1, frames |-> sub[t].frames]]
              /\ packed' = IF sub[t].chunk.sid = NoStream THEN packed
                           ELSE packed \cup {OnWire(k, sub[t].frames)}
              /\ sub' = [sub EXCEPT ![t].pc = "write"]
              /\ UNCHANGED panicked
           \/ /\ closed
              /\ panicked' = TRUE
              /\ UNCHANGED <<pending, packed, sub>>
        /\ UNCHANGED <<pathVars, bufferedStreams, streamVars, loopVars, stopping, closed,
                       wire, acked>>

\* A failed write is reported to the caller; the packet stays pending.  A write that
\* hangs keeps its goroutine for ever.
WritePacket(t) ==
    LET k == <<sub[t].pid, sub[t].seq>>
    IN  /\ ~panicked
        /\ sub[t].pc = "write"
        /\ \E r \in WriteOutcome(sub[t].pid) :
             /\ wire' = IF r = "ok" THEN wire \cup {OnWire(k, sub[t].frames)} ELSE wire
             /\ sub' = CASE r = "hang" -> [sub EXCEPT ![t].pc = "hung"]
                         [] r = "ok" /\ sub[t].chunk.sid # NoStream ->
                                [sub EXCEPT ![t].pc = "more"]
                         [] OTHER -> Return(t)
        /\ UNCHANGED <<pathVars, pending, bufferedStreams, streamVars, loopVars,
                       closeVars, acked, packed>>

\* SubmitFromSendStream reads HasBuffered ...
CheckBuffered(t) ==
    /\ ~panicked
    /\ sub[t].pc = "more"
    /\ \/ /\ HasBuffered(send[sub[t].chunk.sid])
          /\ sub' = [sub EXCEPT ![t].pc = "schedule"]
          /\ UNCHANGED written
       \/ /\ ~HasBuffered(send[sub[t].chunk.sid])
          /\ Succeed(t)
    /\ UNCHANGED <<pathVars, pending, bufferedStreams, send, streams, loopVars,
                   closeVars, wire, acked, packed>>

\* ... and schedules the stream in a second critical section.
ScheduleFlush(t) ==
    /\ ~panicked
    /\ sub[t].pc = "schedule"
    /\ \/ /\ ~closed
          /\ bufferedStreams' = [bufferedStreams EXCEPT ![sub[t].chunk.sid] = sub[t].pid]
          /\ Succeed(t)
          /\ UNCHANGED panicked
       \/ /\ closed
          /\ panicked' = TRUE
          /\ UNCHANGED <<bufferedStreams, sub, written>>
    /\ UNCHANGED <<pathVars, pending, send, streams, loopVars, stopping, closed, wire,
                   acked, packed>>

(***************************************************************************)
(* Acknowledgements and cancellation                                       *)
(***************************************************************************)

\* The multiplexer passes on acknowledgements of packets the peer received.
OnAck(p, ack) ==
    /\ ~panicked
    /\ ack # {} /\ ack \subseteq {w.seq : w \in {v \in wire : v.pid = p}}
    /\ pending' = [k \in Keys |-> IF k[1] = p /\ k[2] \in ack THEN Absent ELSE pending[k]]
    /\ acked' = acked \cup ({p} \X ack)
    /\ UNCHANGED <<pathVars, bufferedStreams, streamVars, sub, loopVars, closeVars, wire,
                   packed>>

\* The stream manager forgets the stream.
CloseStream(s) ==
    /\ ~panicked
    /\ s \in streams
    /\ streams' = streams \ {s}
    /\ UNCHANGED <<pathVars, pending, bufferedStreams, send, written, sub, loopVars,
                   closeVars, wire, acked, packed>>

\* CancelFramesForStream drops the stream's packets on every path.  It runs
\* asynchronously after a stream or any path that carries it is closed, and also
\* after a CloseStream that failed half way and left the stream in place.
CancelFramesForStream(s) ==
    /\ ~panicked
    /\ \E k \in Keys : \E f \in pending[k].frames : f.sid = s
    /\ pending' = [k \in Keys |->
           IF \E f \in pending[k].frames : f.sid = s THEN Absent ELSE pending[k]]
    /\ UNCHANGED <<pathVars, bufferedStreams, streamVars, sub, loopVars, closeVars, wire,
                   acked, packed>>

(***************************************************************************)
(* The retransmit goroutine                                                *)
(***************************************************************************)

\* Mutant: the attempt is not counted.
NotCounted(entry) == entry

Counted(entry) == [entry EXCEPT !.attempts = @ + 1]

\* Wake up, collect the packets whose nextRetry has passed and count the attempt.
\* stopCh may close between the loop's test of it and this lock hold, so stopping
\* does not forbid a pass.
RtxCollect(due) ==
    LET expired == {k \in due : pending[k].attempts >= MaxAttempts}
        tasks == due \ expired
    IN  /\ ~panicked
        /\ rtx.pc = "idle" /\ due # {}
        /\ \A k \in due : IsPending(k)
        /\ pending' = [k \in Keys |->
               IF k \in expired THEN Absent
               ELSE IF k \in tasks THEN Counted(pending[k])
               ELSE pending[k]]
        /\ rtx' = [rtx EXCEPT !.pc = IF tasks = {} THEN "idle" ELSE "write",
                              !.tasks = {OnWire(k, pending[k].frames) : k \in tasks}]
        /\ UNCHANGED <<pathVars, bufferedStreams, streamVars, sub, flush, closeVars, wire,
                       acked, packed>>

\* Write one task outside the lock; an unregistered path counts as success.
RtxWrite ==
    /\ ~panicked
    /\ rtx.pc = "write"
    /\ \E w \in rtx.tasks :
         \E r \in IF w.pid \in paths THEN WriteOutcome(w.pid) ELSE {"err"} :
              /\ wire' = IF r = "ok" THEN wire \cup {w} ELSE wire
              /\ rtx' = [rtx EXCEPT !.pc = IF r = "hang" THEN "hung" ELSE "update",
                                    !.key = <<w.pid, w.seq>>, !.tasks = @ \ {w}]
    /\ UNCHANGED <<pathVars, pending, bufferedStreams, streamVars, sub, flush, closeVars,
                   acked, packed>>

\* Mutants: the last attempt is not the end; the entry is written back although it
\* may have been acknowledged meanwhile.
RescheduledForEver(entry) == entry
RescheduledBlindly(entry) ==
    IF entry.attempts = 0 THEN [entry EXCEPT !.attempts = 1] ELSE entry

\* An entry still pending is rescheduled, or dropped after the last attempt.
Rescheduled(entry) ==
    IF entry.attempts = 0 \/ entry.attempts >= MaxAttempts THEN Absent ELSE entry

RtxUpdate ==
    /\ ~panicked
    /\ rtx.pc = "update"
    /\ pending' = [pending EXCEPT ![rtx.key] = Rescheduled(@)]
    /\ rtx' = [rtx EXCEPT !.pc = IF rtx.tasks = {} THEN "idle" ELSE "write",
                          !.key = <<NoPath, 0>>]
    /\ UNCHANGED <<pathVars, bufferedStreams, streamVars, sub, flush, closeVars, wire,
                   acked, packed>>

\* Mutant: stopCh is only looked at between two tasks.
RtxStopBusy ==
    /\ ~panicked
    /\ stopping /\ rtx.pc = "write"
    /\ rtx' = [rtx EXCEPT !.pc = "stopped", !.tasks = {}]
    /\ UNCHANGED <<pathVars, pending, bufferedStreams, streamVars, sub, flush, closeVars,
                   wire, acked, packed>>

RtxStop ==
    /\ ~panicked
    /\ stopping /\ rtx.pc = "idle"
    /\ rtx' = [rtx EXCEPT !.pc = "stopped"]
    /\ UNCHANGED <<pathVars, pending, bufferedStreams, streamVars, sub, flush, closeVars,
                   wire, acked, packed>>

(***************************************************************************)
(* The flush goroutine; its submission runs as thread Flusher              *)
(***************************************************************************)

\* Mutant: deleted entries are visited too.
ScheduledOnce == StreamIDs

Scheduled == {s \in StreamIDs : bufferedStreams[s] # NoPath}

\* The ticker fires: snapshot bufferedStreams (an empty one changes nothing).
FlushTick ==
    /\ ~panicked
    /\ sub[Flusher].pc = "idle" /\ flush = {}
    /\ flush' = {<<s, bufferedStreams[s]>> : s \in Scheduled}
    /\ flush' # {}
    /\ UNCHANGED <<pathVars, pending, bufferedStreams, streamVars, sub, rtx, closeVars,
                   wire, acked, packed>>

\* Next entry: submit it if its path is still registered, else forget it.
FlushVisit ==
    /\ ~panicked
    /\ sub[Flusher].pc = "idle"
    /\ \E e \in flush :
         /\ flush' = flush \ {e}
         /\ sub' = [sub EXCEPT ![Flusher] =
                [Idle EXCEPT !.pc = IF e[2] \in paths THEN "pop" ELSE "unschedule",
                             !.pid = e[2],
                             !.chunk = [sid |-> e[1], from |-> 0, to |-> 0]]]
    /\ UNCHANGED <<pathVars, pending, bufferedStreams, streamVars, rtx, closeVars, wire,
                   acked, packed>>

\* Mutant: a stream is taken off the schedule after one attempt.
AttemptedOnce(s) == TRUE

\* After the attempt: no provider, or one without data.
Drained(s) == s \notin streams \/ ~HasBuffered(send[s])

FlushCheck ==
    LET s == sub[Flusher].chunk.sid
    IN  /\ ~panicked
        /\ sub[Flusher].pc = "flushed"
        /\ sub' = [sub EXCEPT ![Flusher] =
               IF Drained(s) THEN [@ EXCEPT !.pc = "unschedule"] ELSE Idle]
        /\ UNCHANGED <<pathVars, pending, bufferedStreams, streamVars, loopVars,
                       closeVars, wire, acked, packed>>

\* The entry is deleted in a lock hold of its own.
FlushUnschedule ==
    /\ ~panicked
    /\ sub[Flusher].pc = "unschedule"
    /\ bufferedStreams' = [bufferedStreams EXCEPT ![sub[Flusher].chunk.sid] = NoPath]
    /\ sub' = [sub EXCEPT ![Flusher] = Idle]
    /\ UNCHANGED <<pathVars, pending, streamVars, loopVars, closeVars, wire, acked,
                   packed>>

FlushStop ==
    /\ ~panicked
    /\ stopping /\ sub[Flusher].pc = "idle" /\ flush = {}
    /\ sub' = [sub EXCEPT ![Flusher].pc = "stopped"]
    /\ UNCHANGED <<pathVars, pending, bufferedStreams, streamVars, loopVars, closeVars,
                   wire, acked, packed>>

(***************************************************************************)
(* Close, by the session after CloseAllPaths; an AddPath request may still *)
(* open another path                                                       *)
(***************************************************************************)

Close ==
    /\ ~panicked
    /\ ~stopping
    /\ stopping' = TRUE
    /\ UNCHANGED <<pathVars, pending, bufferedStreams, streamVars, sub, loopVars, closed,
                   panicked, wire, acked, packed>>

\* wg.Wait() returned: the maps become nil, which reads as empty.
CloseRelease ==
    /\ ~panicked
    /\ stopping /\ ~closed
    /\ rtx.pc = "stopped" /\ sub[Flusher].pc = "stopped"
    /\ closed' = TRUE
    /\ paths' = {}
    /\ pending' = [k \in Keys |-> Absent]
    /\ bufferedStreams' = [s \in StreamIDs |-> NoPath]
    /\ UNCHANGED <<pathState, nextPacketSeq, streamVars, sub, loopVars, stopping,
                   panicked, wire, acked, packed>>

(***************************************************************************)
(* Specification                                                           *)
(***************************************************************************)

PathStep(p) ==
    \/ NewPath(p) \/ PathReady(p) \/ StreamAddPath(p) \/ UnregisterPath(p)
    \/ \E final \in {"closed", "failed"} : PathDown(p, final)
    \/ \E s \in SUBSET Seqs : OnAck(p, s)

StreamStep(s) == CloseStream(s) \/ CancelFramesForStream(s)

Start(t, p) ==
    \/ \E n \in ControlSizes[t] : SubmitFrame(t, p, n)
    \/ \E s \in StreamIDs : StreamFlush(t, p, s) \/ \E n \in WriteSizes : StreamWrite(t, p, s, n)

Progress(t) ==
    \/ SubmitSendStream(t) \/ PopAndPack(t) \/ AssignSeq(t) \/ CheckPath(t)
    \/ RegisterPending(t) \/ WritePacket(t) \/ CheckBuffered(t) \/ ScheduleFlush(t)

RtxStep == (\E due \in SUBSET Keys : RtxCollect(due)) \/ RtxWrite \/ RtxUpdate

FlushStep == FlushTick \/ FlushVisit \/ FlushCheck \/ FlushUnschedule \/ FlushStop

Next ==
    \/ \E p \in PathIDs : PathStep(p)
    \/ \E s \in StreamIDs : StreamStep(s)
    \/ \E t \in Callers, p \in PathIDs : Start(t, p)
    \/ \E t \in Threads : Progress(t)
    \/ RtxStep \/ RtxStop \/ FlushStep
    \/ Close \/ CloseRelease

Spec == Init /\ [][Next]_vars

\* The Go scheduler runs every goroutine, timers fire, and a select with a
\* closed stopCh does not ignore it forever.
Fairness ==
    /\ WF_vars(RtxWrite \/ RtxUpdate)
    /\ WF_vars(FlushVisit \/ FlushCheck \/ FlushUnschedule)
    /\ WF_vars(FlushTick)
    /\ SF_vars(RtxStop) /\ SF_vars(FlushStop)
    /\ WF_vars(CloseRelease)
    /\ \A t \in Threads : WF_vars(Progress(t))
    /\ \A k \in Keys : SF_vars(\E due \in SUBSET Keys : k \in due /\ RtxCollect(due))

FairSpec == Spec /\ Fairness

-----------------------------------------------------------------------------
(***************************************************************************)
(* Properties                                                              *)
(***************************************************************************)

Packet == [pid : PathIDs, seq : Seqs, frames : SUBSET Frame]

\* Every variable has the shape the source gives it.
TypeOK ==
    /\ pathState \in [PathIDs -> {"none", "connecting", "ready", "closed", "failed"}]
    /\ paths \subseteq PathIDs
    /\ nextPacketSeq \in [PathIDs -> 0 .. MaxSeq]
    /\ pending \in [Keys -> PendingPacket]
    /\ bufferedStreams \in [StreamIDs -> PathIDs \cup {NoPath}]
    /\ send \in [StreamIDs -> SendBuffer]
    /\ streams \subseteq StreamIDs
    /\ sub \in [Threads -> [pc : {"idle", "submit", "pop", "seq", "check", "register",
                                  "write", "more", "schedule", "flushed", "unschedule",
                                  "stopped", "hung"},
                            pid : PathIDs \cup {NoPath}, frames : SUBSET Frame,
                            seq : 0 .. MaxSeq, chunk : Frame]]
    /\ rtx \in [pc : {"idle", "write", "update", "stopped", "hung"},
                tasks : SUBSET Packet, key : Keys \cup {<<NoPath, 0>>}]
    /\ flush \subseteq StreamIDs \X PathIDs
    /\ stopping \in BOOLEAN /\ closed \in BOOLEAN /\ panicked \in BOOLEAN
    /\ wire \subseteq Packet
    /\ acked \subseteq Keys
    /\ packed \subseteq Packet /\ written \subseteq Frame

\* A packet number names one packet: whatever mixture of first transmissions
\* and retransmissions put (path, seq) on the wire, it always carried the
\* same frames.  Packet numbers restart when a closed path is registered again
\* (UnregisterPath deletes the counter), so this rests on Path.Close changing the
\* state before it unregisters.
WireIdentity ==
    \A v, w \in wire : v.pid = w.pid /\ v.seq = w.seq => v.frames = w.frames

\* Once OnAck has processed a packet's acknowledgement it does not come back to the
\* pending table of a live path, although the submitter, the acknowledgement and the
\* retransmit goroutine run concurrently: the packet is registered before it is
\* written.
AckedNotPending ==
    \A k \in acked : IsPending(k) => pathState[k[1]] \in {"closed", "failed"}

\* The retransmit goroutine gives up in time: a packet that has used its last
\* attempt is one it is still working on, never one left in the table.
AttemptsBounded ==
    \A k \in Keys : pending[k].attempts >= MaxAttempts =>
        \/ rtx.key = k
        \/ \E w \in rtx.tasks : <<w.pid, w.seq>> = k

\* No byte of a stream is put in two different packets, whoever submits: the
\* writers, Flush and the flush goroutine pop concurrently.
BytesPackedOnce ==
    \A v, w \in packed : \A f \in v.frames, g \in w.frames :
        f.sid = g.sid /\ <<v, f>> # <<w, g>> => BytesOf({f}) \cap BytesOf({g}) = {}

InFlight(s) == UNION {sub[t].frames : t \in {u \in Threads : sub[u].chunk.sid = s}}
Unsent(s) == (send[s].base + 1) .. send[s].writeOffset

\* What StreamImpl.Write reported as written is not lost on the way to the
\* pending table: it has been packed, is being packed, or still waits in the
\* send stream.
WrittenIsKept ==
    \A c \in written :
        BytesOf({c}) \subseteq Unsent(c.sid)
            \cup BytesOf({f \in InFlight(c.sid) \cup UNION {v.frames : v \in packed} : f.sid = c.sid})

\* On a path that works, data that stays in a send stream when the submissions on
\* it have ended, the last Write successfully, is scheduled for the flush goroutine.
\* Not kept: README, section 7.
LeftoverIsScheduled ==
    \A s \in streams :
        /\ HasBuffered(send[s]) /\ ~stopping
        /\ \E c \in written : c.sid = s /\ c.to = send[s].writeOffset
        /\ \A t \in Threads : sub[t].chunk.sid # s
        /\ \A e \in flush : e[1] # s
        /\ \A p \in PathIDs : pathState[p] = "ready"
        /\ packed \subseteq wire
        => bufferedStreams[s] # NoPath

\* Every pending packet is acknowledged, cancelled or given up; it is never
\* retransmitted for ever.  The retransmit goroutine serves all paths: a write that
\* hangs on one of them ends this.
PendingResolved ==
    \A k \in Keys : IsPending(k) ~> (~IsPending(k) \/ stopping \/ rtx.pc = "hung")

\* The flush goroutine found s drained and is about to delete its entry; what is
\* written and scheduled meanwhile is forgotten (README, section 7).
Forgetting(s) == sub[Flusher].pc = "unschedule" /\ sub[Flusher].chunk.sid = s

\* The entry of s, or the one in the flush goroutine's snapshot, names a path that has
\* been unregistered: the flush goroutine deletes it and leaves the data.
PathGone(s) ==
    \/ bufferedStreams[s] \in PathIDs \ paths
    \/ \E e \in flush : e[1] = s /\ e[2] \notin paths

\* A scheduled stream is drained: its data leaves the send stream, by whatever order of
\* flushes and concurrent writers, and it is not taken off the schedule before.  The
\* writes are bounded, so a stream that is never empty again has data that stays.
\* (Where a popped byte goes is what WrittenIsKept is about.)
FlushDrains ==
    \A s \in StreamIDs :
        bufferedStreams[s] # NoPath /\ HasBuffered(send[s]) /\ ~Forgetting(s) ~>
            \/ ~HasBuffered(send[s])
            \/ s \notin streams \/ PathGone(s)
            \/ stopping \/ panicked \/ sub[Flusher].pc = "hung"

\* Close returns: neither background goroutine keeps wg.Wait() waiting, except one
\* that hangs in a write, for which Close has no timeout (packer.go:577).
CloseReturns ==
    stopping ~> (closed \/ panicked \/ rtx.pc = "hung" \/ sub[Flusher].pc = "hung")

=============================================================================
