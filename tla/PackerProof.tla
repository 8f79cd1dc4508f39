---------------------------- MODULE PackerProof ----------------------------
(***************************************************************************)
(* Proofs about the packer, for every choice of its constants.             *)
(***************************************************************************)
EXTENDS Packer, TLAPS

(***************************************************************************)
(* Type correctness.  TypeOK alone is not inductive: a goroutine about to  *)
(* register or write a packet must hold a real path and packet number.     *)
(***************************************************************************)

\* The places of a goroutine inside a submission, and those where it holds a packet number.
Submitting == {"submit", "pop", "seq", "check", "register", "write", "more", "schedule"}
Numbered == {"check", "register", "write"}

\* A submission has a path, and a number once it has taken one.
SubOK ==
    \A t \in Threads :
        /\ sub[t].pc \in Submitting => sub[t].pid \in PathIDs
        /\ sub[t].pc \in Numbered => sub[t].seq \in Seqs

\* The inductive type invariant.
TypeInv == TypeOK /\ SubOK

\* All places, and the record of a goroutine's locals.
PCs == {"idle", "submit", "pop", "seq", "check", "register", "write", "more", "schedule",
        "flushed", "unschedule", "stopped", "hung"}
SubRecord == [pc : PCs, pid : PathIDs \cup {NoPath}, frames : SUBSET Frame,
              seq : 0 .. MaxSeq, chunk : Frame]

\* The records the model starts from have their types.
LEMMA InitialRecords ==
    /\ Idle \in SubRecord
    /\ Absent \in PendingPacket
    /\ NewSendStream \in SendBuffer
    /\ \A n \in Nat : ControlFrame(n) \in Frame
<1>1. \A n \in Nat : ControlFrame(n) \in Frame
  BY DEF ControlFrame, Frame
<1>2. Idle \in SubRecord
  BY <1>1, PackerConstants DEF Idle, SubRecord, PCs
<1>3. Absent \in PendingPacket
  BY PackerConstants DEF Absent, PendingPacket
<1>4. NewSendStream \in SendBuffer
  BY DEF NewSendStream, SendBuffer
<1> QED BY <1>1, <1>2, <1>3, <1>4

\* The initial state is well typed.
LEMMA InitTypeInv == Init => TypeInv
<1> SUFFICES ASSUME Init PROVE TypeInv
  OBVIOUS
<1>1. sub \in [Threads -> SubRecord]
  BY InitialRecords DEF Init
<1>2. pending \in [Keys -> PendingPacket] /\ send \in [StreamIDs -> SendBuffer]
  BY InitialRecords DEF Init
<1>3. SubOK
  BY DEF Init, SubOK, Idle, Submitting, Numbered
<1>4. rtx \in [pc : {"idle", "write", "update", "stopped", "hung"},
               tasks : SUBSET Packet, key : Keys \cup {<<NoPath, 0>>}]
  BY DEF Init, RtxIdle
<1>5. nextPacketSeq \in [PathIDs -> 0 .. MaxSeq]
  BY PackerConstants DEF Init
<1> QED
  BY <1>1, <1>2, <1>3, <1>4, <1>5 DEF Init, TypeInv, TypeOK, SubRecord, PCs

\* The locals of the goroutines, as TypeOK states them.
LEMMA SubType == TypeOK => sub \in [Threads -> SubRecord]
BY DEF TypeOK, SubRecord, PCs

\* Returning from a submission leaves well-typed local variables.
LEMMA ReturnType ==
    ASSUME TypeInv, NEW t \in Threads
    PROVE  /\ Return(t) \in [Threads -> SubRecord]
           /\ \A u \in Threads : u # t => Return(t)[u] = sub[u]
           /\ Return(t)[t].pc \in {"idle", "flushed"}
<1>1. sub \in [Threads -> SubRecord]
  BY SubType DEF TypeInv
<1>2. sub[t].pid \in PathIDs \cup {NoPath} /\ sub[t].chunk \in Frame
  BY <1>1 DEF SubRecord
<1>3. [Idle EXCEPT !.pc = "flushed", !.pid = sub[t].pid, !.chunk = sub[t].chunk] \in SubRecord
  BY <1>2, InitialRecords DEF Idle, SubRecord, PCs
<1> QED
  BY <1>1, <1>3, InitialRecords DEF Return, Idle

\* A Write leaves a well-formed send stream.
LEMMA WriteType ==
    ASSUME NEW buf \in SendBuffer, NEW n \in Nat
    PROVE  BufferWrite(buf, n) \in SendBuffer
<1>1. buf.writeOffset + n \in Nat /\ buf.ends \cup {buf.writeOffset + n} \in SUBSET Nat
  BY DEF SendBuffer
<1> QED
  BY <1>1 DEF BufferWrite, SendBuffer

\* What pops out of a send stream, and what is left in it.
LEMMA PopType ==
    ASSUME NEW buf \in SendBuffer, NEW s \in StreamIDs
    PROVE  /\ PopFrames(buf, s, MaxPacketSize) \subseteq Frame
           /\ AfterPop(buf, MaxPacketSize) \in SendBuffer
<1>1. PopLimit(buf, MaxPacketSize) \in Nat
  BY PackerConstants DEF PopLimit, SendBuffer
<1>2. AfterPop(buf, MaxPacketSize) \in SendBuffer
  BY <1>1 DEF AfterPop, SendBuffer
<1>3. \A f \in PopFrames(buf, s, MaxPacketSize) : f \in [sid : {s}, from : Nat, to : Nat]
  BY <1>1 DEF PopFrames, SendBuffer
<1> QED
  BY <1>2, <1>3 DEF Frame

(***************************************************************************)
(* One lemma per group of actions: what a step must re-establish is named  *)
(* by the variables it changes.                                            *)
(***************************************************************************)

\* Steps of a path and of acknowledgements.
LEMMA PathStepTypeInv ==
    ASSUME TypeInv, NEW p \in PathIDs, PathStep(p)
    PROVE  TypeInv'
<1> USE DEF pathVars, streamVars, loopVars, closeVars
<1>1. CASE NewPath(p)
  BY <1>1 DEF NewPath, Register, TypeInv, TypeOK, SubOK
<1>2. CASE PathReady(p)
  BY <1>2 DEF PathReady, TypeInv, TypeOK, SubOK
<1>3. CASE StreamAddPath(p)
  BY <1>3 DEF StreamAddPath, Register, TypeInv, TypeOK, SubOK
<1>4. CASE UnregisterPath(p)
  BY <1>4, InitialRecords, PackerConstants DEF UnregisterPath, Leaves, TypeInv, TypeOK, SubOK
<1>5. ASSUME NEW final \in {"closed", "failed"}, PathDown(p, final)
      PROVE  TypeInv'
  BY <1>5 DEF PathDown, TypeInv, TypeOK, SubOK
<1>6. ASSUME NEW ack \in SUBSET Seqs, OnAck(p, ack)
      PROVE  TypeInv'
  BY <1>6, InitialRecords DEF OnAck, Keys, TypeInv, TypeOK, SubOK
<1> QED
  BY <1>1, <1>2, <1>3, <1>4, <1>5, <1>6 DEF PathStep

\* Steps of the stream manager.
LEMMA StreamStepTypeInv ==
    ASSUME TypeInv, NEW s \in StreamIDs, StreamStep(s)
    PROVE  TypeInv'
<1> USE DEF pathVars, streamVars, loopVars, closeVars
<1>1. CASE CloseStream(s)
  BY <1>1 DEF CloseStream, TypeInv, TypeOK, SubOK
<1>2. CASE CancelFramesForStream(s)
  BY <1>2, InitialRecords DEF CancelFramesForStream, TypeInv, TypeOK, SubOK
<1> QED
  BY <1>1, <1>2 DEF StreamStep

\* A caller begins a submission.
LEMMA StartTypeInv ==
    ASSUME TypeInv, NEW t \in Callers, NEW p \in PathIDs, Start(t, p)
    PROVE  TypeInv'
<1> USE DEF pathVars, streamVars, loopVars, closeVars
<1>0. sub \in [Threads -> SubRecord] /\ t \in Threads
  BY SubType DEF TypeInv, Threads
<1>1. ASSUME NEW n \in ControlSizes[t], SubmitFrame(t, p, n)
      PROVE  TypeInv'
  <2>1. n \in Nat
    BY PackerConstants
  <2>2. {ControlFrame(n)} \in SUBSET Frame
    BY <2>1, InitialRecords
  <2>3. [Idle EXCEPT !.pc = "seq", !.pid = p, !.frames = {ControlFrame(n)}] \in SubRecord
    BY <2>2, InitialRecords DEF SubRecord, PCs
  <2>4. sub' \in [Threads -> SubRecord]
    BY <1>0, <1>1, <2>3 DEF SubmitFrame
  <2>5. SubOK'
    BY <1>0, <1>1 DEF SubmitFrame, TypeInv, SubOK, Idle, Submitting, Numbered
  <2> QED
    BY <1>1, <2>4, <2>5 DEF SubmitFrame, TypeInv, TypeOK, SubRecord, PCs
<1>2. ASSUME NEW s \in StreamIDs, StreamFlush(t, p, s)
      PROVE  TypeInv'
  <2>1. [sid |-> s, from |-> 0, to |-> 0] \in Frame
    BY DEF Frame
  <2>2. [Idle EXCEPT !.pc = "submit", !.pid = p,
            !.chunk = [sid |-> s, from |-> 0, to |-> 0]] \in SubRecord
    BY <2>1, InitialRecords DEF SubRecord, PCs
  <2>3. sub' \in [Threads -> SubRecord]
    BY <1>0, <1>2, <2>2 DEF StreamFlush
  <2>4. SubOK'
    BY <1>0, <1>2 DEF StreamFlush, TypeInv, SubOK, Idle, Submitting, Numbered
  <2> QED
    BY <1>2, <2>3, <2>4 DEF StreamFlush, TypeInv, TypeOK, SubRecord, PCs
<1>3. ASSUME NEW s \in StreamIDs, NEW n \in WriteSizes, StreamWrite(t, p, s, n)
      PROVE  TypeInv'
  <2> DEFINE chunk == [sid |-> s, from |-> send[s].writeOffset,
                       to |-> send[s].writeOffset + n]
  <2>1. n \in Nat /\ send[s] \in SendBuffer
    BY PackerConstants DEF TypeInv, TypeOK
  <2>2. BufferWrite(send[s], n) \in SendBuffer
    BY <2>1, WriteType
  <2>3. chunk \in Frame
    BY <2>1 DEF Frame, SendBuffer
  <2>4. [Idle EXCEPT !.pc = "submit", !.pid = p, !.chunk = chunk] \in SubRecord
    BY <2>3, InitialRecords DEF SubRecord, PCs
  <2>5. sub' \in [Threads -> SubRecord] /\ send' \in [StreamIDs -> SendBuffer]
    BY <1>0, <1>3, <2>2, <2>4 DEF StreamWrite, TypeInv, TypeOK
  <2>6. SubOK'
    BY <1>0, <1>3 DEF StreamWrite, TypeInv, SubOK, Idle, Submitting, Numbered
  <2> QED
    BY <1>3, <2>5, <2>6 DEF StreamWrite, TypeInv, TypeOK, SubRecord, PCs
<1> QED
  BY <1>1, <1>2, <1>3 DEF Start

\* A goroutine moves on in its submission.
LEMMA AdvanceType ==
    ASSUME TypeInv, NEW t \in Threads, sub[t].pc \in Submitting,
           NEW pc \in PCs, NEW frames \in SUBSET Frame, NEW seq \in 0 .. MaxSeq,
           pc \in Numbered => seq \in Seqs,
           sub' = [sub EXCEPT ![t].pc = pc, ![t].frames = frames, ![t].seq = seq]
    PROVE  sub' \in [Threads -> SubRecord] /\ SubOK'
<1>1. sub \in [Threads -> SubRecord]
  BY SubType DEF TypeInv
<1>2. sub' \in [Threads -> SubRecord]
  BY <1>1 DEF SubRecord
<1>3. /\ sub'[t].pc = pc /\ sub'[t].pid = sub[t].pid /\ sub'[t].seq = seq
      /\ \A u \in Threads : u # t => sub'[u] = sub[u]
  BY <1>1 DEF SubRecord
<1> QED
  BY <1>2, <1>3 DEF TypeInv, SubOK

\* ... or keeps what it holds and only moves on.
LEMMA MoveType ==
    ASSUME TypeInv, NEW t \in Threads, sub[t].pc \in Submitting,
           NEW pc \in PCs, pc \in Numbered => sub[t].pc \in Numbered,
           sub' = [sub EXCEPT ![t].pc = pc]
    PROVE  sub' \in [Threads -> SubRecord] /\ SubOK'
<1>1. sub \in [Threads -> SubRecord]
  BY SubType DEF TypeInv
<1>2. sub' \in [Threads -> SubRecord]
  BY <1>1 DEF SubRecord
<1>3. /\ sub'[t].pc = pc /\ sub'[t].pid = sub[t].pid /\ sub'[t].seq = sub[t].seq
      /\ \A u \in Threads : u # t => sub'[u] = sub[u]
  BY <1>1 DEF SubRecord
<1> QED
  BY <1>2, <1>3 DEF TypeInv, SubOK

\* ... or ends it.
LEMMA EndType ==
    ASSUME TypeInv, NEW t \in Threads, sub' = Return(t)
    PROVE  sub' \in [Threads -> SubRecord] /\ SubOK'
BY ReturnType DEF TypeInv, SubOK, Submitting, Numbered

\* The Write that ends adds a chunk to the written ones.
LEMMA SucceedType ==
    ASSUME TypeInv, NEW t \in Threads, Succeed(t)
    PROVE  sub' \in [Threads -> SubRecord] /\ SubOK' /\ written' \subseteq Frame
<1>1. sub[t].chunk \in Frame
  BY SubType DEF TypeInv, SubRecord
<1> QED
  BY <1>1, EndType DEF Succeed, TypeInv, TypeOK

\* The steps of a submission.
LEMMA ProgressTypeInv ==
    ASSUME TypeInv, NEW t \in Threads, Progress(t)
    PROVE  TypeInv'
<1> USE DEF pathVars, streamVars, loopVars, closeVars
<1>1. sub \in [Threads -> SubRecord] /\ sub[t] \in SubRecord
  BY SubType DEF TypeInv
<1>2. sub[t].frames \in SUBSET Frame /\ sub[t].seq \in 0 .. MaxSeq /\ sub[t].chunk \in Frame
  BY <1>1 DEF SubRecord
<1>3. CASE SubmitSendStream(t)
  <2>1. sub' \in [Threads -> SubRecord] /\ SubOK' /\ written' \subseteq Frame
    <3>1. sub[t].pc \in Submitting /\ "pop" \in PCs /\ "pop" \notin Numbered
      BY <1>3 DEF SubmitSendStream, Submitting, Numbered, PCs
    <3>2. written \subseteq Frame
      BY DEF TypeInv, TypeOK
    <3>3. CASE sub' = [sub EXCEPT ![t].pc = "pop"] /\ UNCHANGED written
      BY <3>1, <3>2, <3>3, MoveType
    <3>4. CASE sub' = Return(t) /\ UNCHANGED written
      BY <3>2, <3>4, EndType
    <3>5. CASE Succeed(t)
      BY <3>5, SucceedType
    <3> QED
      BY <1>3, <3>3, <3>4, <3>5 DEF SubmitSendStream
  <2> QED
    BY <1>3, <2>1 DEF SubmitSendStream, TypeInv, TypeOK, SubRecord, PCs
<1>4. CASE AssignSeq(t)
  <2> DEFINE n == nextPacketSeq[sub[t].pid] + 1
  <2>1. n \in Seqs /\ n \in 0 .. MaxSeq
    BY <1>4, PackerConstants DEF AssignSeq, Seqs
  <2>2. sub' \in [Threads -> SubRecord] /\ SubOK'
    <3>1. "check" \in PCs /\ sub[t].pc \in Submitting
      BY <1>4 DEF AssignSeq, PCs, Submitting
    <3>2. CASE sub' = [sub EXCEPT ![t].pc = "check", ![t].seq = n]
      <4>1. sub' = [sub EXCEPT ![t].pc = "check", ![t].frames = sub[t].frames,
                               ![t].seq = n]
        BY <1>1, <3>2 DEF SubRecord
      <4> QED
        BY <1>2, <2>1, <3>1, <4>1, AdvanceType
    <3> QED
      BY <1>4, <3>2, EndType DEF AssignSeq
  <2>3. nextPacketSeq' \in [PathIDs -> 0 .. MaxSeq]
    BY <1>4, <2>1 DEF AssignSeq, TypeInv, TypeOK
  <2> QED
    BY <1>4, <2>2, <2>3 DEF AssignSeq, TypeInv, TypeOK, SubRecord, PCs
<1>5. CASE CheckPath(t)
  <2>1. sub' \in [Threads -> SubRecord] /\ SubOK'
    <3>1. sub[t].pc \in Submitting /\ sub[t].pc \in Numbered /\ "register" \in PCs
      BY <1>5 DEF CheckPath, Submitting, Numbered, PCs
    <3>2. CASE sub' = [sub EXCEPT ![t].pc = "register"]
      BY <3>1, <3>2, MoveType
    <3> QED
      BY <1>5, <3>2, EndType DEF CheckPath
  <2> QED
    BY <1>5, <2>1 DEF CheckPath, TypeInv, TypeOK, SubRecord, PCs
<1>6. CASE PopAndPack(t)
  <2> DEFINE s == sub[t].chunk.sid
             frames == PopFrames(send[s], s, MaxPacketSize)
             fit == PackedFrames(frames, MaxPacketSize)
  <2>1. CASE s \notin streams \/ ~HasBuffered(send[s])
    BY <1>6, <2>1, SucceedType DEF PopAndPack, TypeInv, TypeOK, SubRecord, PCs
  <2>2. CASE s \in streams /\ HasBuffered(send[s])
    <3>1. s \in StreamIDs /\ send[s] \in SendBuffer
      BY <2>2 DEF TypeInv, TypeOK
    <3>2. fit \in SUBSET Frame /\ AfterPop(send[s], MaxPacketSize) \in SendBuffer
      BY <3>1, PopType DEF PackedFrames
    <3>3. send' \in [StreamIDs -> SendBuffer]
      BY <1>6, <2>2, <3>2 DEF PopAndPack, TypeInv, TypeOK
    <3>4. sub' \in [Threads -> SubRecord] /\ SubOK'
      <4>1. sub[t].pc \in Submitting /\ "seq" \in PCs /\ "seq" \notin Numbered
        BY <1>6 DEF PopAndPack, Submitting, Numbered, PCs
      <4>2. CASE sub' = [sub EXCEPT ![t].pc = "seq", ![t].frames = fit]
        <5>1. sub' = [sub EXCEPT ![t].pc = "seq", ![t].frames = fit, ![t].seq = sub[t].seq]
          BY <1>1, <4>2 DEF SubRecord
        <5> QED
          BY <1>2, <3>2, <4>1, <5>1, AdvanceType
      <4> QED
        BY <1>6, <2>2, <4>2, EndType DEF PopAndPack
    <3> QED
      BY <1>6, <2>2, <3>3, <3>4 DEF PopAndPack, TypeInv, TypeOK, SubRecord, PCs
  <2> QED
    BY <2>1, <2>2
<1>7. CASE RegisterPending(t)
  <2> DEFINE k == <<sub[t].pid, sub[t].seq>>
  <2>1. CASE closed
    BY <1>7, <2>1 DEF RegisterPending, TypeInv, TypeOK, SubOK
  <2>2. CASE ~closed
    <3>1. [attempts |-> 1, frames |-> sub[t].frames] \in PendingPacket
      BY <1>2, PackerConstants DEF PendingPacket
    <3>2. pending' \in [Keys -> PendingPacket]
      BY <1>7, <2>2, <3>1 DEF RegisterPending, TypeInv, TypeOK
    <3>3. packed' \subseteq Packet
      <4>1. OnWire(k, sub[t].frames) \in Packet
        BY <1>2, <1>7 DEF RegisterPending, OnWire, Packet, TypeInv, SubOK, Submitting, Numbered
      <4> QED
        BY <1>7, <2>2, <4>1 DEF RegisterPending, TypeInv, TypeOK
    <3>4. sub[t].pc \in Submitting /\ sub[t].pc \in Numbered /\ "write" \in PCs
      BY <1>7 DEF RegisterPending, Submitting, Numbered, PCs
    <3>5. sub' \in [Threads -> SubRecord] /\ SubOK'
      BY <1>7, <2>2, <3>4, MoveType DEF RegisterPending
    <3> QED
      BY <1>7, <2>2, <3>2, <3>3, <3>5 DEF RegisterPending, TypeInv, TypeOK, SubRecord, PCs
  <2> QED
    BY <2>1, <2>2
<1>8. CASE WritePacket(t)
  <2> DEFINE k == <<sub[t].pid, sub[t].seq>>
  <2>1. OnWire(k, sub[t].frames) \in Packet
    BY <1>2, <1>8 DEF WritePacket, OnWire, Packet, TypeInv, SubOK, Submitting, Numbered
  <2>2. wire' \subseteq Packet
    BY <1>8, <2>1 DEF WritePacket, TypeInv, TypeOK
  <2>3. sub' \in [Threads -> SubRecord] /\ SubOK'
    <3>1. /\ sub[t].pc \in Submitting
          /\ \A c \in {"more", "hung"} : c \in PCs /\ c \notin Numbered
      BY <1>8 DEF WritePacket, Submitting, Numbered, PCs
    <3>2. ASSUME NEW c \in {"more", "hung"}, sub' = [sub EXCEPT ![t].pc = c]
          PROVE  sub' \in [Threads -> SubRecord] /\ SubOK'
      BY <3>1, <3>2, MoveType
    <3> QED
      BY <1>8, <3>2, EndType DEF WritePacket
  <2> QED
    BY <1>8, <2>2, <2>3 DEF WritePacket, TypeInv, TypeOK, SubRecord, PCs
<1>9. CASE CheckBuffered(t)
  <2>1. sub' \in [Threads -> SubRecord] /\ SubOK' /\ written' \subseteq Frame
    <3>1. sub[t].pc \in Submitting /\ "schedule" \in PCs /\ "schedule" \notin Numbered
      BY <1>9 DEF CheckBuffered, Submitting, Numbered, PCs
    <3>2. CASE sub' = [sub EXCEPT ![t].pc = "schedule"] /\ written' = written
      BY <3>1, <3>2, MoveType DEF TypeInv, TypeOK
    <3> QED
      BY <1>9, <3>2, SucceedType DEF CheckBuffered
  <2> QED
    BY <1>9, <2>1 DEF CheckBuffered, TypeInv, TypeOK, SubRecord, PCs
<1>10. CASE ScheduleFlush(t)
  <2>1. CASE closed
    BY <1>10, <2>1 DEF ScheduleFlush, TypeInv, TypeOK, SubOK
  <2>2. CASE ~closed
    <3>1. sub' \in [Threads -> SubRecord] /\ SubOK' /\ written' \subseteq Frame
      BY <1>10, <2>2, SucceedType DEF ScheduleFlush
    <3>2. bufferedStreams' \in [StreamIDs -> PathIDs \cup {NoPath}]
      BY <1>1, <1>10, <2>2 DEF ScheduleFlush, TypeInv, TypeOK, SubRecord
    <3> QED
      BY <1>10, <2>2, <3>1, <3>2 DEF ScheduleFlush, TypeInv, TypeOK, SubRecord, PCs
  <2> QED
    BY <2>1, <2>2
<1> QED
  BY <1>3, <1>4, <1>5, <1>6, <1>7, <1>8, <1>9, <1>10 DEF Progress

\* Steps of the retransmit goroutine.
LEMMA RtxTypeInv ==
    ASSUME TypeInv, RtxStep \/ RtxStop
    PROVE  TypeInv'
<1> USE DEF pathVars, streamVars, loopVars, closeVars
<1>1. ASSUME NEW due \in SUBSET Keys, RtxCollect(due)
      PROVE  TypeInv'
  <2> DEFINE expired == {k \in due : pending[k].attempts >= MaxAttempts}
             tasks == due \ expired
  <2>1. \A k \in Keys : pending[k] \in PendingPacket
    BY DEF TypeInv, TypeOK
  <2>2. \A k \in tasks : Counted(pending[k]) \in PendingPacket
    BY <2>1, PackerConstants DEF PendingPacket, Counted
  <2>3. pending' \in [Keys -> PendingPacket]
    BY <1>1, <2>1, <2>2, InitialRecords DEF RtxCollect
  <2>4. {OnWire(k, pending[k].frames) : k \in tasks} \in SUBSET Packet
    BY <2>1 DEF OnWire, Packet, PendingPacket, Keys
  <2>5. rtx' \in [pc : {"idle", "write", "update", "stopped", "hung"},
                  tasks : SUBSET Packet, key : Keys \cup {<<NoPath, 0>>}]
    BY <1>1, <2>4 DEF RtxCollect, Counted, TypeInv, TypeOK
  <2> QED
    BY <1>1, <2>3, <2>5 DEF RtxCollect, Counted, TypeInv, TypeOK, SubOK
<1>2. CASE RtxWrite
  <2>1. PICK w \in rtx.tasks :
            /\ wire' \subseteq wire \cup {w}
            /\ \E c \in {"update", "hung"} :
                  rtx' = [rtx EXCEPT !.pc = c, !.key = <<w.pid, w.seq>>, !.tasks = @ \ {w}]
    BY <1>2 DEF RtxWrite
  <2>2. w \in Packet /\ <<w.pid, w.seq>> \in Keys
    BY <2>1 DEF TypeInv, TypeOK, Packet, Keys
  <2>3. wire' \subseteq Packet
    BY <2>1, <2>2 DEF TypeInv, TypeOK
  <2>4. rtx' \in [pc : {"idle", "write", "update", "stopped", "hung"},
                  tasks : SUBSET Packet, key : Keys \cup {<<NoPath, 0>>}]
    BY <2>1, <2>2 DEF TypeInv, TypeOK
  <2> QED
    BY <1>2, <2>3, <2>4 DEF RtxWrite, TypeInv, TypeOK, SubOK
<1>3. CASE RtxUpdate
  <2>1. pending' \in [Keys -> PendingPacket]
    BY <1>3, InitialRecords DEF RtxUpdate, Rescheduled, TypeInv, TypeOK
  <2>2. rtx' \in [pc : {"idle", "write", "update", "stopped", "hung"},
                  tasks : SUBSET Packet, key : Keys \cup {<<NoPath, 0>>}]
    BY <1>3 DEF RtxUpdate, Rescheduled, TypeInv, TypeOK
  <2> QED
    BY <1>3, <2>1, <2>2 DEF RtxUpdate, Rescheduled, TypeInv, TypeOK, SubOK
<1>4. CASE RtxStop
  BY <1>4 DEF RtxStop, TypeInv, TypeOK, SubOK
<1> QED
  BY <1>1, <1>2, <1>3, <1>4 DEF RtxStep

\* Steps of the flush goroutine.
LEMMA FlushTypeInv ==
    ASSUME TypeInv, FlushStep
    PROVE  TypeInv'
<1> USE DEF pathVars, streamVars, loopVars, closeVars
<1>1. sub \in [Threads -> SubRecord] /\ Flusher \in Threads
  BY SubType DEF TypeInv, Threads
<1>2. CASE FlushTick
  <2>1. flush' \subseteq StreamIDs \X PathIDs
    BY <1>2 DEF FlushTick, Scheduled, TypeInv, TypeOK
  <2> QED
    BY <1>2, <2>1 DEF FlushTick, Scheduled, TypeInv, TypeOK, SubOK
<1>3. CASE FlushVisit
  <2>1. PICK e \in flush :
            /\ flush' = flush \ {e}
            /\ sub' = [sub EXCEPT ![Flusher] =
                   [Idle EXCEPT !.pc = IF e[2] \in paths THEN "pop" ELSE "unschedule",
                                !.pid = e[2],
                                !.chunk = [sid |-> e[1], from |-> 0, to |-> 0]]]
    BY <1>3 DEF FlushVisit
  <2>2. e[1] \in StreamIDs /\ e[2] \in PathIDs
    BY <2>1 DEF TypeInv, TypeOK
  <2>3. [sid |-> e[1], from |-> 0, to |-> 0] \in Frame
    BY <2>2 DEF Frame
  <2>4. [Idle EXCEPT !.pc = IF e[2] \in paths THEN "pop" ELSE "unschedule", !.pid = e[2],
                     !.chunk = [sid |-> e[1], from |-> 0, to |-> 0]] \in SubRecord
    BY <2>2, <2>3, InitialRecords DEF SubRecord, PCs
  <2>5. sub' \in [Threads -> SubRecord]
    BY <1>1, <2>1, <2>4
  <2>6. SubOK'
    BY <1>1, <2>1, <2>2 DEF TypeInv, SubOK, Idle, Submitting, Numbered
  <2> QED
    BY <1>3, <2>1, <2>5, <2>6 DEF FlushVisit, TypeInv, TypeOK, SubRecord, PCs
<1>4. CASE FlushCheck
  <2>1. sub' \in [Threads -> SubRecord]
    BY <1>1, <1>4, InitialRecords DEF FlushCheck, SubRecord, PCs
  <2>2. SubOK'
    BY <1>1, <1>4 DEF FlushCheck, SubRecord, TypeInv, SubOK, Idle, Submitting, Numbered
  <2> QED
    BY <1>4, <2>1, <2>2 DEF FlushCheck, TypeInv, TypeOK, SubRecord, PCs
<1>5. CASE FlushUnschedule
  <2>1. sub' \in [Threads -> SubRecord]
    BY <1>1, <1>5, InitialRecords DEF FlushUnschedule
  <2>2. SubOK'
    BY <1>1, <1>5 DEF FlushUnschedule, TypeInv, SubOK, Idle, Submitting, Numbered
  <2> QED
    BY <1>5, <2>1, <2>2 DEF FlushUnschedule, TypeInv, TypeOK, SubRecord, PCs
<1>6. CASE FlushStop
  <2>1. sub' \in [Threads -> SubRecord]
    BY <1>1, <1>6 DEF FlushStop, SubRecord, PCs
  <2>2. SubOK'
    BY <1>1, <1>6 DEF FlushStop, SubRecord, TypeInv, SubOK, Submitting, Numbered
  <2> QED
    BY <1>6, <2>1, <2>2 DEF FlushStop, TypeInv, TypeOK, SubRecord, PCs
<1> QED
  BY <1>2, <1>3, <1>4, <1>5, <1>6 DEF FlushStep

\* Close.
LEMMA CloseTypeInv ==
    ASSUME TypeInv, Close \/ CloseRelease
    PROVE  TypeInv'
<1> USE DEF pathVars, streamVars, loopVars, closeVars
<1>1. CASE Close
  BY <1>1 DEF Close, TypeInv, TypeOK, SubOK
<1>2. CASE CloseRelease
  BY <1>2, InitialRecords DEF CloseRelease, TypeInv, TypeOK, SubOK
<1> QED
  BY <1>1, <1>2

\* Nothing happens.
LEMMA StutterTypeInv ==
    ASSUME TypeInv, UNCHANGED vars
    PROVE  TypeInv'
BY DEF vars, pathVars, streamVars, loopVars, closeVars, TypeInv, TypeOK, SubOK

\* Type correctness: every variable keeps the shape the source gives it, whatever
\* the goroutines do and however many paths, streams and packets there are.
THEOREM TypeInvariant == Spec => []TypeInv
<1>1. Init => TypeInv
  BY InitTypeInv
<1>2. TypeInv /\ [Next]_vars => TypeInv'
  BY PathStepTypeInv, StreamStepTypeInv, StartTypeInv, ProgressTypeInv, RtxTypeInv,
     FlushTypeInv, CloseTypeInv, StutterTypeInv DEF Next
<1> QED
  BY <1>1, <1>2, PTL DEF Spec

\* TypeOK, the invariant the model checker is given, is a part of it.
THEOREM TypeCorrect == Spec => []TypeOK
<1>1. TypeInv => TypeOK
  BY DEF TypeInv
<1> QED
  BY <1>1, TypeInvariant, PTL

(***************************************************************************)
(* The retransmit goroutine never leaves a packet with exhausted attempts  *)
(* in the table.  The strengthening says what its local variables hold at  *)
(* each point of the loop.                                                 *)
(***************************************************************************)

\* What the retransmit goroutine holds at each place of its loop.
RtxShape ==
    /\ rtx.tasks # {} => rtx.pc \in {"write", "update", "hung"}
    /\ rtx.key # <<NoPath, 0>> => rtx.pc \in {"update", "hung"}

\* The inductive invariant of the attempts.
AttemptsInv == AttemptsBounded /\ RtxShape

\* The place holder for no packet is not the key of one.
LEMMA NoKey == <<NoPath, 0>> \notin Keys
BY PackerConstants DEF Keys

\* Steps of the other goroutines: they leave the retransmit goroutine alone, and any
\* entry they change is removed or has used one attempt.
LEMMA OthersKeepAttempts ==
    ASSUME TypeInv, AttemptsInv, rtx' = rtx,
           \A k \in Keys : \/ pending'[k] = pending[k]
                           \/ pending'[k].attempts \in {0, 1}
    PROVE  AttemptsInv'
<1>1. \A k \in Keys : pending'[k].attempts >= MaxAttempts => pending'[k] = pending[k]
  BY PackerConstants
<1> QED
  BY <1>1 DEF AttemptsInv, AttemptsBounded, RtxShape

\* Every step keeps the invariant.
LEMMA AttemptsStep == TypeInv /\ AttemptsInv /\ [Next]_vars => AttemptsInv'
<1> SUFFICES ASSUME TypeInv, AttemptsInv, [Next]_vars PROVE AttemptsInv'
  OBVIOUS
<1> USE DEF pathVars, streamVars, loopVars, closeVars
<1>1. \A k \in Keys : pending[k] \in PendingPacket
  BY DEF TypeInv, TypeOK
<1>2. ASSUME NEW p \in PathIDs, PathStep(p) PROVE AttemptsInv'
  BY <1>2, OthersKeepAttempts DEF PathStep, NewPath, Register, PathReady, StreamAddPath,
     UnregisterPath, PathDown, OnAck, Absent
<1>3. ASSUME NEW s \in StreamIDs, StreamStep(s) PROVE AttemptsInv'
  BY <1>3, OthersKeepAttempts DEF StreamStep, CloseStream, CancelFramesForStream, Absent
<1>4. ASSUME NEW t \in Callers, NEW p \in PathIDs, Start(t, p) PROVE AttemptsInv'
  BY <1>4, OthersKeepAttempts DEF Start, SubmitFrame, StreamFlush, StreamWrite
<1>5. ASSUME NEW t \in Threads, Progress(t) PROVE AttemptsInv'
  <2>1. CASE RegisterPending(t)
    BY <2>1, OthersKeepAttempts DEF RegisterPending, TypeInv, TypeOK
  <2> QED
    BY <1>5, <2>1, OthersKeepAttempts DEF Progress, SubmitSendStream, PopAndPack, AssignSeq,
       CheckPath, WritePacket, CheckBuffered, ScheduleFlush
<1>6. ASSUME NEW due \in SUBSET Keys, RtxCollect(due) PROVE AttemptsInv'
  <2> DEFINE expired == {k \in due : pending[k].attempts >= MaxAttempts}
             tasks == due \ expired
  <2>1. \A k \in Keys : pending[k].attempts < MaxAttempts
    BY <1>1, <1>6, NoKey, PackerConstants
       DEF RtxCollect, Counted, AttemptsInv, AttemptsBounded, RtxShape, PendingPacket
  <2>2. \A k \in Keys : k \notin tasks => ~(pending'[k].attempts >= MaxAttempts)
    BY <1>1, <1>6, <2>1, PackerConstants DEF RtxCollect, Counted, Absent, PendingPacket
  <2>3. \A k \in tasks : \E w \in rtx'.tasks : <<w.pid, w.seq>> = k
    <3>1. rtx'.tasks = {OnWire(k, pending[k].frames) : k \in tasks}
      BY <1>6 DEF RtxCollect, Counted, TypeInv, TypeOK
    <3> SUFFICES ASSUME NEW k \in tasks PROVE \E w \in rtx'.tasks : <<w.pid, w.seq>> = k
      OBVIOUS
    <3>2. k = <<k[1], k[2]>>
      BY DEF Keys
    <3>3. OnWire(k, pending[k].frames) \in rtx'.tasks
      BY <3>1
    <3>4. /\ OnWire(k, pending[k].frames).pid = k[1]
          /\ OnWire(k, pending[k].frames).seq = k[2]
      BY DEF OnWire
    <3> QED
      BY <3>2, <3>3, <3>4
  <2>4. \A k \in Keys : pending'[k].attempts >= MaxAttempts => k \in tasks
    BY <2>2
  <2>5. RtxShape'
    <3>1. rtx.key = <<NoPath, 0>>
      BY <1>6 DEF RtxCollect, Counted, AttemptsInv, RtxShape
    <3>2. tasks = {} => {OnWire(k, pending[k].frames) : k \in tasks} = {}
      OBVIOUS
    <3> QED
      BY <1>6, <3>1, <3>2 DEF RtxCollect, Counted, RtxShape, TypeInv, TypeOK
  <2> QED
    BY <2>3, <2>4, <2>5 DEF AttemptsInv, AttemptsBounded
<1>7. CASE RtxWrite
  <2>1. PICK w \in rtx.tasks, c \in {"update", "hung"} :
            rtx' = [rtx EXCEPT !.pc = c, !.key = <<w.pid, w.seq>>, !.tasks = @ \ {w}]
    BY <1>7 DEF RtxWrite
  <2>2. rtx.key \notin Keys /\ pending' = pending
    BY <1>7, NoKey DEF RtxWrite, AttemptsInv, RtxShape
  <2>3. rtx'.key = <<w.pid, w.seq>> /\ rtx'.tasks = rtx.tasks \ {w} /\ rtx'.pc = c
    BY <2>1 DEF TypeInv, TypeOK
  <2> QED
    BY <2>2, <2>3 DEF AttemptsInv, AttemptsBounded, RtxShape
<1>8. CASE RtxUpdate
  <2>1. \A k \in Keys : pending'[k].attempts >= MaxAttempts =>
            k # rtx.key /\ pending'[k] = pending[k]
    BY <1>8, PackerConstants DEF RtxUpdate, Rescheduled, Absent, TypeInv, TypeOK
  <2>2. /\ rtx'.tasks = rtx.tasks /\ rtx'.key = <<NoPath, 0>>
        /\ rtx'.pc = IF rtx.tasks = {} THEN "idle" ELSE "write"
    BY <1>8 DEF RtxUpdate, Rescheduled, TypeInv, TypeOK
  <2> QED
    BY <2>1, <2>2 DEF AttemptsInv, AttemptsBounded, RtxShape
<1>9. CASE RtxStop
  BY <1>9 DEF RtxStop, AttemptsInv, AttemptsBounded, RtxShape, TypeInv, TypeOK
<1>10. CASE FlushStep
  BY <1>10, OthersKeepAttempts DEF FlushStep, FlushTick, FlushVisit, FlushCheck,
     FlushUnschedule, FlushStop
<1>11. CASE Close \/ CloseRelease
  BY <1>11, OthersKeepAttempts DEF Close, CloseRelease, Absent
<1>12. CASE UNCHANGED vars
  BY <1>12, OthersKeepAttempts DEF vars
<1> QED
  BY <1>2, <1>3, <1>4, <1>5, <1>6, <1>7, <1>8, <1>9, <1>10, <1>11, <1>12 DEF Next, RtxStep

\* The retransmit goroutine gives up in time: a packet whose attempts are used up is
\* one it is just writing or has still to write in this pass.
THEOREM AttemptsAreBounded == Spec => []AttemptsBounded
<1>1. Init => AttemptsInv
  BY PackerConstants DEF Init, AttemptsInv, AttemptsBounded, RtxShape, RtxIdle, Absent
<1>2. AttemptsInv => AttemptsBounded
  BY DEF AttemptsInv
<1> QED
  BY <1>1, <1>2, AttemptsStep, TypeInvariant, PTL DEF Spec

(***************************************************************************)
(* No byte is packed twice.  The frames popped from a send stream lie      *)
(* below its base, and what a goroutine carries from the pop to the        *)
(* pending table is apart from what any other carries and from what is     *)
(* packed already: a pop only takes bytes above the base.                  *)
(***************************************************************************)

\* Two frames share no byte.
Apart(f, g) == f.sid = g.sid => f.to <= g.from \/ g.to <= f.from

\* The goroutine holds frames of a stream that are not in the pending table yet.
Carries(t) == sub[t].pc \in {"seq", "check", "register"} /\ sub[t].chunk.sid \in StreamIDs

\* The unsent data of a stream is what lies between its base and its write offset.
SendWindow ==
    \A s \in StreamIDs : /\ send[s].base <= send[s].writeOffset
                         /\ \A e \in send[s].ends : send[s].base <= e /\ e <= send[s].writeOffset

\* A frame that was popped, and is below the base of its stream.
Popped(f) == f.sid \in StreamIDs /\ f.from < f.to /\ f.to <= send[f.sid].base

\* What is carried and what is packed was popped, and no two of these frames share a byte.
CarriedIsPopped ==
    \A t \in Threads : Carries(t) =>
        /\ \A f \in sub[t].frames : Popped(f) /\ f.sid = sub[t].chunk.sid
        /\ \A f, g \in sub[t].frames : f # g => Apart(f, g)

\* What is packed was popped.
PackedIsPopped == \A v \in packed : \A f \in v.frames : Popped(f)

\* What a goroutine carries is apart from what others carry and from what is packed.
CarriedApart ==
    \A t \in Threads : Carries(t) => \A f \in sub[t].frames :
        /\ \A u \in Threads : Carries(u) /\ u # t => \A g \in sub[u].frames : Apart(f, g)
        /\ \A v \in packed : \A g \in v.frames : Apart(f, g)

\* What is packed is apart.
PackedApart ==
    \A v, w \in packed : \A f \in v.frames, g \in w.frames : <<v, f>> # <<w, g>> => Apart(f, g)

\* The inductive invariant.
BytesInv == SendWindow /\ CarriedIsPopped /\ PackedIsPopped /\ CarriedApart /\ PackedApart

\* Frames that are apart share no byte.
LEMMA ApartBytes ==
    ASSUME NEW f \in Frame, NEW g \in Frame, Apart(f, g), f.sid = g.sid
    PROVE  BytesOf({f}) \cap BytesOf({g}) = {}
<1>1. \A h \in Frame : BytesOf({h}) = (h.from + 1) .. h.to
  BY DEF BytesOf
<1>2. f.from \in Nat /\ f.to \in Nat /\ g.from \in Nat /\ g.to \in Nat
  BY DEF Frame
<1>3. ((f.from + 1) .. f.to) \cap ((g.from + 1) .. g.to) = {}
  BY <1>2 DEF Apart
<1> QED
  BY <1>1, <1>3

\* A pop takes the bytes between the old base and the new one, in frames that are apart.
LEMMA PopTakes ==
    ASSUME NEW buf \in SendBuffer, NEW s \in StreamIDs, buf.base <= buf.writeOffset,
           \A e \in buf.ends : buf.base <= e /\ e <= buf.writeOffset
    PROVE  LET frames == PopFrames(buf, s, MaxPacketSize)
               rest == AfterPop(buf, MaxPacketSize)
           IN  /\ \A f \in frames : /\ f \in Frame /\ f.sid = s
                                    /\ buf.base <= f.from /\ f.from < f.to /\ f.to <= rest.base
               /\ \A f, g \in frames : f # g => Apart(f, g)
               /\ rest \in SendBuffer
               /\ buf.base <= rest.base /\ rest.base <= rest.writeOffset
               /\ \A e \in rest.ends : rest.base <= e /\ e <= rest.writeOffset
<1> DEFINE limit == PopLimit(buf, MaxPacketSize)
           cuts == {e \in buf.ends : e <= limit} \cup {limit}
           rest == AfterPop(buf, MaxPacketSize)
<1>1. /\ limit \in Nat /\ buf.base <= limit /\ limit <= buf.writeOffset
      /\ buf.base \in Nat /\ buf.writeOffset \in Nat /\ buf.ends \subseteq Nat
  BY PackerConstants DEF PopLimit, SendBuffer
<1>2. cuts \subseteq Nat /\ \A c \in cuts : buf.base <= c /\ c <= limit
  BY <1>1
<1>3. rest \in SendBuffer /\ rest.base = limit /\ rest.writeOffset = buf.writeOffset
      /\ rest.ends = {e \in buf.ends : e > limit}
  BY <1>1, PopType DEF AfterPop, SendBuffer
<1> HIDE DEF limit, rest
<1>4. PopFrames(buf, s, MaxPacketSize) =
          {f \in [sid : {s}, from : cuts \cup {buf.base}, to : cuts] :
               f.from < f.to /\ \A c \in cuts : ~(f.from < c /\ c < f.to)}
  BY DEF PopFrames, limit
<1> HIDE DEF cuts
<1>5. \A f \in PopFrames(buf, s, MaxPacketSize) :
          /\ f \in [sid : {s}, from : cuts \cup {buf.base}, to : cuts]
          /\ f.from < f.to /\ \A c \in cuts : ~(f.from < c /\ c < f.to)
  BY <1>4
<1>6. ASSUME NEW f \in PopFrames(buf, s, MaxPacketSize)
      PROVE  /\ f \in Frame /\ f.sid = s /\ f.from \in Nat /\ f.to \in Nat
             /\ f.from \in cuts \cup {buf.base} /\ f.to \in cuts
             /\ buf.base <= f.from /\ f.from < f.to /\ f.to <= rest.base
             /\ \A c \in cuts : ~(f.from < c /\ c < f.to)
  <2>1. /\ f \in [sid : {s}, from : cuts \cup {buf.base}, to : cuts]
        /\ f.from < f.to /\ \A c \in cuts : ~(f.from < c /\ c < f.to)
    BY <1>5
  <2>2. f.from \in cuts \cup {buf.base} /\ f.to \in cuts /\ f.sid = s
    BY <2>1
  <2>3. f.from \in Nat /\ f.to \in Nat /\ buf.base <= f.from /\ f.to <= rest.base
    <3>1. \A c \in cuts \cup {buf.base} : c \in Nat /\ buf.base <= c
      BY <1>1, <1>2
    <3>2. \A c \in cuts : c \in Nat /\ c <= rest.base
      BY <1>2, <1>3
    <3> QED
      BY <2>2, <3>1, <3>2
  <2>4. f \in Frame
    BY <2>1, <2>2, <2>3 DEF Frame
  <2> QED
    BY <2>1, <2>2, <2>3, <2>4
<1>7. ASSUME NEW f \in PopFrames(buf, s, MaxPacketSize), NEW g \in PopFrames(buf, s, MaxPacketSize), f # g
      PROVE  Apart(f, g)
  <2>1. f.from # g.from \/ f.to # g.to
    BY <1>5, <1>7
  <2>2. /\ f.from \in Nat /\ f.to \in Nat /\ g.from \in Nat /\ g.to \in Nat
        /\ f.from < f.to /\ g.from < g.to /\ buf.base <= f.from /\ buf.base <= g.from
        /\ f.from \in cuts \cup {buf.base} /\ g.from \in cuts \cup {buf.base} /\ f.to \in cuts /\ g.to \in cuts
        /\ \A c \in cuts : ~(f.from < c /\ c < f.to) /\ ~(g.from < c /\ c < g.to)
    BY <1>6
  <2>3. f.to <= g.from \/ g.to <= f.from
    BY <1>1, <2>1, <2>2
  <2> QED
    BY <2>3 DEF Apart
<1>8. buf.base <= rest.base /\ rest.base <= rest.writeOffset
      /\ \A e \in rest.ends : rest.base <= e /\ e <= rest.writeOffset
  BY <1>1, <1>3
<1> QED
  BY <1>3, <1>6, <1>7, <1>8 DEF rest

\* The steps that pop nothing and pack nothing: the goroutines that carry frames afterwards carried them
\* before, and no stream's base goes back.
LEMMA OthersKeepBytes ==
    ASSUME TypeInv, TypeInv', BytesInv, packed' = packed, SendWindow',
           \A s \in StreamIDs : send[s].base <= send'[s].base,
           \A t \in Threads : Carries(t)' =>
               Carries(t) /\ sub'[t].frames = sub[t].frames /\ sub'[t].chunk = sub[t].chunk
    PROVE  BytesInv'
<1>1. \A s \in StreamIDs : send[s].base \in Nat /\ send'[s].base \in Nat
  BY DEF TypeInv, TypeOK, SendBuffer
<1>2. /\ \A t \in Threads : sub[t].frames \subseteq Frame
      /\ \A v \in packed : v.frames \subseteq Frame
      /\ \A f \in Frame : f.from \in Nat /\ f.to \in Nat
  BY DEF TypeInv, TypeOK, Frame, Packet
<1>3. \A f \in Frame : Popped(f) => Popped(f)'
  BY <1>1, <1>2 DEF Popped
<1>4. CarriedIsPopped'
  BY <1>2, <1>3 DEF BytesInv, CarriedIsPopped
<1>5. PackedIsPopped'
  BY <1>2, <1>3 DEF BytesInv, PackedIsPopped
<1>6. CarriedApart' /\ PackedApart'
  BY DEF BytesInv, CarriedApart, PackedApart
<1> QED
  BY <1>4, <1>5, <1>6 DEF BytesInv

\* The same, when the streams stay as they are.
LEMMA OthersKeepStreams ==
    ASSUME TypeInv, TypeInv', BytesInv, packed' = packed, send' = send,
           \A t \in Threads : Carries(t)' =>
               Carries(t) /\ sub'[t].frames = sub[t].frames /\ sub'[t].chunk = sub[t].chunk
    PROVE  BytesInv'
<1>1. SendWindow' /\ \A s \in StreamIDs : send[s].base <= send'[s].base
  BY DEF BytesInv, SendWindow, TypeInv, TypeOK, SendBuffer
<1> QED
  BY <1>1, OthersKeepBytes

\* A goroutine that returns carries nothing.
LEMMA ReturnCarriesNothing ==
    ASSUME TypeInv, NEW t \in Threads, sub' = Return(t)
    PROVE  \A u \in Threads : Carries(u)' =>
               Carries(u) /\ sub'[u].frames = sub[u].frames /\ sub'[u].chunk = sub[u].chunk
<1>1. /\ \A u \in Threads : u # t => sub'[u] = sub[u]
      /\ sub'[t].pc \in {"idle", "flushed"}
  BY ReturnType
<1> QED
  BY <1>1 DEF Carries

\* The pop: what the goroutine now carries lies above the old base, and everything else below it.
LEMMA PopKeepsBytes ==
    ASSUME TypeInv, TypeInv', BytesInv, NEW t \in Threads, PopAndPack(t)
    PROVE  BytesInv'
<1> USE DEF pathVars, streamVars, loopVars, closeVars
<1> DEFINE s == sub[t].chunk.sid
           frames == PopFrames(send[s], s, MaxPacketSize)
           fit == PackedFrames(frames, MaxPacketSize)
<1>1. packed' = packed
  BY DEF PopAndPack
<1>2. CASE s \notin streams \/ ~HasBuffered(send[s])
  <2>1. sub' = Return(t) /\ send' = send
    BY <1>2 DEF PopAndPack, Succeed
  <2> QED
    BY <1>1, <2>1, ReturnCarriesNothing, OthersKeepStreams
<1>3. CASE s \in streams /\ HasBuffered(send[s])
  <2>1. s \in StreamIDs /\ send[s] \in SendBuffer /\ send \in [StreamIDs -> SendBuffer]
    BY <1>3 DEF TypeInv, TypeOK
  <2>2. send' = [send EXCEPT ![s] = AfterPop(@, MaxPacketSize)]
    BY <1>3 DEF PopAndPack
  <2>3. send[s].base <= send[s].writeOffset
        /\ \A e \in send[s].ends : send[s].base <= e /\ e <= send[s].writeOffset
    BY <2>1 DEF BytesInv, SendWindow
  <2>4. /\ \A f \in frames : /\ f \in Frame /\ f.sid = s
                             /\ send[s].base <= f.from /\ f.from < f.to /\ f.to <= send'[s].base
        /\ \A f, g \in frames : f # g => Apart(f, g)
        /\ send[s].base <= send'[s].base /\ send'[s].base <= send'[s].writeOffset
        /\ \A e \in send'[s].ends : send'[s].base <= e /\ e <= send'[s].writeOffset
        /\ \A r \in StreamIDs : r # s => send'[r] = send[r]
    BY <2>1, <2>2, <2>3, PopTakes
  <2>5. SendWindow' /\ \A r \in StreamIDs : send[r].base <= send'[r].base
    <3>1. \A r \in StreamIDs : send[r].base \in Nat
      BY <2>1 DEF SendBuffer
    <3> QED
      BY <2>4, <3>1 DEF BytesInv, SendWindow
  <2>6. CASE sub' = Return(t)
    BY <1>1, <2>5, <2>6, ReturnCarriesNothing, OthersKeepBytes
  <2>7. CASE sub' = [sub EXCEPT ![t].pc = "seq", ![t].frames = fit]
    <3>1. /\ \A u \in Threads : u # t => sub'[u] = sub[u]
          /\ sub'[t].frames = fit /\ sub'[t].chunk = sub[t].chunk
      <4>1. sub \in [Threads -> SubRecord]
        BY SubType DEF TypeInv
      <4> QED
        BY <2>7, <4>1 DEF SubRecord
    <3>2. fit \subseteq frames
      BY DEF PackedFrames
    <3> HIDE DEF fit, frames, s
    <3>3. \A u \in Threads : Carries(u)' => u = t \/ (Carries(u) /\ sub'[u] = sub[u])
      BY <3>1 DEF Carries
    <3>4. /\ \A u \in Threads : sub[u].frames \subseteq Frame
          /\ \A v \in packed : v.frames \subseteq Frame
          /\ \A f \in Frame : f.from \in Nat /\ f.to \in Nat
          /\ \A r \in StreamIDs : send[r].base \in Nat /\ send'[r].base \in Nat
      BY DEF TypeInv, TypeOK, Frame, Packet, SendBuffer
    <3>5. \A f \in Frame : Popped(f) => Popped(f)'
      BY <2>5, <3>4 DEF Popped
    <3>6. \A f \in fit : f \in Frame /\ f.sid = s /\ Popped(f)' /\ send[s].base <= f.from
      BY <2>1, <2>4, <3>2 DEF Popped
    <3>7. \A f \in fit : \A g \in Frame : Popped(g) => Apart(f, g) /\ Apart(g, f)
      <4> SUFFICES ASSUME NEW f \in fit, NEW g \in Frame, Popped(g), f.sid = g.sid PROVE g.to <= f.from
        BY DEF Apart
      <4>1. g.to <= send[s].base /\ send[s].base <= f.from
        BY <3>6 DEF Popped
      <4> QED
        BY <2>1, <3>4, <3>6, <4>1
    <3>8. CarriedIsPopped'
      <4> SUFFICES ASSUME NEW u \in Threads, Carries(u)'
                   PROVE  /\ \A f \in sub'[u].frames : Popped(f)' /\ f.sid = sub'[u].chunk.sid
                          /\ \A f, g \in sub'[u].frames : f # g => Apart(f, g)
        BY DEF CarriedIsPopped, Apart
      <4>1. CASE u = t
        BY <2>4, <3>1, <3>2, <3>6, <4>1 DEF s
      <4>2. CASE u # t
        BY <3>3, <3>4, <3>5, <4>2 DEF BytesInv, CarriedIsPopped
      <4> QED
        BY <4>1, <4>2
    <3>9. PackedIsPopped' /\ PackedApart'
      BY <1>1, <3>4, <3>5 DEF BytesInv, PackedIsPopped, PackedApart
    <3>10. CarriedApart'
      <4>1. ASSUME NEW u \in Threads, Carries(u)', NEW f \in sub'[u].frames,
                   NEW w \in Threads, Carries(w)', w # u, NEW g \in sub'[w].frames
            PROVE  Apart(f, g)
        <5>1. CASE u = t
          <6>1. g \in sub[w].frames /\ Carries(w)
            BY <3>3, <4>1, <5>1
          <6>2. g \in Frame /\ Popped(g)
            BY <3>4, <6>1 DEF BytesInv, CarriedIsPopped
          <6> QED
            BY <3>1, <3>7, <5>1, <6>2
        <5>2. CASE w = t
          <6>1. f \in sub[u].frames /\ Carries(u)
            BY <3>3, <4>1, <5>2
          <6>2. f \in Frame /\ Popped(f)
            BY <3>4, <6>1 DEF BytesInv, CarriedIsPopped
          <6> QED
            BY <3>1, <3>7, <5>2, <6>2
        <5>3. CASE u # t /\ w # t
          BY <3>3, <4>1, <5>3 DEF BytesInv, CarriedApart
        <5> QED
          BY <5>1, <5>2, <5>3
      <4>2. ASSUME NEW u \in Threads, Carries(u)', NEW f \in sub'[u].frames,
                   NEW v \in packed, NEW g \in v.frames
            PROVE  Apart(f, g)
        <5>1. CASE u = t
          BY <3>1, <3>4, <3>7, <5>1 DEF BytesInv, PackedIsPopped
        <5>2. CASE u # t
          BY <3>3, <4>2, <5>2 DEF BytesInv, CarriedApart
        <5> QED
          BY <5>1, <5>2
      <4> QED
        BY <1>1, <4>1, <4>2 DEF CarriedApart, Apart
    <3> QED
      BY <2>5, <3>8, <3>9, <3>10 DEF BytesInv
  <2> QED
    BY <1>3, <2>6, <2>7 DEF PopAndPack
<1> QED
  BY <1>2, <1>3

\* The pending table: the frames a goroutine carries become a packet, and it carries them no longer.
LEMMA PackKeepsBytes ==
    ASSUME TypeInv, TypeInv', BytesInv, NEW t \in Threads, RegisterPending(t)
    PROVE  BytesInv'
<1> USE DEF pathVars, streamVars, loopVars, closeVars
<1> DEFINE new == OnWire(<<sub[t].pid, sub[t].seq>>, sub[t].frames)
<1>1. send' = send /\ \A u \in Threads : u # t => sub'[u] = sub[u]
  BY DEF RegisterPending, TypeInv, TypeOK
<1>2. CASE packed' = packed
  <2>1. \A u \in Threads : Carries(u)' =>
            Carries(u) /\ sub'[u].frames = sub[u].frames /\ sub'[u].chunk = sub[u].chunk
    <3>1. sub' = sub \/ sub' = [sub EXCEPT ![t].pc = "write"]
      BY DEF RegisterPending
    <3>2. sub \in [Threads -> SubRecord]
      BY SubType DEF TypeInv
    <3> QED
      BY <1>1, <3>1, <3>2 DEF Carries, SubRecord
  <2> QED
    BY <1>1, <1>2, <2>1, OthersKeepStreams
<1>3. CASE packed' # packed
  <2>1. /\ sub[t].pc = "register" /\ sub[t].chunk.sid # NoStream
        /\ packed' = packed \cup {new} /\ sub' = [sub EXCEPT ![t].pc = "write"]
    BY <1>3 DEF RegisterPending
  <2>2. sub \in [Threads -> SubRecord]
    BY SubType DEF TypeInv
  <2>3. Carries(t) /\ new.frames = sub[t].frames
    BY <2>1, <2>2 DEF Carries, SubRecord, Frame, OnWire
  <2> HIDE DEF new
  <2>4. sub'[t].pc = "write"
    BY <2>1, <2>2 DEF SubRecord
  <2>5. \A u \in Threads : Carries(u)' => u # t /\ Carries(u) /\ sub'[u] = sub[u]
    BY <1>1, <2>4 DEF Carries
  <2>6. \A f : Popped(f) <=> Popped(f)'
    BY <1>1 DEF Popped
  <2>7. SendWindow' /\ CarriedIsPopped' /\ PackedIsPopped'
    BY <1>1, <2>1, <2>3, <2>5, <2>6 DEF BytesInv, SendWindow, CarriedIsPopped, PackedIsPopped, Apart
  <2>8. \A f, g : Apart(f, g) <=> Apart(g, f)
    BY DEF Apart
  <2>9. \A u \in Threads : Carries(u)' => \A f \in sub'[u].frames :
            \A w \in Threads : Carries(w)' /\ w # u => \A g \in sub'[w].frames : Apart(f, g)
    BY <2>5 DEF BytesInv, CarriedApart
  <2>10. \A u \in Threads : Carries(u)' => \A f \in sub'[u].frames :
            \A v \in packed' : \A g \in v.frames : Apart(f, g)
    BY <2>1, <2>3, <2>5 DEF BytesInv, CarriedApart
  <2>11. PackedApart'
    <3> SUFFICES ASSUME NEW v \in packed', NEW w \in packed', NEW f \in v.frames, NEW g \in w.frames,
                        <<v, f>> # <<w, g>>
                 PROVE  Apart(f, g)
      BY DEF PackedApart, Apart
    <3>1. CASE v \in packed /\ w \in packed
      BY <3>1 DEF BytesInv, PackedApart
    <3>2. CASE v = new /\ w = new
      BY <2>3, <3>2 DEF BytesInv, CarriedIsPopped
    <3>3. CASE v = new /\ w \in packed
      BY <2>3, <3>3 DEF BytesInv, CarriedApart
    <3>4. CASE v \in packed /\ w = new
      BY <2>3, <2>8, <3>4 DEF BytesInv, CarriedApart
    <3> QED
      BY <2>1, <3>1, <3>2, <3>3, <3>4
  <2> QED
    BY <2>7, <2>9, <2>10, <2>11 DEF BytesInv, CarriedApart, Apart
<1> QED
  BY <1>2, <1>3

\* Every step keeps the invariant.
LEMMA BytesStep == TypeInv /\ TypeInv' /\ BytesInv /\ [Next]_vars => BytesInv'
<1> SUFFICES ASSUME TypeInv, TypeInv', BytesInv, [Next]_vars PROVE BytesInv'
  OBVIOUS
<1> USE DEF pathVars, streamVars, loopVars, closeVars
<1>0. sub \in [Threads -> SubRecord] /\ NoStream \notin StreamIDs
  BY SubType, PackerConstants DEF TypeInv
<1>1. ASSUME NEW p \in PathIDs, PathStep(p) PROVE BytesInv'
  <2>1. UNCHANGED <<packed, send, sub>>
    BY <1>1 DEF PathStep, NewPath, PathReady, StreamAddPath, UnregisterPath, PathDown, OnAck
  <2> QED
    BY <2>1, OthersKeepStreams DEF Carries
<1>2. ASSUME NEW s \in StreamIDs, StreamStep(s) PROVE BytesInv'
  <2>1. UNCHANGED <<packed, send, sub>>
    BY <1>2 DEF StreamStep, CloseStream, CancelFramesForStream
  <2> QED
    BY <2>1, OthersKeepStreams DEF Carries
<1>3. ASSUME NEW t \in Callers, NEW p \in PathIDs, Start(t, p) PROVE BytesInv'
  <2>1. CASE \E n \in ControlSizes[t] : SubmitFrame(t, p, n)
    <3>1. UNCHANGED <<packed, send>> /\ t \in Threads
      BY <2>1 DEF SubmitFrame, Threads
    <3>2. CASE sub' = sub
      BY <3>1, <3>2, OthersKeepStreams DEF Carries
    <3>3. CASE sub' # sub
      <4>1. \A u \in Threads : u # t => sub'[u] = sub[u]
        BY <2>1 DEF SubmitFrame, TypeInv, TypeOK
      <4>2. sub'[t].chunk.sid = NoStream
        <5>1. PICK n \in ControlSizes[t] : sub' = [sub EXCEPT ![t] =
                  [Idle EXCEPT !.pc = "seq", !.pid = p, !.frames = {ControlFrame(n)}]]
          BY <2>1, <3>3 DEF SubmitFrame
        <5>2. [Idle EXCEPT !.pc = "seq", !.pid = p, !.frames = {ControlFrame(n)}].chunk.sid = NoStream
          BY DEF Idle, ControlFrame
        <5> QED
          BY <1>0, <3>1, <5>1, <5>2
      <4> QED
        BY <1>0, <3>1, <4>1, <4>2, OthersKeepStreams DEF Carries
    <3> QED
      BY <3>2, <3>3
  <2>2. CASE \E s \in StreamIDs : StreamFlush(t, p, s)
    BY <1>0, <2>2, OthersKeepStreams DEF StreamFlush, Carries, Idle, Threads
  <2>3. ASSUME NEW s \in StreamIDs, NEW n \in WriteSizes, StreamWrite(t, p, s, n) PROVE BytesInv'
    <3>1. n \in Nat /\ send[s] \in SendBuffer /\ send \in [StreamIDs -> SendBuffer]
      BY PackerConstants DEF TypeInv, TypeOK
    <3>2. send' = [send EXCEPT ![s] = BufferWrite(@, n)] /\ packed' = packed
      BY <2>3 DEF StreamWrite
    <3>3. /\ send'[s].base = send[s].base /\ send'[s].writeOffset = send[s].writeOffset + n
          /\ send'[s].ends = send[s].ends \cup {send[s].writeOffset + n}
          /\ \A r \in StreamIDs : r # s => send'[r] = send[r]
      BY <3>1, <3>2 DEF BufferWrite, SendBuffer
    <3>4. send[s].base \in Nat /\ send[s].writeOffset \in Nat /\ send[s].ends \subseteq Nat
      BY <3>1 DEF SendBuffer
    <3>5. /\ send'[s].base <= send'[s].writeOffset
          /\ \A e \in send'[s].ends : send'[s].base <= e /\ e <= send'[s].writeOffset
      BY <3>1, <3>3, <3>4 DEF BytesInv, SendWindow
    <3>6. SendWindow' /\ \A r \in StreamIDs : send[r].base <= send'[r].base
      <4>1. \A r \in StreamIDs : send[r].base \in Nat
        BY <3>1 DEF SendBuffer
      <4> QED
        BY <3>3, <3>5, <4>1 DEF BytesInv, SendWindow
    <3>7. \A u \in Threads : Carries(u)' =>
              Carries(u) /\ sub'[u].frames = sub[u].frames /\ sub'[u].chunk = sub[u].chunk
      BY <1>0, <2>3 DEF StreamWrite, Carries, Idle, Threads
    <3> QED
      BY <3>2, <3>6, <3>7, OthersKeepBytes
  <2> QED
    BY <1>3, <2>1, <2>2, <2>3 DEF Start
<1>4. ASSUME NEW t \in Threads, Progress(t) PROVE BytesInv'
  <2>1. CASE SubmitSendStream(t)
    <3>1. UNCHANGED <<packed, send>> /\ (sub' = Return(t) \/ sub' = [sub EXCEPT ![t].pc = "pop"])
      BY <2>1 DEF SubmitSendStream, Succeed
    <3>2. CASE sub' = [sub EXCEPT ![t].pc = "pop"]
      BY <1>0, <3>1, <3>2, OthersKeepStreams DEF Carries, SubRecord
    <3> QED
      BY <3>1, <3>2, ReturnCarriesNothing, OthersKeepStreams
  <2>2. CASE AssignSeq(t)
    <3>1. /\ UNCHANGED <<packed, send>> /\ sub[t].pc = "seq"
          /\ sub' = Return(t) \/ \E n \in Seqs : sub' = [sub EXCEPT ![t].pc = "check", ![t].seq = n]
      BY <2>2 DEF AssignSeq
    <3>2. ASSUME NEW n \in Seqs, sub' = [sub EXCEPT ![t].pc = "check", ![t].seq = n] PROVE BytesInv'
      <4>1. /\ \A u \in Threads : u # t => sub'[u] = sub[u]
            /\ sub'[t].frames = sub[t].frames /\ sub'[t].chunk = sub[t].chunk
        BY <1>0, <3>2 DEF SubRecord
      <4> QED
        BY <3>1, <4>1, OthersKeepStreams DEF Carries
    <3> QED
      BY <3>1, <3>2, ReturnCarriesNothing, OthersKeepStreams
  <2>3. CASE CheckPath(t)
    <3>1. /\ UNCHANGED <<packed, send>> /\ sub[t].pc = "check"
          /\ sub' = Return(t) \/ sub' = [sub EXCEPT ![t].pc = "register"]
      BY <2>3 DEF CheckPath
    <3>2. CASE sub' = [sub EXCEPT ![t].pc = "register"]
      BY <1>0, <3>1, <3>2, OthersKeepStreams DEF Carries, SubRecord
    <3> QED
      BY <3>1, <3>2, ReturnCarriesNothing, OthersKeepStreams
  <2>4. CASE WritePacket(t)
    <3>1. /\ UNCHANGED <<packed, send>>
          /\ \/ sub' = Return(t)
             \/ \E c \in {"more", "hung"} : sub' = [sub EXCEPT ![t].pc = c]
      BY <2>4 DEF WritePacket
    <3>2. ASSUME NEW c \in {"more", "hung"}, sub' = [sub EXCEPT ![t].pc = c]
          PROVE  BytesInv'
      BY <1>0, <3>1, <3>2, OthersKeepStreams DEF Carries, SubRecord
    <3> QED
      BY <3>1, <3>2, ReturnCarriesNothing, OthersKeepStreams
  <2>5. CASE CheckBuffered(t)
    <3>1. UNCHANGED <<packed, send>> /\ (sub' = Return(t) \/ sub' = [sub EXCEPT ![t].pc = "schedule"])
      BY <2>5 DEF CheckBuffered, Succeed
    <3>2. CASE sub' = [sub EXCEPT ![t].pc = "schedule"]
      BY <1>0, <3>1, <3>2, OthersKeepStreams DEF Carries, SubRecord
    <3> QED
      BY <3>1, <3>2, ReturnCarriesNothing, OthersKeepStreams
  <2>6. CASE ScheduleFlush(t)
    <3>1. UNCHANGED <<packed, send>> /\ (sub' = Return(t) \/ sub' = sub)
      BY <2>6 DEF ScheduleFlush, Succeed
    <3>2. CASE sub' = sub
      BY <3>1, <3>2, OthersKeepStreams DEF Carries
    <3> QED
      BY <3>1, <3>2, ReturnCarriesNothing, OthersKeepStreams
  <2> QED
    BY <1>4, <2>1, <2>2, <2>3, <2>4, <2>5, <2>6, PopKeepsBytes, PackKeepsBytes DEF Progress
<1>5. CASE RtxStep \/ RtxStop \/ Close \/ CloseRelease \/ UNCHANGED vars
  <2>1. UNCHANGED <<packed, send, sub>>
    BY <1>5 DEF RtxStep, RtxCollect, RtxWrite, RtxUpdate, RtxStop, Close, CloseRelease, vars
  <2> QED
    BY <2>1, OthersKeepStreams DEF Carries
<1>6. CASE FlushStep
  <2>1. UNCHANGED <<packed, send>>
    BY <1>6 DEF FlushStep, FlushTick, FlushVisit, FlushCheck, FlushUnschedule, FlushStop
  <2>2. Flusher \in Threads
    BY DEF Threads
  <2>3. CASE FlushTick
    BY <2>1, <2>3, OthersKeepStreams DEF FlushTick, Carries
  <2>4. ASSUME NEW record, sub' = [sub EXCEPT ![Flusher] = record],
               record.pc \in {"pop", "unschedule", "idle", "stopped"}
        PROVE  BytesInv'
    <3>1. /\ \A u \in Threads : u # Flusher => sub'[u] = sub[u]
          /\ sub'[Flusher].pc \notin {"seq", "check", "register"}
      BY <1>0, <2>2, <2>4
    <3> QED
      BY <2>1, <3>1, OthersKeepStreams DEF Carries
  <2>5. CASE FlushVisit
    <3>1. PICK e \in flush : sub' = [sub EXCEPT ![Flusher] =
                [Idle EXCEPT !.pc = IF e[2] \in paths THEN "pop" ELSE "unschedule",
                             !.pid = e[2],
                             !.chunk = [sid |-> e[1], from |-> 0, to |-> 0]]]
      BY <2>5 DEF FlushVisit
    <3>2. [Idle EXCEPT !.pc = IF e[2] \in paths THEN "pop" ELSE "unschedule",
                       !.pid = e[2],
                       !.chunk = [sid |-> e[1], from |-> 0, to |-> 0]].pc \in {"pop", "unschedule"}
      BY DEF Idle
    <3> QED
      BY <2>4, <3>1, <3>2
  <2>6. CASE FlushCheck
    <3>1. \/ sub' = [sub EXCEPT ![Flusher] = [sub[Flusher] EXCEPT !.pc = "unschedule"]]
          \/ sub' = [sub EXCEPT ![Flusher] = Idle]
      BY <1>0, <2>2, <2>6 DEF FlushCheck
    <3>2. [sub[Flusher] EXCEPT !.pc = "unschedule"].pc = "unschedule" /\ Idle.pc = "idle"
      BY <1>0, <2>2 DEF SubRecord, Idle
    <3> QED
      BY <2>4, <3>1, <3>2
  <2>7. CASE FlushUnschedule
    BY <2>4, <2>7 DEF FlushUnschedule, Idle
  <2>8. CASE FlushStop
    <3>1. sub' = [sub EXCEPT ![Flusher] = [sub[Flusher] EXCEPT !.pc = "stopped"]]
      BY <2>8 DEF FlushStop
    <3>2. [sub[Flusher] EXCEPT !.pc = "stopped"].pc = "stopped"
      BY <1>0, <2>2 DEF SubRecord
    <3> QED
      BY <2>4, <3>1, <3>2
  <2> QED
    BY <1>6, <2>3, <2>5, <2>6, <2>7, <2>8 DEF FlushStep
<1> QED
  BY <1>1, <1>2, <1>3, <1>4, <1>5, <1>6 DEF Next

\* No byte of a stream is put in two packets, whatever writers, Flush and the flush goroutine pop at the
\* same time, and however long the writes are.
THEOREM BytesArePackedOnce == Spec => []BytesPackedOnce
<1>1. Init => BytesInv
  BY DEF Init, BytesInv, SendWindow, CarriedIsPopped, PackedIsPopped, CarriedApart, PackedApart,
         Carries, Idle, NewSendStream
<1>2. TypeInv /\ BytesInv => BytesPackedOnce
  <2> SUFFICES ASSUME TypeInv, BytesInv, NEW v \in packed, NEW w \in packed,
                      NEW f \in v.frames, NEW g \in w.frames, f.sid = g.sid, <<v, f>> # <<w, g>>
               PROVE  BytesOf({f}) \cap BytesOf({g}) = {}
    BY DEF BytesPackedOnce
  <2>1. f \in Frame /\ g \in Frame
    BY DEF TypeInv, TypeOK, Packet
  <2>2. Apart(f, g)
    BY DEF BytesInv, PackedApart
  <2> QED
    BY <2>1, <2>2, ApartBytes
<1>3. TypeInv /\ [Next]_vars => TypeInv'
  BY PathStepTypeInv, StreamStepTypeInv, StartTypeInv, ProgressTypeInv, RtxTypeInv,
     FlushTypeInv, CloseTypeInv, StutterTypeInv DEF Next
<1>4. TypeInv /\ BytesInv /\ [Next]_vars => BytesInv'
  BY <1>3, BytesStep
<1> QED
  BY <1>1, <1>2, <1>4, TypeInvariant, PTL DEF Spec

(***************************************************************************)
(* Packet numbers and acknowledgements, for every choice of the constants: *)
(* WireIdentity and AckedNotPending.                                       *)
(*                                                                         *)
(* Both rest on one invariant.  A packet number is held by a goroutine     *)
(* between AssignSeq and RegisterPending, then it circulates: in the       *)
(* pending table, in the hands of the goroutine that writes it, among the  *)
(* tasks of the retransmit goroutine, on the wire.  While its path is live *)
(* a number is held by at most one goroutine, is not held once it          *)
(* circulates, and circulates with one set of frames only.  The argument   *)
(* stops when the path goes down, because UnregisterPath restarts the      *)
(* numbering; from then on nothing more is written on the path.            *)
(***************************************************************************)

\* A path that has not gone down.
Live(p) == pathState[p] \notin {"closed", "failed"}

\* The path and number of a packet, and of what a goroutine holds.
Key(w) == <<w.pid, w.seq>>
Held(t) == <<sub[t].pid, sub[t].seq>>
\* Goroutines that hold a number which is not pending yet, and those that write a packet.
Holders == {t \in Threads : sub[t].pc \in {"check", "register"}}
Writers == {t \in Threads : sub[t].pc = "write"}

\* The packets of the pending table, those being written, and all that circulate.
PendingPackets == {OnWire(k, pending[k].frames) : k \in {j \in Keys : IsPending(j)}}
WriterPackets == {OnWire(Held(t), sub[t].frames) : t \in Writers}
Circulating == wire \cup rtx.tasks \cup PendingPackets \cup WriterPackets

\* A circulating number has been given out and names one packet.
CirculatingOK ==
    \A v \in Circulating : Live(v.pid) =>
        /\ v.seq <= nextPacketSeq[v.pid]
        /\ \A w \in Circulating : Key(v) = Key(w) => v = w

\* A held number has been given out, does not circulate and has no other holder.
HoldersOK ==
    \A t \in Holders : Live(sub[t].pid) =>
        /\ sub[t].seq <= nextPacketSeq[sub[t].pid]
        /\ \A w \in Circulating : Key(w) # Held(t)
        /\ \A u \in Holders : Held(u) = Held(t) => u = t

\* Only what was written is acknowledged, and it is no longer pending.
AckedOK ==
    \A k \in acked :
        /\ \E w \in wire : Key(w) = k
        /\ Live(k[1]) => ~IsPending(k)

\* The inductive invariant.
NumberInv == CirculatingOK /\ HoldersOK /\ AckedOK /\ WireIdentity

(***************************************************************************)
(* Most steps put nothing new into circulation.                            *)
(***************************************************************************)

\* What a step may do to keep the invariant without handing out or registering a
\* number: every packet that circulates afterwards circulated before.
WireShrinks ==
    /\ wire \subseteq wire' /\ wire' \subseteq Circulating
    /\ \A w \in wire' \ wire : Live(w.pid)

\* The pending table gets no new packet.
PendingShrinks ==
    \A k \in Keys : IsPending(k)' => IsPending(k) /\ pending'[k].frames = pending[k].frames

\* No goroutine gets a packet to write or a number to hold.
SubShrinks ==
    /\ \A u \in Threads : sub'[u].pc = "write" => sub'[u] = sub[u]
    /\ \A u \in Threads : sub'[u].pc \in {"check", "register"} =>
           /\ sub[u].pc \in {"check", "register"}
           /\ sub'[u].pid = sub[u].pid /\ sub'[u].seq = sub[u].seq

\* No path comes to life or gives out a number.
PathsShrink ==
    \A p \in PathIDs : Live(p)' => Live(p) /\ nextPacketSeq'[p] = nextPacketSeq[p]

\* All of it, and the retransmit goroutine takes only what circulates.
Shrinks ==
    /\ WireShrinks /\ PendingShrinks /\ SubShrinks /\ PathsShrink
    /\ rtx'.tasks \subseteq Circulating

\* What circulates are packets.
LEMMA CirculatingTyped == TypeInv => Circulating \subseteq Packet
<1> SUFFICES ASSUME TypeInv PROVE Circulating \subseteq Packet
  OBVIOUS
<1>1. PendingPackets \subseteq Packet
  BY DEF PendingPackets, OnWire, Packet, Keys, PendingPacket, TypeInv, TypeOK
<1>2. \A t \in Writers : OnWire(Held(t), sub[t].frames) \in Packet
  <2>1. \A t \in Writers : sub[t].pid \in PathIDs /\ sub[t].seq \in Seqs
    BY DEF Writers, TypeInv, SubOK, Submitting, Numbered
  <2>2. \A t \in Writers : sub[t].frames \in SUBSET Frame
    BY DEF Writers, TypeInv, TypeOK
  <2> QED
    BY <2>1, <2>2 DEF OnWire, Held, Packet
<1>3. WriterPackets \subseteq Packet
  BY <1>2 DEF WriterPackets
<1> QED
  BY <1>1, <1>3 DEF Circulating, TypeInv, TypeOK

\* A number that is held is one, of a path.
LEMMA HoldersTyped ==
    TypeInv => \A t \in Holders : sub[t].pid \in PathIDs /\ sub[t].seq \in Seqs
BY DEF Holders, TypeInv, SubOK, Submitting, Numbered

\* Such a step puts nothing into circulation ...
LEMMA ShrinksCirculating ==
    ASSUME Shrinks PROVE Circulating' \subseteq Circulating
<1>1. PendingPackets' \subseteq PendingPackets
  BY DEF PendingPackets, Shrinks, PendingShrinks
<1>2. WriterPackets' \subseteq WriterPackets
  BY DEF WriterPackets, Writers, Held, Shrinks, SubShrinks
<1>3. wire' \subseteq Circulating /\ rtx'.tasks \subseteq Circulating
  BY DEF Shrinks, WireShrinks
<1> QED
  BY <1>1, <1>2, <1>3 DEF Circulating

\* ... and keeps the invariant.
LEMMA ShrinksKeeps ==
    ASSUME TypeInv, NumberInv, Shrinks
    PROVE  /\ CirculatingOK' /\ HoldersOK' /\ WireIdentity'
           /\ acked' = acked => AckedOK'
<1>1. Circulating' \subseteq Circulating /\ Circulating \subseteq Packet
  BY ShrinksCirculating, CirculatingTyped
<1>2. \A v \in Packet : v.pid \in PathIDs
  BY DEF Packet
<1>3. CirculatingOK'
  BY <1>1, <1>2 DEF Shrinks, PathsShrink, NumberInv, CirculatingOK, Key
<1>4. \A u \in Holders' : /\ u \in Holders /\ sub'[u].pid = sub[u].pid
                          /\ sub'[u].seq = sub[u].seq /\ sub[u].pid \in PathIDs
  BY HoldersTyped DEF Shrinks, SubShrinks, Holders
<1>5. HoldersOK'
  BY <1>1, <1>4 DEF Shrinks, PathsShrink, NumberInv, HoldersOK, Held, Key
<1>6. WireIdentity'
  <2> SUFFICES ASSUME NEW v \in wire', NEW w \in wire', v.pid = w.pid, v.seq = w.seq
               PROVE  v.frames = w.frames
    BY DEF WireIdentity
  <2>1. CASE v \in wire /\ w \in wire
    BY <2>1 DEF NumberInv, WireIdentity
  <2>2. CASE v \notin wire \/ w \notin wire
    <3>1. Live(v.pid) /\ v \in Circulating /\ w \in Circulating
      BY <2>2 DEF Shrinks, WireShrinks
    <3> QED
      BY <3>1 DEF NumberInv, CirculatingOK, Key
  <2> QED
    BY <2>1, <2>2
<1>7. ASSUME acked' = acked PROVE AckedOK'
  <2>1. \A k \in acked : k \in Keys /\ k[1] \in PathIDs
    BY DEF TypeInv, TypeOK, Keys
  <2> QED
    BY <1>7, <2>1 DEF Shrinks, WireShrinks, PendingShrinks, PathsShrink,
       NumberInv, AckedOK, Key
<1> QED
  BY <1>3, <1>5, <1>6, <1>7

\* A goroutine that ends up without a packet number in its hands.
LEMMA LetsGo ==
    ASSUME TypeInv, NEW t \in Threads,
           \A u \in Threads : u # t => sub'[u] = sub[u],
           sub'[t].pc \notin Numbered
    PROVE  SubShrinks
BY DEF SubShrinks, Numbered

\* What a step that leaves most variables alone need not say again.
LEMMA UnchangedShrinks ==
    /\ UNCHANGED wire => WireShrinks
    /\ UNCHANGED pending => PendingShrinks
    /\ UNCHANGED sub => SubShrinks
    /\ UNCHANGED <<pathState, nextPacketSeq>> => PathsShrink
    /\ UNCHANGED rtx => rtx'.tasks \subseteq Circulating
BY DEF WireShrinks, PendingShrinks, IsPending, SubShrinks, PathsShrink, Live, Circulating

\* Steps of a path.
LEMMA PathStepShrinks ==
    ASSUME TypeInv, NEW p \in PathIDs, PathStep(p)
    PROVE  Shrinks
<1> USE UnchangedShrinks DEF pathVars, streamVars, loopVars, closeVars, Shrinks
<1>1. CASE NewPath(p)
  BY <1>1 DEF NewPath, Register, PathsShrink, Live, TypeInv, TypeOK
<1>2. CASE PathReady(p)
  BY <1>2 DEF PathReady, PathsShrink, Live, TypeInv, TypeOK
<1>3. CASE StreamAddPath(p)
  BY <1>3 DEF StreamAddPath, Register
<1>4. CASE UnregisterPath(p)
  BY <1>4 DEF UnregisterPath, Leaves, PathsShrink, PendingShrinks, IsPending, Absent, Live,
     TypeInv, TypeOK
<1>5. ASSUME NEW final \in {"closed", "failed"}, PathDown(p, final)
      PROVE  Shrinks
  BY <1>5 DEF PathDown, PathsShrink, Live, TypeInv, TypeOK
<1>6. ASSUME NEW ack \in SUBSET Seqs, OnAck(p, ack)
      PROVE  Shrinks
  BY <1>6 DEF OnAck, PendingShrinks, IsPending, Absent
<1> QED
  BY <1>1, <1>2, <1>3, <1>4, <1>5, <1>6 DEF PathStep

\* Steps of the stream manager.
LEMMA StreamStepShrinks ==
    ASSUME TypeInv, NEW s \in StreamIDs, StreamStep(s)
    PROVE  Shrinks
<1> USE UnchangedShrinks DEF pathVars, streamVars, loopVars, closeVars, Shrinks
<1>1. CASE CloseStream(s)
  BY <1>1 DEF CloseStream
<1>2. CASE CancelFramesForStream(s)
  BY <1>2 DEF CancelFramesForStream, PendingShrinks, IsPending, Absent
<1> QED
  BY <1>1, <1>2 DEF StreamStep

\* A caller begins a submission.
LEMMA StartShrinks ==
    ASSUME TypeInv, NEW t \in Callers, NEW p \in PathIDs, Start(t, p)
    PROVE  Shrinks
<1> USE UnchangedShrinks DEF pathVars, streamVars, loopVars, closeVars, Shrinks
<1>0. sub \in [Threads -> SubRecord] /\ t \in Threads
  BY SubType DEF TypeInv, Threads
<1>1. ASSUME NEW n \in ControlSizes[t], SubmitFrame(t, p, n)
      PROVE  Shrinks
  <2>1. SubShrinks
    <3>1. CASE closed
      BY <1>1, <3>1 DEF SubmitFrame
    <3>2. CASE ~closed
      <4>1. sub' = [sub EXCEPT ![t] = [Idle EXCEPT !.pc = "seq", !.pid = p,
                                                   !.frames = {ControlFrame(n)}]]
        BY <1>1, <3>2 DEF SubmitFrame
      <4>2. sub'[t].pc = "seq" /\ \A u \in Threads : u # t => sub'[u] = sub[u]
        BY <1>0, <4>1 DEF Idle
      <4> QED
        BY <1>0, <4>2, LetsGo DEF Numbered
    <3> QED
      BY <3>1, <3>2
  <2> QED
    BY <1>1, <2>1 DEF SubmitFrame
<1>2. ASSUME NEW s \in StreamIDs, StreamFlush(t, p, s)
      PROVE  Shrinks
  <2>1. SubShrinks
    BY <1>0, <1>2, LetsGo DEF StreamFlush, Idle, Numbered
  <2> QED
    BY <1>2, <2>1 DEF StreamFlush
<1>3. ASSUME NEW s \in StreamIDs, NEW n \in WriteSizes, StreamWrite(t, p, s, n)
      PROVE  Shrinks
  <2>1. SubShrinks
    BY <1>0, <1>3, LetsGo DEF StreamWrite, Idle, Numbered
  <2> QED
    BY <1>3, <2>1 DEF StreamWrite
<1> QED
  BY <1>1, <1>2, <1>3 DEF Start

\* A goroutine that returns lets its number go.
LEMMA ReturnShrinks ==
    ASSUME TypeInv, NEW t \in Threads, sub' = Return(t)
    PROVE  SubShrinks
BY ReturnType, LetsGo DEF Numbered

\* Every step of a submission but the two that number and register a packet.
LEMMA ProgressShrinks ==
    ASSUME TypeInv, NEW t \in Threads,
           \/ SubmitSendStream(t) \/ PopAndPack(t) \/ CheckPath(t)
           \/ WritePacket(t) \/ CheckBuffered(t) \/ ScheduleFlush(t)
    PROVE  Shrinks
<1> USE UnchangedShrinks DEF pathVars, streamVars, loopVars, closeVars, Shrinks
<1>0. sub \in [Threads -> SubRecord]
  BY SubType DEF TypeInv
<1>a. ASSUME NEW pc \in PCs \ Numbered, sub' = [sub EXCEPT ![t].pc = pc]
      PROVE  SubShrinks
  BY <1>0, <1>a, LetsGo DEF SubRecord
<1>1. CASE SubmitSendStream(t)
  <2>1. sub' = Return(t) \/ sub' = [sub EXCEPT ![t].pc = "pop"]
    BY <1>1 DEF SubmitSendStream, Succeed
  <2>2. SubShrinks
    BY <2>1, <1>a, ReturnShrinks DEF PCs, Numbered
  <2> QED
    BY <1>1, <2>2 DEF SubmitSendStream
<1>2. CASE PopAndPack(t)
  <2> DEFINE fit == PackedFrames(PopFrames(send[sub[t].chunk.sid], sub[t].chunk.sid,
                                           MaxPacketSize), MaxPacketSize)
  <2>1. sub' = Return(t) \/ sub' = [sub EXCEPT ![t].pc = "seq", ![t].frames = fit]
    BY <1>2 DEF PopAndPack, Succeed
  <2>2. SubShrinks
    <3>1. CASE sub' = Return(t)
      BY <3>1, ReturnShrinks
    <3>2. CASE sub' = [sub EXCEPT ![t].pc = "seq", ![t].frames = fit]
      <4> HIDE DEF fit
      <4> QED
        BY <1>0, <3>2, LetsGo DEF SubRecord, Numbered
    <3> QED
      BY <2>1, <3>1, <3>2
  <2> QED
    BY <1>2, <2>2 DEF PopAndPack
<1>3. CASE CheckPath(t)
  <2>1. sub' = Return(t) \/ sub' = [sub EXCEPT ![t].pc = "register"]
    BY <1>3 DEF CheckPath
  <2>2. SubShrinks
    <3>1. CASE sub' = Return(t)
      BY <3>1, ReturnShrinks
    <3>2. CASE sub' = [sub EXCEPT ![t].pc = "register"]
      BY <1>0, <1>3, <3>2 DEF CheckPath, SubRecord, SubShrinks
    <3> QED
      BY <2>1, <3>1, <3>2
  <2> QED
    BY <1>3, <2>2 DEF CheckPath
<1>4. CASE WritePacket(t)
  <2> DEFINE w == OnWire(Held(t), sub[t].frames)
  <2>1. \/ sub' = Return(t)
        \/ \E c \in {"more", "hung"} : sub' = [sub EXCEPT ![t].pc = c]
    BY <1>4 DEF WritePacket
  <2>2. SubShrinks
    BY <2>1, <1>a, ReturnShrinks DEF PCs, Numbered
  <2>3. w \in Circulating /\ w.pid = sub[t].pid
    BY <1>4 DEF WritePacket, Circulating, WriterPackets, Writers, OnWire, Held
  <2>4. wire' = wire \/ (wire' = wire \cup {w} /\ pathState[sub[t].pid] = "ready")
    BY <1>4 DEF WritePacket, WriteOutcome, Held
  <2>5. WireShrinks
    <3>1. wire \subseteq Circulating
      BY DEF Circulating
    <3> HIDE DEF w
    <3> QED
      BY <2>3, <2>4, <3>1 DEF WireShrinks, Live
  <2> QED
    BY <1>4, <2>2, <2>5 DEF WritePacket
<1>5. CASE CheckBuffered(t)
  <2>1. sub' = Return(t) \/ sub' = [sub EXCEPT ![t].pc = "schedule"]
    BY <1>5 DEF CheckBuffered, Succeed
  <2>2. SubShrinks
    BY <2>1, <1>a, ReturnShrinks DEF PCs, Numbered
  <2> QED
    BY <1>5, <2>2 DEF CheckBuffered
<1>6. CASE ScheduleFlush(t)
  <2>1. sub' = Return(t) \/ UNCHANGED sub
    BY <1>6 DEF ScheduleFlush, Succeed
  <2>2. SubShrinks
    BY <2>1, ReturnShrinks
  <2> QED
    BY <1>6, <2>2 DEF ScheduleFlush
<1> QED
  BY <1>1, <1>2, <1>3, <1>4, <1>5, <1>6

\* Steps of the retransmit goroutine.
LEMMA RtxShrinks ==
    ASSUME TypeInv, RtxStep \/ RtxStop
    PROVE  Shrinks
<1> USE UnchangedShrinks DEF pathVars, streamVars, loopVars, closeVars, Shrinks
<1>1. ASSUME NEW due \in SUBSET Keys, RtxCollect(due)
      PROVE  Shrinks
  <2>1. rtx'.tasks \subseteq PendingPackets
    BY <1>1 DEF RtxCollect, Counted, PendingPackets, TypeInv, TypeOK
  <2>2. PendingShrinks
    BY <1>1 DEF RtxCollect, Counted, PendingShrinks, IsPending, Absent, TypeInv, TypeOK
  <2> QED
    BY <1>1, <2>1, <2>2 DEF RtxCollect, Counted, Circulating
<1>2. CASE RtxWrite
  <2>1. PICK w \in rtx.tasks :
            \E r \in IF w.pid \in paths THEN WriteOutcome(w.pid) ELSE {"err"} :
              /\ wire' = IF r = "ok" THEN wire \cup {w} ELSE wire
              /\ rtx' = [rtx EXCEPT !.pc = IF r = "hang" THEN "hung" ELSE "update",
                                    !.key = <<w.pid, w.seq>>, !.tasks = @ \ {w}]
    BY <1>2 DEF RtxWrite
  <2>2. rtx'.tasks \subseteq rtx.tasks
    BY <2>1 DEF TypeInv, TypeOK
  <2>3. wire' = wire \/ (wire' = wire \cup {w} /\ pathState[w.pid] = "ready")
    BY <2>1 DEF WriteOutcome
  <2>4. WireShrinks
    BY <2>1, <2>3 DEF WireShrinks, Circulating, Live
  <2> QED
    BY <1>2, <2>2, <2>4 DEF RtxWrite, Circulating
<1>3. CASE RtxUpdate
  <2>1. rtx'.tasks = rtx.tasks
    BY <1>3 DEF RtxUpdate, Rescheduled, TypeInv, TypeOK
  <2>2. PendingShrinks
    BY <1>3 DEF RtxUpdate, Rescheduled, PendingShrinks, IsPending, Absent, TypeInv, TypeOK
  <2> QED
    BY <1>3, <2>1, <2>2 DEF RtxUpdate, Rescheduled, Circulating
<1>4. CASE RtxStop
  <2>1. rtx'.tasks = rtx.tasks
    BY <1>4 DEF RtxStop, TypeInv, TypeOK
  <2> QED
    BY <1>4, <2>1 DEF RtxStop, Circulating
<1> QED
  BY <1>1, <1>2, <1>3, <1>4 DEF RtxStep

\* Steps of the flush goroutine.
LEMMA FlushShrinks ==
    ASSUME TypeInv, FlushStep
    PROVE  Shrinks
<1> USE UnchangedShrinks DEF pathVars, streamVars, loopVars, closeVars, Shrinks
<1>0. sub \in [Threads -> SubRecord] /\ Flusher \in Threads
  BY SubType DEF TypeInv, Threads
<1>1. CASE FlushTick
  BY <1>1 DEF FlushTick
<1>2. CASE FlushVisit
  <2>1. SubShrinks
    BY <1>0, <1>2, LetsGo DEF FlushVisit, Idle, Numbered
  <2> QED
    BY <1>2, <2>1 DEF FlushVisit
<1>3. CASE FlushCheck
  <2>1. SubShrinks
    BY <1>0, <1>3, LetsGo DEF FlushCheck, Idle, Numbered, SubRecord
  <2> QED
    BY <1>3, <2>1 DEF FlushCheck
<1>4. CASE FlushUnschedule
  <2>1. SubShrinks
    BY <1>0, <1>4, LetsGo DEF FlushUnschedule, Idle, Numbered
  <2> QED
    BY <1>4, <2>1 DEF FlushUnschedule
<1>5. CASE FlushStop
  <2>1. SubShrinks
    BY <1>0, <1>5, LetsGo DEF FlushStop, Numbered, SubRecord
  <2> QED
    BY <1>5, <2>1 DEF FlushStop
<1> QED
  BY <1>1, <1>2, <1>3, <1>4, <1>5 DEF FlushStep

\* Close.
LEMMA CloseShrinks ==
    ASSUME TypeInv, Close \/ CloseRelease \/ UNCHANGED vars
    PROVE  Shrinks
<1> USE UnchangedShrinks DEF pathVars, streamVars, loopVars, closeVars, Shrinks
<1>1. CASE Close
  BY <1>1 DEF Close
<1>2. CASE CloseRelease
  BY <1>2 DEF CloseRelease, PendingShrinks, IsPending, Absent
<1>3. CASE UNCHANGED vars
  BY <1>3 DEF vars
<1> QED
  BY <1>1, <1>2, <1>3

(***************************************************************************)
(* The three steps that do more.                                           *)
(***************************************************************************)

\* Only what another step left circulating circulates, besides the packet x.
LEMMA CirculatingAfter ==
    ASSUME NEW x, UNCHANGED <<wire, rtx>>,
           PendingPackets' \subseteq PendingPackets \cup {x},
           WriterPackets' \subseteq WriterPackets \cup {x}
    PROVE  Circulating' \subseteq Circulating \cup {x}
BY DEF Circulating

\* A number is given out: it is above all that circulate or are held.
LEMMA AssignSeqKeeps ==
    ASSUME TypeInv, NumberInv, NEW t \in Threads, AssignSeq(t)
    PROVE  NumberInv'
<1> DEFINE p == sub[t].pid
           n == nextPacketSeq[p] + 1
<1> USE DEF pathVars, streamVars, loopVars, closeVars
<1>1. sub \in [Threads -> SubRecord] /\ p \in PathIDs
  BY SubType DEF AssignSeq, TypeInv, SubOK, Submitting
<1>2. /\ UNCHANGED <<wire, rtx, pending, pathState, acked>>
      /\ nextPacketSeq' = [nextPacketSeq EXCEPT ![p] = n]
      /\ sub[t].pc = "seq"
      /\ sub' = Return(t) \/ sub' = [sub EXCEPT ![t].pc = "check", ![t].seq = n]
  BY DEF AssignSeq
<1>3. \A q \in PathIDs : /\ nextPacketSeq[q] \in Nat
                         /\ nextPacketSeq'[q] = IF q = p THEN n ELSE nextPacketSeq[q]
  BY <1>1, <1>2 DEF TypeInv, TypeOK
<1>4. \A u \in Threads : u # t => sub'[u] = sub[u]
  BY <1>1, <1>2, ReturnType
<1>5. /\ sub'[t].pc \in {"idle", "flushed", "check"}
      /\ sub'[t].pc = "check" => sub'[t].pid = p /\ sub'[t].seq = n
  <2>1. CASE sub' = Return(t)
    BY <2>1, ReturnType
  <2>2. CASE sub' = [sub EXCEPT ![t].pc = "check", ![t].seq = n]
    BY <1>1, <2>2 DEF SubRecord
  <2> QED
    BY <1>2, <2>1, <2>2
<1> HIDE DEF n, p
<1>6. Circulating' = Circulating
  <2>1. PendingPackets' = PendingPackets
    BY <1>2 DEF PendingPackets, IsPending
  <2>2. Writers' = Writers /\ \A u \in Writers : sub'[u] = sub[u]
    BY <1>2, <1>4, <1>5 DEF Writers
  <2>3. WriterPackets' = WriterPackets
    BY <2>2 DEF WriterPackets, Held
  <2> QED
    BY <1>2, <2>1, <2>3 DEF Circulating
<1>7. \A w \in Circulating : w.pid \in PathIDs /\ w.seq \in Nat
  BY CirculatingTyped DEF Packet, Seqs
<1>8. \A u \in Holders : sub[u].pid \in PathIDs /\ sub[u].seq \in Nat
  BY HoldersTyped DEF Seqs
<1>9. n = nextPacketSeq[p] + 1
  BY DEF n
<1>10. CirculatingOK'
  BY <1>1, <1>2, <1>3, <1>6, <1>7, <1>9 DEF NumberInv, CirculatingOK, Live, Key
<1>11. \A u \in Holders' : u = t \/ (u \in Holders /\ sub'[u] = sub[u])
  BY <1>4 DEF Holders
<1>12. t \notin Holders /\ (t \in Holders' => sub'[t].pid = p /\ sub'[t].seq = n)
  BY <1>2, <1>5 DEF Holders
<1>13. HoldersOK'
  <2> SUFFICES ASSUME NEW u \in Holders', Live(sub[u].pid)'
               PROVE  /\ sub'[u].seq <= nextPacketSeq'[sub'[u].pid]
                      /\ \A w \in Circulating : Key(w) # Held(u)'
                      /\ \A v \in Holders' : Held(v)' = Held(u)' => v = u
    BY <1>6 DEF HoldersOK, Key
  <2>1. CASE u = t
    <3>1. Held(t)' = <<p, n>> /\ Live(p)
      BY <1>2, <1>12, <2>1 DEF Held, Live
    <3>2. \A w \in Circulating : Key(w) # <<p, n>>
      BY <1>1, <1>3, <1>7, <1>9, <3>1 DEF NumberInv, CirculatingOK, Key
    <3>3. \A v \in Holders' : v # t => Held(v)' # <<p, n>>
      BY <1>1, <1>3, <1>8, <1>9, <1>11, <3>1 DEF NumberInv, HoldersOK, Held
    <3> QED
      BY <1>1, <1>3, <1>9, <1>12, <2>1, <3>1, <3>2, <3>3
  <2>2. CASE u # t
    <3>1. u \in Holders /\ sub'[u] = sub[u] /\ Live(sub[u].pid) /\ Held(u)' = Held(u)
      BY <1>2, <1>11, <2>2 DEF Held, Live
    <3>2. sub[u].seq <= nextPacketSeq[sub[u].pid]
      BY <3>1 DEF NumberInv, HoldersOK
    <3>3. t \in Holders' => Held(t)' # Held(u)
      BY <1>1, <1>3, <1>8, <1>9, <1>12, <3>1, <3>2 DEF Held
    <3>4. \A v \in Holders' : Held(v)' = Held(u)' => v = u
      BY <1>11, <3>1, <3>3 DEF NumberInv, HoldersOK, Held
    <3>5. sub'[u].seq <= nextPacketSeq'[sub'[u].pid]
      BY <1>1, <1>3, <1>8, <1>9, <3>1, <3>2
    <3> QED
      BY <3>1, <3>4, <3>5 DEF NumberInv, HoldersOK
  <2> QED
    BY <2>1, <2>2
<1> QED
  BY <1>2, <1>10, <1>13 DEF NumberInv, AckedOK, WireIdentity, IsPending, Live, Key

\* The held number begins to circulate.
LEMMA RegisterPendingKeeps ==
    ASSUME TypeInv, NumberInv, NEW t \in Threads, RegisterPending(t)
    PROVE  NumberInv'
<1> USE DEF pathVars, streamVars, loopVars, closeVars
<1>1. CASE closed
  <2>1. Shrinks /\ acked' = acked
    BY <1>1, UnchangedShrinks DEF RegisterPending, Shrinks
  <2> QED
    BY <2>1, ShrinksKeeps DEF NumberInv
<1>2. CASE ~closed
  <2> DEFINE k == <<sub[t].pid, sub[t].seq>>
             x == OnWire(k, sub[t].frames)
  <2>1. sub \in [Threads -> SubRecord] /\ k \in Keys /\ sub[t].pid \in PathIDs
    BY SubType DEF RegisterPending, TypeInv, SubOK, Submitting, Numbered, Keys
  <2>2. /\ UNCHANGED <<wire, rtx, pathState, nextPacketSeq, acked>>
        /\ pending' = [pending EXCEPT ![k] = [attempts |-> 1, frames |-> sub[t].frames]]
        /\ sub[t].pc = "register" /\ sub' = [sub EXCEPT ![t].pc = "write"]
    BY <1>2 DEF RegisterPending
  <2>3. \A j \in Keys : pending'[j] = IF j = k THEN [attempts |-> 1, frames |-> sub[t].frames]
                                             ELSE pending[j]
    BY <2>1, <2>2 DEF TypeInv, TypeOK
  <2>4. /\ \A u \in Threads : u # t => sub'[u] = sub[u]
        /\ sub'[t].pc = "write" /\ sub'[t].pid = sub[t].pid
        /\ sub'[t].seq = sub[t].seq /\ sub'[t].frames = sub[t].frames
    BY <2>1, <2>2 DEF SubRecord
  <2>5. Key(x) = k /\ Held(t) = k /\ x.pid = sub[t].pid /\ x.seq = sub[t].seq
    BY DEF Key, OnWire, Held
  <2>6. PendingPackets' \subseteq PendingPackets \cup {x}
    BY <2>3 DEF PendingPackets, IsPending
  <2>7. WriterPackets' \subseteq WriterPackets \cup {x}
    BY <2>4 DEF WriterPackets, Writers, Held
  <2> HIDE DEF x
  <2>8. Circulating' \subseteq Circulating \cup {x}
    BY <2>2, <2>6, <2>7, CirculatingAfter
  <2>9. t \in Holders /\ \A u \in Holders' : u # t /\ u \in Holders /\ sub'[u] = sub[u]
    BY <2>2, <2>4 DEF Holders
  <2>10. Live(sub[t].pid) => /\ sub[t].seq <= nextPacketSeq[sub[t].pid]
                             /\ \A w \in Circulating : Key(w) # k
    BY <2>5, <2>9 DEF NumberInv, HoldersOK
  <2>11. \A p : Live(p)' <=> Live(p)
    BY <2>2 DEF Live
  <2>12. CirculatingOK'
    <3> SUFFICES ASSUME NEW v \in Circulating', Live(v.pid)
                 PROVE  /\ v.seq <= nextPacketSeq[v.pid]
                        /\ \A w \in Circulating' : Key(v) = Key(w) => v = w
      BY <2>2, <2>11 DEF CirculatingOK, Key
    <3>1. CASE v = x
      BY <2>5, <2>8, <2>10, <3>1
    <3>2. CASE v \in Circulating
      <4>1. Key(v) = k => ~Live(sub[t].pid)
        BY <2>10, <3>2
      <4>2. Key(v) = k => v.pid = sub[t].pid
        BY DEF Key
      <4> QED
        BY <2>5, <2>8, <3>2, <4>1, <4>2 DEF NumberInv, CirculatingOK
    <3> QED
      BY <2>8, <3>1, <3>2
  <2>13. HoldersOK'
    <3> SUFFICES ASSUME NEW u \in Holders', Live(sub[u].pid)
                 PROVE  /\ sub[u].seq <= nextPacketSeq[sub[u].pid]
                        /\ \A w \in Circulating' : Key(w) # Held(u)
                        /\ \A v \in Holders' : Held(v) = Held(u) => v = u
      BY <2>2, <2>9, <2>11 DEF HoldersOK, Held, Key
    <3>1. /\ sub[u].seq <= nextPacketSeq[sub[u].pid]
          /\ \A w \in Circulating : Key(w) # Held(u)
          /\ \A v \in Holders : Held(v) = Held(u) => v = u
      BY <2>9 DEF NumberInv, HoldersOK
    <3>2. Key(x) # Held(u)
      BY <2>5, <2>9, <3>1
    <3> QED
      BY <2>8, <2>9, <3>1, <3>2
  <2>14. AckedOK'
    <3>1. \A j \in acked : Live(j[1]) => j # k
      <4> SUFFICES ASSUME NEW j \in acked, j = k, Live(j[1])
                   PROVE  FALSE
        OBVIOUS
      <4>1. PICK w \in wire : Key(w) = k
        BY DEF NumberInv, AckedOK
      <4> QED
        BY <2>10, <4>1 DEF Circulating
    <3>2. acked \subseteq Keys
      BY DEF TypeInv, TypeOK
    <3> QED
      BY <2>2, <2>3, <2>11, <3>1, <3>2 DEF NumberInv, AckedOK, IsPending, Key
  <2> QED
    BY <2>2, <2>12, <2>13, <2>14 DEF NumberInv, WireIdentity
<1> QED
  BY <1>1, <1>2

\* An acknowledgement takes packets out of the pending table.
LEMMA OnAckKeeps ==
    ASSUME TypeInv, NumberInv, NEW p \in PathIDs, NEW ack \in SUBSET Seqs, OnAck(p, ack)
    PROVE  NumberInv'
<1>1. Shrinks
  BY PathStepShrinks DEF PathStep
<1>2. \A q \in PathIDs : Live(q)' <=> Live(q)
  BY DEF OnAck, pathVars, Live
<1>3. \A k \in {p} \X ack : k \in Keys /\ ~IsPending(k)' /\ \E w \in wire : Key(w) = k
  BY DEF OnAck, Keys, Key, IsPending, Absent
<1>4. \A k \in acked : ~IsPending(k) => ~IsPending(k)'
  BY <1>1 DEF Shrinks, PendingShrinks, TypeInv, TypeOK
<1>5. acked' = acked \cup ({p} \X ack) /\ UNCHANGED wire /\ acked \subseteq Keys
  BY DEF OnAck, TypeInv, TypeOK
<1>6. \A k \in Keys : k[1] \in PathIDs
  BY DEF Keys
<1>7. AckedOK'
  BY <1>2, <1>3, <1>4, <1>5, <1>6 DEF NumberInv, AckedOK, Key
<1> QED
  BY <1>1, <1>7, ShrinksKeeps DEF NumberInv

\* Every step keeps the invariant.
LEMMA NumberStep == TypeInv /\ NumberInv /\ [Next]_vars => NumberInv'
<1> SUFFICES ASSUME TypeInv, NumberInv, [Next]_vars PROVE NumberInv'
  OBVIOUS
<1>1. ASSUME Shrinks, acked' = acked PROVE NumberInv'
  BY <1>1, ShrinksKeeps DEF NumberInv
<1>2. ASSUME NEW p \in PathIDs, PathStep(p) PROVE NumberInv'
  <2>1. CASE \E ack \in SUBSET Seqs : OnAck(p, ack)
    BY <2>1, OnAckKeeps
  <2>2. CASE acked' = acked
    BY <1>1, <1>2, <2>2, PathStepShrinks
  <2>3. (\E ack \in SUBSET Seqs : OnAck(p, ack)) \/ acked' = acked
    BY <1>2 DEF PathStep, NewPath, PathReady, StreamAddPath, UnregisterPath, PathDown
  <2> QED
    BY <2>1, <2>2, <2>3
<1>3. ASSUME NEW s \in StreamIDs, StreamStep(s) PROVE NumberInv'
  <2>1. acked' = acked
    BY <1>3 DEF StreamStep, CloseStream, CancelFramesForStream
  <2> QED
    BY <1>1, <1>3, <2>1, StreamStepShrinks
<1>4. ASSUME NEW t \in Callers, NEW p \in PathIDs, Start(t, p) PROVE NumberInv'
  <2>1. acked' = acked
    BY <1>4 DEF Start, SubmitFrame, StreamFlush, StreamWrite
  <2> QED
    BY <1>1, <1>4, <2>1, StartShrinks
<1>5. ASSUME NEW t \in Threads, Progress(t) PROVE NumberInv'
  <2>1. CASE AssignSeq(t)
    BY <2>1, AssignSeqKeeps
  <2>2. CASE RegisterPending(t)
    BY <2>2, RegisterPendingKeeps
  <2>3. CASE \/ SubmitSendStream(t) \/ PopAndPack(t) \/ CheckPath(t)
             \/ WritePacket(t) \/ CheckBuffered(t) \/ ScheduleFlush(t)
    <3>1. acked' = acked
      BY <2>3 DEF SubmitSendStream, PopAndPack, CheckPath, WritePacket, CheckBuffered,
         ScheduleFlush
    <3> QED
      BY <1>1, <2>3, <3>1, ProgressShrinks
  <2> QED
    BY <1>5, <2>1, <2>2, <2>3 DEF Progress
<1>6. CASE RtxStep \/ RtxStop
  <2>1. acked' = acked
    BY <1>6 DEF RtxStep, RtxStop, RtxCollect, RtxWrite, RtxUpdate
  <2> QED
    BY <1>1, <1>6, <2>1, RtxShrinks
<1>7. CASE FlushStep
  <2>1. acked' = acked
    BY <1>7 DEF FlushStep, FlushTick, FlushVisit, FlushCheck, FlushUnschedule, FlushStop
  <2> QED
    BY <1>1, <1>7, <2>1, FlushShrinks
<1>8. CASE Close \/ CloseRelease \/ UNCHANGED vars
  <2>1. acked' = acked
    BY <1>8 DEF Close, CloseRelease, vars
  <2> QED
    BY <1>1, <1>8, <2>1, CloseShrinks
<1> QED
  BY <1>2, <1>3, <1>4, <1>5, <1>6, <1>7, <1>8 DEF Next

\* NumberInv holds initially: nothing circulates.
LEMMA InitNumberInv == Init => NumberInv
<1> SUFFICES ASSUME Init PROVE NumberInv
  OBVIOUS
<1>1. Circulating = {}
  BY DEF Init, Circulating, PendingPackets, WriterPackets, Writers, Idle, RtxIdle,
     IsPending, Absent
<1>2. Holders = {}
  BY DEF Init, Holders, Idle
<1> QED
  BY <1>1, <1>2 DEF Init, NumberInv, CirculatingOK, HoldersOK, AckedOK, WireIdentity

\* What keeps packet numbers apart: every number in circulation was given out, and no number
\* circulates with two contents.
THEOREM NumberInvariant == Spec => []NumberInv
BY InitNumberInv, NumberStep, TypeInvariant, PTL DEF Spec

\* A packet number names one packet, first transmission or retransmission, for any
\* number of goroutines and paths.
THEOREM WireIdentityHolds == Spec => []WireIdentity
<1>1. NumberInv => WireIdentity
  BY DEF NumberInv
<1> QED
  BY <1>1, NumberInvariant, PTL

\* An acknowledged packet never becomes pending again on a live path.
THEOREM AckedStaysAcked == Spec => []AckedNotPending
<1>1. NumberInv => AckedNotPending
  BY DEF NumberInv, AckedOK, AckedNotPending, Live
<1> QED
  BY <1>1, NumberInvariant, PTL

=============================================================================
