------------------------------ MODULE PathLink ------------------------------
(***************************************************************************)
(* One path and its QUIC connection (internal/transport/path.go: NewPath,  *)
(* WriteStream, handleWriteError, handleReadError,                         *)
(* tryRecoverTransportStream, closePathDueToFatalError, Close; reader.go:  *)
(* the ends of the reader goroutine).                                      *)
(*                                                                         *)
(* The path has a transport stream at a time, numbered in the order in     *)
(* which they are made, and a reader goroutine for each.  Goroutines:      *)
(* Writers call WriteStream; reader k reads stream k; the Monitor waits    *)
(* for the end of the connection; each of these may leave a goroutine that *)
(* runs closePathDueToFatalError (failer); the session calls Close once.   *)
(* A step takes one lock, or runs from one lock to the next.               *)
(*                                                                         *)
(* QUIC is external: a stream may be reset, the peer may end its side, the *)
(* connection may be lost.  The code tells errors apart by their text:     *)
(* those of a connection closed on purpose are "fatal", all others (an     *)
(* idle timeout too) lead to a recovery of the stream.                     *)
(***************************************************************************)
EXTENDS Naturals, FiniteSets

CONSTANTS
    Writers,      \* goroutines that call WriteStream
    Monitor,      \* the goroutine NewPath leaves to watch the connection
    NoOne,        \* a free lock
    MaxRecovery   \* maxRecoveryAttempts (2 in the source)

Streams == 1 .. MaxRecovery + 1   \* also names their readers
Goroutines == Writers \cup Streams

ASSUME LinkConstants ==
    /\ MaxRecovery \in Nat
    /\ Writers \cap Streams = {} /\ Monitor \notin Goroutines /\ NoOne \notin Goroutines

NoStream == 0

VARIABLES
    conn,           \* "up", or the class of the error its streams give
    reset,          \* streams that have been reset
    ended,          \* streams whose own side is closed: writing fails
    state, closed,  \* p.state, p.closed
    fatalError, attempts,     \* p.fatalError, p.streamRecoveryAttempts
    transportStream,
    streams,        \* how many streams have been made
    registered,     \* the packer knows the path
    streamMu, recoveryMu,     \* transportStreamMu, recoveryMu: who holds them
    newPath,        \* how far NewPath has got
    pc,             \* the writers and the readers
    failer,         \* closePathDueToFatalError
    closer,         \* Path.Close
    reported,       \* HandlePathFailure has been called
    crashed         \* a nil stream was closed in a goroutine that does not recover

link == <<conn, reset, ended>>
flags == <<state, closed, fatalError, attempts, registered>>
locks == <<streamMu, recoveryMu>>
ends == <<failer, closer, reported, crashed>>
vars == <<link, flags, transportStream, streams, locks, newPath, pc, ends>>

Init ==
    /\ conn = "up" /\ reset = {} /\ ended = {}
    /\ state = "initializing" /\ closed = FALSE
    /\ fatalError = FALSE /\ attempts = 0
    /\ transportStream = NoStream /\ streams = 0
    /\ registered = TRUE            \* NewPath registers first
    /\ streamMu = NoOne /\ recoveryMu = NoOne
    /\ newPath = "opening"
    /\ pc = [g \in Goroutines |-> IF g \in Writers THEN "idle" ELSE "none"]
    /\ failer = [g \in Goroutines \cup {Monitor} |-> "none"]
    /\ closer = "no"
    /\ reported = FALSE /\ crashed = FALSE

Goto(g, label) == pc' = [pc EXCEPT ![g] = label]

(***************************************************************************)
(* QUIC                                                                    *)
(***************************************************************************)

LoseConnection(class) ==
    /\ conn = "up"
    /\ conn' = class
    /\ UNCHANGED <<reset, ended, flags, transportStream, streams, locks, newPath, pc, ends>>

ResetStream ==
    /\ transportStream # NoStream
    /\ reset' = reset \cup {transportStream}
    /\ UNCHANGED <<conn, ended, flags, transportStream, streams, locks, newPath, pc, ends>>

\* What a read of stream k, or a write, may report.
ReadErrors(k) == ({conn} \ {"up"}) \cup (IF k \in reset THEN {"other"} ELSE {})
WriteErrors(k) == ReadErrors(k) \cup (IF k \in ended THEN {"other"} ELSE {})

(***************************************************************************)
(* NewPath                                                                 *)
(***************************************************************************)

\* One of the three attempts succeeds; the reader and the monitor are started.
StartPath ==
    /\ ~crashed
    /\ newPath = "opening" /\ conn = "up"
    /\ newPath' = "started"
    /\ transportStream' = 1 /\ streams' = 1
    /\ Goto(1, "read")
    /\ failer' = [failer EXCEPT ![Monitor] = "watch"]
    /\ UNCHANGED <<link, flags, locks, closer, reported, crashed>>

\* All attempts fail: NewPath returns nil and leaves the path with the packer.
GiveUpPath ==
    /\ newPath = "opening"
    /\ newPath' = "failed"
    /\ state' = "failed"
    /\ UNCHANGED <<link, closed, fatalError, attempts, registered, transportStream, streams, locks, pc, ends>>

\* NewPath's last statement, after the goroutines have been started.
StoreReady ==
    /\ ~crashed
    /\ newPath = "started"
    /\ newPath' = "returned"
    /\ state' = "ready"
    /\ UNCHANGED <<link, closed, fatalError, attempts, registered, transportStream, streams, locks, pc, ends>>

(***************************************************************************)
(* WriteStream.  The lock is held until it returns, the error handling     *)
(* included.                                                               *)
(***************************************************************************)

BeginWrite(w) ==
    /\ ~crashed
    /\ pc[w] = "idle"
    /\ state = "ready"
    /\ Goto(w, "lock")
    /\ UNCHANGED <<link, flags, transportStream, streams, locks, newPath, ends>>

LockStream(w) ==
    /\ ~crashed
    /\ pc[w] = "lock" /\ streamMu = NoOne
    /\ IF transportStream = NoStream
       THEN Goto(w, "idle") /\ UNCHANGED streamMu
       ELSE Goto(w, "write") /\ streamMu' = w
    /\ UNCHANGED <<link, flags, transportStream, streams, recoveryMu, newPath, ends>>

\* WriteStream or the reader ends with g's recovery, or without one.
Leave(g) ==
    IF g \in Writers
    THEN Goto(g, "idle") /\ streamMu' = NoOne
    ELSE Goto(g, "done") /\ UNCHANGED streamMu

WriteSucceeds(w) ==
    /\ ~crashed
    /\ pc[w] = "write" /\ WriteErrors(transportStream) = {}
    /\ Leave(w)
    /\ UNCHANGED <<link, flags, transportStream, streams, recoveryMu, newPath, ends>>

\* Mutant: WriteStream returns a fatal error without giving its lock up.
FatalLocked(g) ==
    /\ fatalError' = TRUE
    /\ failer' = [failer EXCEPT ![g] = "mark"]
    /\ Goto(g, IF g \in Writers THEN "idle" ELSE "done")
    /\ UNCHANGED streamMu

\* handleWriteError and handleReadError for g: a fatal error is left to a goroutine, ...
FatalError(g) ==
    /\ fatalError' = TRUE
    /\ failer' = [failer EXCEPT ![g] = "mark"]
    /\ Leave(g)

\* Mutant: WriteStream gives its lock up before it recovers.
UnlockAndRecover(g) ==
    /\ Goto(g, IF fatalError THEN "idle" ELSE "recover")
    /\ IF g \in Writers THEN streamMu' = NoOne ELSE UNCHANGED streamMu
    /\ UNCHANGED failer /\ UNCHANGED fatalError

\* ... any other starts a recovery.
TryRecover(g) ==
    /\ IF fatalError THEN Leave(g) ELSE Goto(g, "recover") /\ UNCHANGED streamMu
    /\ UNCHANGED <<fatalError, failer>>

WriteFails(w) ==
    /\ ~crashed
    /\ pc[w] = "write"
    /\ \/ "fatal" \in WriteErrors(transportStream) /\ FatalError(w)
       \/ "other" \in WriteErrors(transportStream) /\ TryRecover(w)
    /\ UNCHANGED <<link, state, closed, attempts, registered, transportStream, streams, recoveryMu,
                   newPath, closer, reported, crashed>>

(***************************************************************************)
(* The reader                                                              *)
(***************************************************************************)

\* Mutant: the reader returns on an error that is not fatal.
ReadGivesUp(k) ==
    /\ pc[k] = "read"
    /\ \/ "fatal" \in ReadErrors(k) /\ FatalError(k)
       \/ "other" \in ReadErrors(k) /\ Leave(k) /\ UNCHANGED <<fatalError, failer>>
    /\ UNCHANGED <<link, state, closed, attempts, registered, transportStream, streams, recoveryMu,
                   newPath, closer, reported, crashed>>

ReadFails(k) ==
    /\ ~crashed
    /\ pc[k] = "read"
    /\ \/ "fatal" \in ReadErrors(k) /\ FatalError(k)
       \/ "other" \in ReadErrors(k) /\ TryRecover(k)
    /\ UNCHANGED <<link, state, closed, attempts, registered, transportStream, streams, recoveryMu,
                   newPath, closer, reported, crashed>>

\* End of the stream, which nobody handles, or the path was found closed.
ReaderEnds(k) ==
    /\ ~crashed
    /\ pc[k] = "read"
    /\ Goto(k, IF closed THEN "done" ELSE "eof")
    /\ UNCHANGED <<link, flags, transportStream, streams, locks, newPath, ends>>

(***************************************************************************)
(* tryRecoverTransportStream                                               *)
(***************************************************************************)

\* Mutant: the attempts are not looked at again once the lock is there.
LockRecoveryUnchecked(g) ==
    /\ pc[g] = "recover" /\ recoveryMu = NoOne
    /\ attempts' = attempts + 1
    /\ recoveryMu' = g
    /\ Goto(g, "old")
    /\ UNCHANGED <<link, state, closed, fatalError, registered, transportStream, streams, streamMu, newPath, ends>>

LockRecovery(g) ==
    /\ ~crashed
    /\ pc[g] = "recover" /\ recoveryMu = NoOne
    /\ IF fatalError \/ attempts >= MaxRecovery
       THEN /\ fatalError' = TRUE
            /\ Leave(g)
            /\ UNCHANGED <<attempts, recoveryMu>>
       ELSE /\ attempts' = attempts + 1
            /\ recoveryMu' = g
            /\ Goto(g, "old")
            /\ UNCHANGED <<fatalError, streamMu>>
    /\ UNCHANGED <<link, state, closed, registered, transportStream, streams, newPath, ends>>

\* Reads the old stream under the stream lock and closes it.  A writer that recovers
\* holds that lock itself.
CloseOld(g) ==
    /\ ~crashed
    /\ pc[g] = "old" /\ streamMu = NoOne
    /\ ended' = ended \cup ({transportStream} \ {NoStream})
    /\ Goto(g, "reopen")
    /\ UNCHANGED <<conn, reset, flags, transportStream, streams, locks, newPath, ends>>

\* OpenStreamSync or AcceptStream, for at most five seconds.
Reopen(g) ==
    /\ ~crashed
    /\ pc[g] = "reopen"
    /\ \/ /\ conn = "up"
          /\ streams' = streams + 1
          /\ Goto(g, "install")
          /\ UNCHANGED <<fatalError, recoveryMu, streamMu>>
       \/ /\ fatalError' = TRUE
          /\ recoveryMu' = NoOne
          /\ Leave(g)
          /\ UNCHANGED streams
    /\ UNCHANGED <<link, state, closed, attempts, registered, transportStream, newPath, ends>>

\* The new stream, and its reader.
Install(g) ==
    /\ ~crashed
    /\ pc[g] = "install" /\ streamMu = NoOne
    /\ transportStream' = streams
    /\ recoveryMu' = NoOne
    /\ pc' = [pc EXCEPT ![g] = IF g \in Writers THEN "idle" ELSE "done", ![streams] = "read"]
    /\ UNCHANGED <<link, flags, streams, streamMu, newPath, ends>>

(***************************************************************************)
(* closePathDueToFatalError, run by the monitor or left behind by g        *)
(***************************************************************************)

\* Mutant: the test of p.closed is the wrong way round.
NoticeIfClosed ==
    /\ failer[Monitor] = "watch" /\ conn # "up"
    /\ failer' = [failer EXCEPT ![Monitor] = IF closed THEN "mark" ELSE "done"]
    /\ UNCHANGED <<link, flags, transportStream, streams, locks, newPath, pc, closer, reported, crashed>>

NoticeLoss ==
    /\ ~crashed
    /\ failer[Monitor] = "watch" /\ conn # "up"
    /\ failer' = [failer EXCEPT ![Monitor] = IF closed THEN "done" ELSE "mark"]
    /\ UNCHANGED <<link, flags, transportStream, streams, locks, newPath, pc, closer, reported, crashed>>

MarkFailed(g) ==
    /\ ~crashed
    /\ failer[g] = "mark"
    /\ closed' = TRUE
    /\ state' = "failed"
    /\ failer' = [failer EXCEPT ![g] = "test"]
    /\ UNCHANGED <<link, fatalError, attempts, registered, transportStream, streams, locks, newPath, pc,
                   closer, reported, crashed>>

\* The stream is tested and then closed, without the lock.
TestStream(g) ==
    /\ ~crashed
    /\ failer[g] = "test"
    /\ failer' = [failer EXCEPT ![g] = IF transportStream = NoStream THEN "report" ELSE "end"]
    /\ UNCHANGED <<link, flags, transportStream, streams, locks, newPath, pc, closer, reported, crashed>>

EndStream(g) ==
    /\ ~crashed
    /\ failer[g] = "end"
    /\ crashed' = (transportStream = NoStream)
    /\ ended' = ended \cup ({transportStream} \ {NoStream})
    /\ failer' = [failer EXCEPT ![g] = "report"]
    /\ UNCHANGED <<conn, reset, flags, transportStream, streams, locks, newPath, pc, closer, reported>>

\* HandlePathFailure (module Sessions).
ReportFailure(g) ==
    /\ ~crashed
    /\ failer[g] = "report"
    /\ reported' = TRUE
    /\ failer' = [failer EXCEPT ![g] = "done"]
    /\ UNCHANGED <<link, flags, transportStream, streams, locks, newPath, pc, closer, crashed>>

(***************************************************************************)
(* Path.Close, called by the session for a path NewPath has returned.      *)
(* StreamOpening models what it does to streams and channels.              *)
(***************************************************************************)

BeginClose ==
    /\ ~crashed
    /\ closer = "no" /\ newPath = "returned"
    /\ closed' = TRUE
    /\ closer' = IF closed THEN "done" ELSE "state"
    /\ UNCHANGED <<link, state, fatalError, attempts, registered, transportStream, streams, locks, newPath,
                   pc, failer, reported, crashed>>

StoreClosed ==
    /\ ~crashed
    /\ closer = "state"
    /\ state' = "closed"
    /\ closer' = "lock"
    /\ UNCHANGED <<link, closed, fatalError, attempts, registered, transportStream, streams, locks, newPath,
                   pc, failer, reported, crashed>>

DropStream ==
    /\ ~crashed
    /\ closer = "lock" /\ streamMu = NoOne
    /\ ended' = ended \cup ({transportStream} \ {NoStream})
    /\ transportStream' = NoStream
    /\ closer' = "unregister"
    /\ UNCHANGED <<conn, reset, flags, streams, locks, newPath, pc, failer, reported, crashed>>

Unregister ==
    /\ ~crashed
    /\ closer = "unregister"
    /\ registered' = FALSE
    /\ closer' = "conn"
    /\ UNCHANGED <<link, state, closed, fatalError, attempts, transportStream, streams, locks, newPath, pc,
                   failer, reported, crashed>>

\* conn.CloseWithError(0, "path closed"): an error the code takes for a fatal one.
CloseConnection ==
    /\ ~crashed
    /\ closer = "conn"
    /\ conn' = IF conn = "up" THEN "fatal" ELSE conn
    /\ closer' = "done"
    /\ UNCHANGED <<reset, ended, flags, transportStream, streams, locks, newPath, pc, failer, reported, crashed>>

(***************************************************************************)
(* The specification                                                       *)
(***************************************************************************)

Quic == ResetStream \/ \E class \in {"fatal", "other"} : LoseConnection(class)

WriterStep(w) == WriteSucceeds(w) \/ WriteFails(w)
ReaderFails == \E k \in Streams : ReadFails(k)
RecoveryStep(g) == Reopen(g) \/ CloseOld(g) \/ Install(g)
FailerStep(g) == MarkFailed(g) \/ TestStream(g) \/ EndStream(g) \/ ReportFailure(g)
CloserStep == StoreClosed \/ DropStream \/ Unregister \/ CloseConnection

Next ==
    \/ Quic
    \/ StartPath \/ GiveUpPath \/ StoreReady
    \/ \E w \in Writers : BeginWrite(w) \/ LockStream(w) \/ WriterStep(w)
    \/ ReaderFails \/ \E k \in Streams : ReaderEnds(k)
    \/ \E g \in Goroutines : LockRecovery(g) \/ RecoveryStep(g)
    \/ NoticeLoss
    \/ \E g \in Goroutines \cup {Monitor} : FailerStep(g)
    \/ BeginClose \/ CloserStep

Spec == Init /\ [][Next]_vars

\* Every goroutine that can run does, and one that waits for a lock again and again gets
\* it (the starvation mode of sync.Mutex), hence SF.  A run has finitely many recoveries
\* and failures, so that it is enough to ask that one of them goes on.  Nothing obliges
\* QUIC to fail, a writer to write or the session to close.
FairSpec ==
    /\ Spec
    /\ WF_vars(StoreReady \/ NoticeLoss)
    /\ \A w \in Writers : WF_vars(WriterStep(w)) /\ SF_vars(LockStream(w))
    /\ WF_vars(ReaderFails)
    /\ SF_vars(\E g \in Goroutines : LockRecovery(g) \/ RecoveryStep(g))
    /\ WF_vars(\E g \in Goroutines \cup {Monitor} : FailerStep(g))
    /\ SF_vars(CloserStep)

(***************************************************************************)
(* Properties                                                              *)
(***************************************************************************)

TypeOK ==
    /\ conn \in {"up", "fatal", "other"}
    /\ reset \subseteq Streams /\ ended \subseteq Streams
    /\ state \in {"initializing", "ready", "failed", "closed"} /\ closed \in BOOLEAN
    /\ fatalError \in BOOLEAN /\ attempts \in Nat
    /\ transportStream \in Streams \cup {NoStream} /\ streams \in 0 .. MaxRecovery + 1
    /\ registered \in BOOLEAN
    /\ streamMu \in Writers \cup {NoOne} /\ recoveryMu \in Goroutines \cup {NoOne}
    /\ newPath \in {"opening", "started", "returned", "failed"}
    /\ pc \in [Goroutines -> {"idle", "none", "lock", "write", "read", "eof", "done",
                              "recover", "old", "reopen", "install"}]
    /\ failer \in [Goroutines \cup {Monitor} -> {"none", "watch", "mark", "test", "end", "report", "done"}]
    /\ closer \in {"no", "state", "lock", "unregister", "conn", "done"}
    /\ reported \in BOOLEAN /\ crashed \in BOOLEAN

\* One goroutine at a time reads and pushes packets of the path, also while a stream is
\* replaced: the order of the packets of a path rests on it (reader.go:147-149).
OneReaderReads == Cardinality({k \in Streams : pc[k] = "read"}) <= 1

\* A transport stream after the first is paid with a recovery attempt, of which there
\* are maxRecoveryAttempts, however many goroutines meet the error (path.go:234-255).
RecoveriesCounted == streams <= attempts + 1 /\ attempts <= MaxRecovery

\* The writer w waits for a lock that it holds itself, or that is held by a goroutine
\* which waits for w.
Stuck(w) ==
    /\ streamMu = w
    /\ \/ pc[w] = "old"
       \/ pc[w] = "recover" /\ recoveryMu # NoOne /\ pc[recoveryMu] \in {"old", "install"}

WriterStuck == \E w \in Writers : Stuck(w)

\* A lost connection is noticed whatever the readers and the writers do, and the session
\* hears of it, unless it closes the path at that time itself (path.go:173-179).
LossIsReported ==
    (conn # "up" /\ newPath = "returned") ~> (reported \/ closer # "no" \/ crashed)

\* A stream that breaks under its reader is replaced, given up, or its recovery is held up
\* by a writer that is stuck (path.go:345-368).
BreakIsHandled ==
    \A k \in Streams :
        (k \in reset /\ pc[k] = "read") ~>
            (transportStream # k \/ fatalError \/ closed \/ pc[k] = "eof" \/ WriterStuck \/ crashed)

\* Close returns, except behind a writer that is stuck for ever.
CloseReturns == (closer = "state") ~> (closer = "done" \/ WriterStuck \/ crashed)

\* WriteStream returns: after an error "stream recovered, retry needed" or an error.
WriteReturns == \A w \in Writers : (pc[w] = "lock") ~> (pc[w] = "idle" \/ crashed)

=============================================================================
