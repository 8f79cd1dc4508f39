--------------------------- MODULE StreamOpening ---------------------------
(***************************************************************************)
(* How two sessions agree on a logical stream (client.go, server.go:       *)
(* OpenStreamSync, AcceptStream; stream_manager.go; path.go:               *)
(* OpenStreamSync, AcceptStream, HandleControlFrame, Close).               *)
(*                                                                         *)
(* Both sides number streams from 1.  The opener takes its next number,    *)
(* sends an OpenStreamFrame and waits for the response; the acceptor takes *)
(* its next number and waits until a frame with that number has come.  The *)
(* reader goroutine of the path handles the frames, the session may close  *)
(* the path at any time, and a call's context may end at any time.         *)
(*                                                                         *)
(* A side never uses a number twice, so a stream number also names the     *)
(* response channel or the accept channel made for it.  The channel of a   *)
(* waiting AcceptStream can be replaced in the map by the reader, so the   *)
(* map holds none, the call's "own" or the "handler"'s channel, which is   *)
(* closed from the start.                                                  *)
(*                                                                         *)
(* HasStream is false for a fresh number (only a relay opens streams under *)
(* a number of its own choice), so that test is left out.                  *)
(*                                                                         *)
(* The packets are retransmitted and not deduplicated (PushPacket), so a   *)
(* frame that was sent is received any number of times, in any order.      *)
(***************************************************************************)
EXTENDS Naturals, FiniteSets

CONSTANTS
    Sides, PeerOf,   \* the two sessions
    Callers, SideOf, \* goroutines of the applications
    OpsOf,           \* whether they call OpenStreamSync, AcceptStream or both
    Leaving,         \* bound: the sides that may close their path and session
    MaxStreams       \* bound: streams numbered by each side

ASSUME OpeningConstants ==
    /\ MaxStreams \in Nat /\ SideOf \in [Callers -> Sides]
    /\ OpsOf \in [Callers -> SUBSET {"open", "accept"}]
    /\ PeerOf \in [Sides -> Sides] /\ \A x \in Sides : PeerOf[x] # x /\ PeerOf[PeerOf[x]] = x

VARIABLES
    nextStreamID,   \* streamMgr.nextStreamID
    managed,        \* streamMgr.streams
    attached,       \* streams the path was added to (stream.paths)
    sessionClosed,  \* CloseAllStreams has run
    pathStreams,    \* path.streams
    respCh,         \* path.openStreamRespCh: streams with a channel registered
    respChan,       \* the response channels
    waiters,        \* path.acceptStreamWaiters: whose channel it holds
    woken,          \* streams whose AcceptStream's own channel is closed
    call,           \* the goroutines of the applications
    reader,         \* the reader goroutine of each path
    closer,         \* how far Path.Close has got
    sent,           \* control frames submitted by each side
    opened,         \* history: streams returned by OpenStreamSync
    accepted,       \* history: streams returned by AcceptStream
    crashed         \* a goroutine without recover has panicked

managerVars == <<nextStreamID, managed, attached, sessionClosed>>
pathVars == <<pathStreams, respCh, respChan, waiters, woken>>
history == <<opened, accepted>>
vars == <<managerVars, pathVars, call, reader, closer, sent, history, crashed>>

IDs == 1 .. MaxStreams
Frame == [type : {"open", "resp"}, sid : IDs]
OpenFrame(s) == [type |-> "open", sid |-> s]
RespFrame(s) == [type |-> "resp", sid |-> s]

Idle == [pc |-> "idle", op |-> "open", sid |-> 0, ok |-> FALSE, ch |-> "none"]
Listening == [pc |-> "idle", sid |-> 0]
NotClosing == [pc |-> "no", sid |-> 0, left |-> {}]

\* Mutant: numbering starts at 0.
FirstIsZero == 0

FirstStreamID == 1

Init ==
    /\ nextStreamID = [x \in Sides |-> FirstStreamID]
    /\ managed = [x \in Sides |-> {}] /\ attached = [x \in Sides |-> {}]
    /\ sessionClosed = [x \in Sides |-> FALSE]
    /\ pathStreams = [x \in Sides |-> {}]
    /\ respCh = [x \in Sides |-> {}]
    /\ respChan = [x \in Sides |-> [s \in IDs |-> "none"]]
    /\ waiters = [x \in Sides |-> [s \in IDs |-> "none"]]
    /\ woken = [x \in Sides |-> {}]
    /\ call = [c \in Callers |-> Idle]
    /\ reader = [x \in Sides |-> Listening]
    /\ closer = [x \in Sides |-> NotClosing]
    /\ sent = [x \in Sides |-> {}]
    /\ opened = [x \in Sides |-> {}] /\ accepted = [x \in Sides |-> {}]
    /\ crashed = FALSE

Ready(x) == closer[x].pc = "no"      \* p.state and p.closed, set together
Linked(x) == closer[x].pc # "done"   \* the QUIC connection is still there

Goto(c, label) == call' = [call EXCEPT ![c].pc = label]
Put(f, x, s) == [f EXCEPT ![x] = @ \cup {s}]
Drop(f, x, s) == [f EXCEPT ![x] = @ \ {s}]

\* Stream s of side x has been handed to the application.
Returned(x, s) == s \in opened[x] \cup accepted[x]

(***************************************************************************)
(* The session's calls                                                     *)
(***************************************************************************)

\* The session's OpenStreamSync or AcceptStream: streamMgr.CreateStream.  The path they
\* were given (and the state the client looked at) may have changed by then.
CreateStream(c, op) ==
    LET x == SideOf[c]
        s == nextStreamID[x]
    IN  /\ ~crashed
        /\ call[c].pc = "idle" /\ s \in IDs
        /\ nextStreamID' = [nextStreamID EXCEPT ![x] = s + 1]
        /\ managed' = Put(managed, x, s)
        /\ call' = [call EXCEPT ![c] = [Idle EXCEPT !.pc = op, !.op = op, !.sid = s]]
        /\ UNCHANGED <<attached, sessionClosed, pathVars, reader, closer, sent, history, crashed>>

\* AddPathToStream takes no lock: it looks the stream up, which CloseAllStreams may have
\* removed, ...
LookUpStream(c) ==
    /\ ~crashed
    /\ call[c].pc = "lookup"
    /\ Goto(c, IF call[c].sid \in managed[SideOf[c]] THEN "attach" ELSE "undo")
    /\ UNCHANGED <<managerVars, pathVars, reader, closer, sent, history, crashed>>

\* ... adds the path, and the session's call returns the stream.
AddPathToStream(c) ==
    LET x == SideOf[c]
        s == call[c].sid
    IN  /\ ~crashed
        /\ call[c].pc = "attach"
        /\ attached' = Put(attached, x, s)
        /\ opened' = IF call[c].op = "open" THEN Put(opened, x, s) ELSE opened
        /\ accepted' = IF call[c].op = "accept" THEN Put(accepted, x, s) ELSE accepted
        /\ call' = [call EXCEPT ![c] = Idle]
        /\ UNCHANGED <<nextStreamID, managed, sessionClosed, pathVars, reader, closer, sent, crashed>>

\* The path's part failed: streamMgr.CloseStream of a stream without paths.
GiveUp(c) ==
    /\ ~crashed
    /\ call[c].pc = "fail"
    /\ managed' = Drop(managed, SideOf[c], call[c].sid)
    /\ call' = [call EXCEPT ![c] = Idle]
    /\ UNCHANGED <<nextStreamID, attached, sessionClosed, pathVars, reader, closer, sent, history, crashed>>

\* Mutant: the path is not told that the call has failed.
UndoOnlyManager(c) ==
    /\ ~crashed
    /\ call[c].pc = "undo"
    /\ managed' = Drop(managed, SideOf[c], call[c].sid)
    /\ call' = [call EXCEPT ![c] = Idle]
    /\ UNCHANGED <<nextStreamID, attached, sessionClosed, pathVars, reader, closer, sent, history, crashed>>

\* AddPathToStream failed: the same, and path.RemoveStream.
UndoCreate(c) ==
    /\ ~crashed
    /\ call[c].pc = "undo"
    /\ managed' = Drop(managed, SideOf[c], call[c].sid)
    /\ Goto(c, "remove")
    /\ UNCHANGED <<nextStreamID, attached, sessionClosed, pathVars, reader, closer, sent, history, crashed>>

RemoveStream(c) ==
    /\ ~crashed
    /\ call[c].pc = "remove"
    /\ pathStreams' = Drop(pathStreams, SideOf[c], call[c].sid)
    /\ call' = [call EXCEPT ![c] = Idle]
    /\ UNCHANGED <<managerVars, respCh, respChan, waiters, woken, reader, closer, sent, history, crashed>>

\* Path.CloseStream.
ClosedOnPath(x, s) == Drop(pathStreams, x, s)

\* The application closes a stream it was given.  If the path no longer has it (Path.Close
\* empties path.streams), CloseStream returns the error and keeps the stream.
CloseStream(x, s) ==
    /\ ~crashed
    /\ Returned(x, s) /\ s \in managed[x] \cap pathStreams[x]
    /\ managed' = Drop(managed, x, s) /\ attached' = Drop(attached, x, s)
    /\ pathStreams' = ClosedOnPath(x, s)
    /\ UNCHANGED <<nextStreamID, sessionClosed, respCh, respChan, waiters, woken, call, reader, closer,
                   sent, history, crashed>>

\* The session closes: every stream leaves the manager and its paths.
CloseAllStreams(x) ==
    /\ ~crashed
    /\ x \in Leaving /\ ~sessionClosed[x]
    /\ sessionClosed' = [sessionClosed EXCEPT ![x] = TRUE]
    /\ managed' = [managed EXCEPT ![x] = {}]
    /\ attached' = [attached EXCEPT ![x] = {}]
    /\ pathStreams' = [pathStreams EXCEPT ![x] = @ \ (attached[x] \cap managed[x])]
    /\ UNCHANGED <<nextStreamID, respCh, respChan, waiters, woken, call, reader, closer,
                   sent, history, crashed>>

(***************************************************************************)
(* Path.OpenStreamSync                                                     *)
(***************************************************************************)

\* The response channel is registered before the frame is sent.
RegisterResponse(c) ==
    LET x == SideOf[c]
        s == call[c].sid
    IN  /\ ~crashed
        /\ call[c].pc = "open"
        /\ respCh' = Put(respCh, x, s)
        /\ respChan' = [respChan EXCEPT ![x][s] = "empty"]
        /\ Goto(c, "submit")
        /\ UNCHANGED <<managerVars, pathStreams, waiters, woken, reader, closer, sent,
                       history, crashed>>

\* A submission that fails may have left a packet in the pending table.
SubmitOpen(c) ==
    LET x == SideOf[c]
    IN  /\ ~crashed
        /\ call[c].pc = "submit"
        /\ \/ /\ Ready(x)
              /\ sent' = Put(sent, x, OpenFrame(call[c].sid))
              /\ call' \in {[call EXCEPT ![c].pc = "response"],
                            [call EXCEPT ![c].pc = "unregister"]}
           \/ /\ Goto(c, "unregister")
              /\ UNCHANGED sent
        /\ UNCHANGED <<managerVars, pathVars, reader, closer, history, crashed>>

\* The response (Success is always true) or the end of the context.
AwaitResponse(c) ==
    LET x == SideOf[c]
        s == call[c].sid
    IN  /\ ~crashed
        /\ call[c].pc = "response"
        /\ \/ /\ respChan[x][s] = "full"
              /\ respChan' = [respChan EXCEPT ![x][s] = "empty"]
              /\ pathStreams' = Put(pathStreams, x, s)
              /\ call' = [call EXCEPT ![c].pc = "unregister", ![c].ok = TRUE]
           \/ /\ Goto(c, "unregister")
              /\ UNCHANGED <<pathStreams, respChan>>
        /\ UNCHANGED <<managerVars, respCh, waiters, woken, reader, closer, sent, history,
                       crashed>>

\* The deferred function: Delete, then close.
UnregisterResponse(c) ==
    /\ ~crashed
    /\ call[c].pc = "unregister"
    /\ respCh' = Drop(respCh, SideOf[c], call[c].sid)
    /\ Goto(c, "closeCh")
    /\ UNCHANGED <<managerVars, pathStreams, respChan, waiters, woken, reader, closer, sent,
                   history, crashed>>

CloseResponse(c) ==
    /\ ~crashed
    /\ call[c].pc = "closeCh"
    /\ respChan' = [respChan EXCEPT ![SideOf[c]][call[c].sid] = "closed"]
    /\ Goto(c, IF call[c].ok THEN "lookup" ELSE "fail")
    /\ UNCHANGED <<managerVars, pathStreams, respCh, waiters, woken, reader, closer, sent,
                   history, crashed>>

(***************************************************************************)
(* Path.AcceptStream                                                       *)
(***************************************************************************)

\* LoadOrStore: take the channel the frame's arrival has left, or leave one.
AwaitChannel(c) ==
    LET x == SideOf[c]
        s == call[c].sid
        own == waiters[x][s] = "none"
    IN  /\ ~crashed
        /\ call[c].pc = "accept"
        /\ waiters' = IF own THEN [waiters EXCEPT ![x][s] = "own"] ELSE waiters
        /\ call' = [call EXCEPT ![c].pc = "opening", ![c].ch = IF own THEN "own" ELSE "handler"]
        /\ UNCHANGED <<managerVars, pathStreams, respCh, respChan, woken, reader, closer,
                       sent, history, crashed>>

\* Mutant: one channel for all streams.
AnySignalled(c) == call[c].ch = "handler" \/ woken[SideOf[c]] # {}

\* The channel a call waits for is closed.
Signalled(c) == call[c].ch = "handler" \/ call[c].sid \in woken[SideOf[c]]

AwaitOpen(c) ==
    LET x == SideOf[c]
    IN  /\ ~crashed
        /\ call[c].pc = "opening"
        /\ \/ /\ Signalled(c)
              /\ pathStreams' = Put(pathStreams, x, call[c].sid)
              /\ call' = [call EXCEPT ![c].pc = "unwait", ![c].ok = TRUE]
           \/ /\ Goto(c, "unwait")
              /\ UNCHANGED pathStreams
        /\ UNCHANGED <<managerVars, respCh, respChan, waiters, woken, reader, closer, sent,
                       history, crashed>>

DeleteWaiter(c) ==
    /\ ~crashed
    /\ call[c].pc = "unwait"
    /\ waiters' = [waiters EXCEPT ![SideOf[c]][call[c].sid] = "none"]
    /\ Goto(c, IF call[c].ok THEN "lookup" ELSE "fail")
    /\ UNCHANGED <<managerVars, pathStreams, respCh, respChan, woken, reader, closer, sent,
                   history, crashed>>

(***************************************************************************)
(* The reader goroutine: HandleControlFrame                                *)
(***************************************************************************)

\* A response: look up the channel of the call ...
ReceiveResponse(x, s) ==
    /\ ~crashed
    /\ reader[x].pc = "idle" /\ Linked(x)
    /\ RespFrame(s) \in sent[PeerOf[x]] /\ s \in respCh[x]
    /\ reader' = [reader EXCEPT ![x] = [pc |-> "response", sid |-> s]]
    /\ UNCHANGED <<managerVars, pathVars, call, closer, sent, history, crashed>>

\* ... and send on it.  A full channel is skipped by the default of the select; a closed
\* one panics, and the recovered reader ends.
DeliverResponse(x) ==
    LET s == reader[x].sid
    IN  /\ ~crashed
        /\ reader[x].pc = "response"
        /\ \/ /\ respChan[x][s] # "closed"
              /\ respChan' = [respChan EXCEPT ![x][s] = "full"]
              /\ reader' = [reader EXCEPT ![x] = Listening]
           \/ /\ respChan[x][s] = "closed"
              /\ reader' = [reader EXCEPT ![x].pc = "dead"]
              /\ UNCHANGED respChan
        /\ UNCHANGED <<managerVars, pathStreams, respCh, waiters, woken, call, closer, sent,
                       history, crashed>>

\* handleOpenStreamFrame loads the waiter ...
ReceiveOpen(x, s) ==
    /\ ~crashed
    /\ reader[x].pc = "idle" /\ Linked(x)
    /\ OpenFrame(s) \in sent[PeerOf[x]]
    /\ reader' = [reader EXCEPT ![x] =
           [pc |-> CASE waiters[x][s] = "none" -> "store"
                     [] waiters[x][s] = "own" /\ s \notin woken[x] -> "close"
                     [] OTHER -> "answer",
            sid |-> s]]
    /\ UNCHANGED <<managerVars, pathVars, call, closer, sent, history, crashed>>

\* ... closes its channel, unless it was closed when it looked; Path.Close may close it
\* in between, and the second close panics ...
WakeWaiter(x) ==
    LET s == reader[x].sid
    IN  /\ ~crashed
        /\ reader[x].pc = "close"
        /\ woken' = Put(woken, x, s)
        /\ reader' = [reader EXCEPT ![x].pc = IF s \in woken[x] THEN "dead" ELSE "answer"]
        /\ UNCHANGED <<managerVars, pathStreams, respCh, respChan, waiters, call, closer,
                       sent, history, crashed>>

\* Mutant: the stream is acknowledged without a channel for a later AcceptStream.
NothingStored(x, s) == waiters

Stored(x, s) == [waiters EXCEPT ![x][s] = "handler"]

\* ... or leaves a closed channel for the AcceptStream to come, in place of one that
\* may have been stored since ...
StoreWaiter(x) ==
    /\ ~crashed
    /\ reader[x].pc = "store"
    /\ waiters' = Stored(x, reader[x].sid)
    /\ reader' = [reader EXCEPT ![x].pc = "answer"]
    /\ UNCHANGED <<managerVars, pathStreams, respCh, respChan, woken, call, closer, sent,
                   history, crashed>>

\* ... and has the response submitted; the submission's outcome is ignored.
Answer(x) ==
    /\ ~crashed
    /\ reader[x].pc = "answer"
    /\ reader' = [reader EXCEPT ![x] = Listening]
    /\ \/ Ready(x) /\ sent' = Put(sent, x, RespFrame(reader[x].sid))
       \/ UNCHANGED sent
    /\ UNCHANGED <<managerVars, pathVars, call, closer, history, crashed>>

(***************************************************************************)
(* Path.Close                                                              *)
(***************************************************************************)

CloserAt(x, label) == closer' = [closer EXCEPT ![x].pc = label]

BeginClose(x) ==
    /\ ~crashed
    /\ x \in Leaving /\ closer[x].pc = "no" /\ CloserAt(x, "streams")
    /\ UNCHANGED <<managerVars, pathVars, call, reader, sent, history, crashed>>

DropStreams(x) ==
    /\ ~crashed
    /\ closer[x].pc = "streams"
    /\ pathStreams' = [pathStreams EXCEPT ![x] = {}]
    /\ closer' = [closer EXCEPT ![x] =
           [pc |-> "range", sid |-> 0, left |-> {s \in IDs : waiters[x][s] # "none"}]]
    /\ UNCHANGED <<managerVars, respCh, respChan, waiters, woken, call, reader, sent,
                   history, crashed>>

\* The Range over the waiters visits what was there and possibly what came since.
VisitWaiter(x, s) ==
    /\ ~crashed
    /\ closer[x].pc = "range" /\ waiters[x][s] # "none"
    /\ closer' = [closer EXCEPT ![x].sid = s, ![x].pc =
           IF waiters[x][s] = "own" /\ s \notin woken[x] THEN "close" ELSE "delete"]
    /\ UNCHANGED <<managerVars, pathVars, call, reader, sent, history, crashed>>

\* Nobody recovers a second close of the channel here.
CloseWaiter(x) ==
    LET s == closer[x].sid
    IN  /\ ~crashed
        /\ closer[x].pc = "close"
        /\ crashed' = (s \in woken[x])
        /\ woken' = Put(woken, x, s)
        /\ CloserAt(x, "delete")
        /\ UNCHANGED <<managerVars, pathStreams, respCh, respChan, waiters, call, reader,
                       sent, history>>

ForgetWaiter(x) ==
    LET s == closer[x].sid
    IN  /\ ~crashed
        /\ closer[x].pc = "delete"
        /\ waiters' = [waiters EXCEPT ![x][s] = "none"]
        /\ closer' = [closer EXCEPT ![x].pc = "range", ![x].left = @ \ {s}]
        /\ UNCHANGED <<managerVars, pathStreams, respCh, respChan, woken, call, reader, sent,
                       history, crashed>>

\* The response channels are only forgotten: nobody tells the calls that wait on them.
ForgetResponses(x) ==
    /\ ~crashed
    /\ closer[x].pc = "range"
    /\ \A s \in closer[x].left : waiters[x][s] = "none"
    /\ respCh' = [respCh EXCEPT ![x] = {}]
    /\ CloserAt(x, "link")
    /\ UNCHANGED <<managerVars, pathStreams, respChan, waiters, woken, call, reader, sent,
                   history, crashed>>

\* The transport stream, the registration with the packer and the connection go.
CloseLink(x) ==
    /\ ~crashed
    /\ closer[x].pc = "link" /\ CloserAt(x, "done")
    /\ UNCHANGED <<managerVars, pathVars, call, reader, sent, history, crashed>>

(***************************************************************************)
(* Specification                                                           *)
(***************************************************************************)

Calling(c) ==
    \/ \E op \in OpsOf[c] : CreateStream(c, op)
    \/ RegisterResponse(c) \/ SubmitOpen(c) \/ AwaitResponse(c)
    \/ UnregisterResponse(c) \/ CloseResponse(c)
    \/ AwaitChannel(c) \/ AwaitOpen(c) \/ DeleteWaiter(c)
    \/ LookUpStream(c) \/ AddPathToStream(c)
    \/ GiveUp(c) \/ UndoCreate(c) \/ RemoveStream(c)

Reading(x) ==
    \/ \E s \in IDs : ReceiveResponse(x, s) \/ ReceiveOpen(x, s)
    \/ DeliverResponse(x) \/ WakeWaiter(x) \/ StoreWaiter(x) \/ Answer(x)

Closing(x) ==
    \/ BeginClose(x) \/ DropStreams(x) \/ CloseWaiter(x) \/ ForgetWaiter(x)
    \/ \E s \in IDs : VisitWaiter(x, s)
    \/ ForgetResponses(x) \/ CloseLink(x)

Next ==
    \/ \E c \in Callers : Calling(c)
    \/ \E x \in Sides : Reading(x) \/ Closing(x) \/ CloseAllStreams(x)
    \/ \E x \in Sides, s \in IDs : CloseStream(x, s)

Spec == Init /\ [][Next]_vars

-----------------------------------------------------------------------------
(***************************************************************************)
(* Properties                                                              *)
(***************************************************************************)

\* Every variable has the shape the source gives it; a stream has at most one waiter and
\* one response channel.
TypeOK ==
    /\ nextStreamID \in [Sides -> 1 .. MaxStreams + 1]
    /\ managed \in [Sides -> SUBSET IDs] /\ attached \in [Sides -> SUBSET IDs]
    /\ sessionClosed \in [Sides -> BOOLEAN]
    /\ pathStreams \in [Sides -> SUBSET IDs] /\ respCh \in [Sides -> SUBSET IDs]
    /\ respChan \in [Sides -> [IDs -> {"none", "empty", "full", "closed"}]]
    /\ waiters \in [Sides -> [IDs -> {"none", "own", "handler"}]]
    /\ woken \in [Sides -> SUBSET IDs]
    /\ call \in [Callers ->
           [pc : {"idle", "open", "submit", "response", "unregister", "closeCh", "accept",
                  "opening", "unwait", "lookup", "attach", "undo", "remove", "fail"},
            op : {"open", "accept"}, sid : 0 .. MaxStreams, ok : BOOLEAN,
            ch : {"none", "own", "handler"}]]
    /\ reader \in [Sides -> [pc : {"idle", "response", "store", "close", "answer", "dead"},
                             sid : 0 .. MaxStreams]]
    /\ closer \in [Sides -> [pc : {"no", "streams", "range", "close", "delete", "link", "done"},
                             sid : 0 .. MaxStreams, left : SUBSET IDs]]
    /\ sent \in [Sides -> SUBSET Frame]
    /\ opened \in [Sides -> SUBSET IDs] /\ accepted \in [Sides -> SUBSET IDs]
    /\ crashed \in BOOLEAN

\* Side y has not looked for stream s yet: it has not used the number, or its call is
\* about to.
Unasked(y, s) ==
    \/ s >= nextStreamID[y]
    \/ \E c \in Callers : SideOf[c] = y /\ call[c].pc = "accept" /\ call[c].sid = s

\* A stream that OpenStreamSync has returned can be accepted: as long as the peer's path
\* is open, the closed channel waits for the peer's AcceptStream of that number.
OpenedIsAcceptable ==
    \A x \in Sides : \A s \in opened[x] :
        LET y == PeerOf[x]
        IN  Ready(y) /\ Unasked(y, s) => waiters[y][s] = "handler"

\* AcceptStream returns a stream only if the peer has opened that very stream; it can
\* return another only because the path was closed.
AcceptedWasOpened ==
    \A y \in Sides : \A s \in accepted[y] :
        Ready(y) => OpenFrame(s) \in sent[PeerOf[y]]

\* A call is under way for stream s of side x.
Pending(x, s) == \E c \in Callers : SideOf[c] = x /\ call[c].sid = s

\* A call that fails takes back what its earlier steps have made, at whatever step it
\* fails and whatever the session and the path do meanwhile: what the path has open the
\* manager knows, and what the manager knows was returned to the application, or a call
\* is still working on it.  A stream that was returned may outlive the manager's record
\* only by the session's close, which AddPathToStream does not wait for.
NothingLeftBehind ==
    \A x \in Sides :
        /\ \A s \in pathStreams[x] :
              s \in managed[x] \/ Pending(x, s) \/ (sessionClosed[x] /\ Returned(x, s))
        /\ \A s \in managed[x] : Returned(x, s) \/ Pending(x, s)

\* "AcceptStream: [...] signalisation robuste": a call that waits can still be woken, by
\* the frame if it comes (again) and by Path.Close.
\* Not kept: README, section 7.
WaiterIsReachable ==
    \A c \in Callers :
        LET x == SideOf[c]
        IN  call[c].pc = "opening" /\ ~Signalled(c) /\ Ready(x) => waiters[x][call[c].sid] = "own"

\* "Channel full or closed - ignore": a late response does not end the reader.
\* Not kept: README, section 7.
LateResponseIgnored == \A x \in Sides : reader[x].pc = "dead" => reader[x].sid \in woken[x]

=============================================================================
