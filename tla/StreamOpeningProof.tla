------------------------- MODULE StreamOpeningProof -------------------------
(***************************************************************************)
(* Proofs about the opening of streams, for any number of calling          *)
(* goroutines and streams, whoever opens, accepts and leaves.              *)
(***************************************************************************)
EXTENDS StreamOpening, TLAPS

(***************************************************************************)
(* Type correctness.  TypeOK alone is not inductive: a goroutine in the    *)
(* middle of a call, a frame or a visit holds the number of a stream.      *)
(***************************************************************************)

CallPCs == {"idle", "open", "submit", "response", "unregister", "closeCh", "accept",
            "opening", "unwait", "lookup", "attach", "undo", "remove", "fail"}
CallRecord ==
    {r \in [pc : CallPCs, op : {"open", "accept"}, sid : 0 .. MaxStreams, ok : BOOLEAN,
            ch : {"none", "own", "handler"}] : r.pc # "idle" => r.sid \in IDs}
ReaderRecord ==
    {r \in [pc : {"idle", "response", "store", "close", "answer", "dead"}, sid : 0 .. MaxStreams] :
       r.pc # "idle" => r.sid \in IDs}
CloserRecord ==
    {r \in [pc : {"no", "streams", "range", "close", "delete", "link", "done"},
            sid : 0 .. MaxStreams, left : SUBSET IDs] :
       r.pc \in {"close", "delete"} => r.sid \in IDs}
StreamSets == [Sides -> SUBSET IDs]
Channels == [Sides -> [IDs -> {"none", "empty", "full", "closed"}]]
Waiters == [Sides -> [IDs -> {"none", "own", "handler"}]]

TypeInv ==
    /\ nextStreamID \in [Sides -> 1 .. MaxStreams + 1]
    /\ managed \in StreamSets /\ attached \in StreamSets
    /\ sessionClosed \in [Sides -> BOOLEAN]
    /\ pathStreams \in StreamSets /\ respCh \in StreamSets
    /\ respChan \in Channels /\ waiters \in Waiters /\ woken \in StreamSets
    /\ call \in [Callers -> CallRecord]
    /\ reader \in [Sides -> ReaderRecord]
    /\ closer \in [Sides -> CloserRecord]
    /\ sent \in [Sides -> SUBSET Frame]
    /\ opened \in StreamSets /\ accepted \in StreamSets
    /\ crashed \in BOOLEAN

LEMMA Numbers == 0 \in 0 .. MaxStreams /\ IDs \subseteq 0 .. MaxStreams
BY OpeningConstants DEF IDs

LEMMA TypeInvImplies == TypeInv => TypeOK
<1> SUFFICES ASSUME TypeInv PROVE TypeOK
  OBVIOUS
<1>1. \A f : f \in [Callers -> CallRecord] => f \in [Callers ->
           [pc : CallPCs, op : {"open", "accept"}, sid : 0 .. MaxStreams, ok : BOOLEAN,
            ch : {"none", "own", "handler"}]]
  BY DEF CallRecord
<1>2. \A f : f \in [Sides -> ReaderRecord] => f \in [Sides ->
           [pc : {"idle", "response", "store", "close", "answer", "dead"}, sid : 0 .. MaxStreams]]
  BY DEF ReaderRecord
<1>3. \A f : f \in [Sides -> CloserRecord] => f \in [Sides ->
           [pc : {"no", "streams", "range", "close", "delete", "link", "done"},
            sid : 0 .. MaxStreams, left : SUBSET IDs]]
  BY DEF CloserRecord
<1> QED
  BY <1>1, <1>2, <1>3 DEF TypeInv, TypeOK, CallPCs, StreamSets, Channels, Waiters

LEMMA InitTypeInv == Init => TypeInv
<1> SUFFICES ASSUME Init PROVE TypeInv
  OBVIOUS
<1>1. FirstStreamID \in 1 .. MaxStreams + 1
  BY OpeningConstants DEF FirstStreamID
<1>2. Idle \in CallRecord
  BY Numbers DEF Idle, CallRecord, CallPCs
<1>3. Listening \in ReaderRecord /\ NotClosing \in CloserRecord
  BY Numbers DEF Listening, NotClosing, ReaderRecord, CloserRecord
<1> QED
  BY <1>1, <1>2, <1>3 DEF Init, TypeInv, StreamSets, Channels, Waiters

\* A stream enters or leaves a set of streams.
LEMMA SetTypes ==
    ASSUME NEW f \in StreamSets, NEW x \in Sides, NEW s \in IDs
    PROVE  Put(f, x, s) \in StreamSets /\ Drop(f, x, s) \in StreamSets
BY DEF Put, Drop, StreamSets

\* A call in progress goes on, or ends.
LEMMA CallTypes ==
    ASSUME TypeInv, NEW c \in Callers
    PROVE  /\ call[c].pc # "idle" => call[c].sid \in IDs
           /\ [call EXCEPT ![c] = Idle] \in [Callers -> CallRecord]
           /\ \A label \in CallPCs : call[c].pc # "idle" =>
                 /\ [call EXCEPT ![c].pc = label] \in [Callers -> CallRecord]
                 /\ [call EXCEPT ![c].pc = label, ![c].ok = TRUE] \in [Callers -> CallRecord]
                 /\ \A h \in {"own", "handler"} :
                       [call EXCEPT ![c].pc = label, ![c].ch = h] \in [Callers -> CallRecord]
<1>1. call \in [Callers -> CallRecord]
  BY DEF TypeInv
<1>2. Idle \in CallRecord
  BY Numbers DEF Idle, CallRecord, CallPCs
<1> QED
  BY <1>1, <1>2 DEF CallRecord

\* The calls of the applications.
LEMMA CallingTypeInv ==
    ASSUME TypeInv, NEW c \in Callers, Calling(c)
    PROVE  TypeInv'
<1> DEFINE x == SideOf[c]
           s == call[c].sid
<1> USE DEF TypeInv, managerVars, pathVars, history, Goto
<1>0. x \in Sides
  BY OpeningConstants
<1>1. ASSUME NEW op \in OpsOf[c], CreateStream(c, op)
      PROVE  TypeInv'
  <2>1. op \in {"open", "accept"}
    BY <1>1, OpeningConstants
  <2>2. nextStreamID[x] + 1 \in 1 .. MaxStreams + 1 /\ nextStreamID[x] \in IDs
    BY <1>0, <1>1, OpeningConstants DEF CreateStream, IDs
  <2>3. nextStreamID' \in [Sides -> 1 .. MaxStreams + 1]
    BY <1>0, <1>1, <2>2 DEF CreateStream
  <2>4. [Idle EXCEPT !.pc = op, !.op = op, !.sid = nextStreamID[x]] \in CallRecord
    BY <2>1, <2>2, Numbers DEF Idle, CallRecord, CallPCs
  <2>5. call' \in [Callers -> CallRecord]
    BY <1>0, <1>1, <2>4 DEF CreateStream
  <2>6. managed' \in StreamSets
    BY <1>0, <1>1, <2>2, SetTypes DEF CreateStream
  <2> QED
    BY <1>1, <2>3, <2>5, <2>6 DEF CreateStream
<1>2. CASE RegisterResponse(c)
  <2>1. s \in IDs /\ call' \in [Callers -> CallRecord]
    BY <1>2, CallTypes DEF RegisterResponse, CallPCs
  <2>2. respCh' \in StreamSets
    BY <1>0, <1>2, <2>1, SetTypes DEF RegisterResponse
  <2>3. respChan' \in Channels
    BY <1>0, <1>2, <2>1 DEF RegisterResponse, Channels
  <2> QED
    BY <1>2, <2>1, <2>2, <2>3 DEF RegisterResponse
<1>3. CASE SubmitOpen(c)
  <2>1. s \in IDs /\ call' \in [Callers -> CallRecord]
    <3>1. call[c].pc # "idle"
      BY <1>3 DEF SubmitOpen
    <3>2. \E label \in {"response", "unregister"} : call' = [call EXCEPT ![c].pc = label]
      BY <1>3 DEF SubmitOpen
    <3>3. s \in IDs
      BY <3>1, CallTypes
    <3>4. call \in [Callers -> CallRecord]
      OBVIOUS
    <3> HIDE DEF TypeInv
    <3> QED
      BY <3>2, <3>3, <3>4 DEF CallRecord, CallPCs
  <2>2. sent' \in [Sides -> SUBSET Frame]
    BY <1>0, <1>3, <2>1 DEF SubmitOpen, Put, OpenFrame, Frame
  <2> QED
    BY <1>3, <2>1, <2>2 DEF SubmitOpen
<1>4. CASE AwaitResponse(c)
  <2>1. s \in IDs /\ call' \in [Callers -> CallRecord]
    <3>1. call[c].pc # "idle"
      BY <1>4 DEF AwaitResponse
    <3>2. \/ call' = [call EXCEPT ![c].pc = "unregister"]
          \/ call' = [call EXCEPT ![c].pc = "unregister", ![c].ok = TRUE]
      BY <1>4 DEF AwaitResponse
    <3>3. s \in IDs
      BY <3>1, CallTypes
    <3>4. call \in [Callers -> CallRecord]
      OBVIOUS
    <3> HIDE DEF TypeInv
    <3> QED
      BY <3>2, <3>3, <3>4 DEF CallRecord, CallPCs
  <2>2. pathStreams' \in StreamSets
    BY <1>0, <1>4, <2>1, SetTypes DEF AwaitResponse
  <2>3. respChan' \in Channels
    <3>1. respChan' = respChan \/ respChan' = [respChan EXCEPT ![x][s] = "empty"]
      BY <1>4 DEF AwaitResponse
    <3>2. respChan \in Channels
      OBVIOUS
    <3> HIDE DEF TypeInv
    <3> QED
      BY <1>0, <2>1, <3>1, <3>2 DEF Channels
  <2> QED
    BY <1>4, <2>1, <2>2, <2>3 DEF AwaitResponse
<1>5. CASE UnregisterResponse(c)
  <2>1. s \in IDs /\ call' \in [Callers -> CallRecord]
    BY <1>5, CallTypes DEF UnregisterResponse, CallPCs
  <2>2. respCh' \in StreamSets
    BY <1>0, <1>5, <2>1, SetTypes DEF UnregisterResponse
  <2> QED
    BY <1>5, <2>1, <2>2 DEF UnregisterResponse
<1>6. CASE CloseResponse(c)
  <2>1. s \in IDs /\ call' \in [Callers -> CallRecord]
    BY <1>6, CallTypes DEF CloseResponse, CallPCs
  <2>2. respChan' \in Channels
    BY <1>0, <1>6, <2>1 DEF CloseResponse, Channels
  <2> QED
    BY <1>6, <2>1, <2>2 DEF CloseResponse
<1>7. CASE AwaitChannel(c)
  <2>1. s \in IDs /\ call' \in [Callers -> CallRecord]
    BY <1>7, CallTypes DEF AwaitChannel, CallPCs
  <2>2. waiters' \in Waiters
    BY <1>0, <1>7, <2>1 DEF AwaitChannel, Waiters
  <2> QED
    BY <1>7, <2>1, <2>2 DEF AwaitChannel
<1>8. CASE AwaitOpen(c)
  <2>1. s \in IDs /\ call' \in [Callers -> CallRecord]
    <3>1. call[c].pc # "idle"
      BY <1>8 DEF AwaitOpen
    <3>2. \/ call' = [call EXCEPT ![c].pc = "unwait"]
          \/ call' = [call EXCEPT ![c].pc = "unwait", ![c].ok = TRUE]
      BY <1>8 DEF AwaitOpen
    <3>3. s \in IDs
      BY <3>1, CallTypes
    <3>4. call \in [Callers -> CallRecord]
      OBVIOUS
    <3> HIDE DEF TypeInv
    <3> QED
      BY <3>2, <3>3, <3>4 DEF CallRecord, CallPCs
  <2>2. pathStreams' \in StreamSets
    BY <1>0, <1>8, <2>1, SetTypes DEF AwaitOpen
  <2> QED
    BY <1>8, <2>1, <2>2 DEF AwaitOpen
<1>9. CASE DeleteWaiter(c)
  <2>1. s \in IDs /\ call' \in [Callers -> CallRecord]
    BY <1>9, CallTypes DEF DeleteWaiter, CallPCs
  <2>2. waiters' \in Waiters
    BY <1>0, <1>9, <2>1 DEF DeleteWaiter, Waiters
  <2> QED
    BY <1>9, <2>1, <2>2 DEF DeleteWaiter
<1>10. CASE LookUpStream(c)
  <2>1. call' \in [Callers -> CallRecord]
    BY <1>10, CallTypes DEF LookUpStream, CallPCs
  <2> QED
    BY <1>10, <2>1 DEF LookUpStream
<1>11. CASE AddPathToStream(c)
  <2>1. s \in IDs /\ call' \in [Callers -> CallRecord]
    BY <1>11, CallTypes DEF AddPathToStream
  <2>2. attached' \in StreamSets /\ opened' \in StreamSets /\ accepted' \in StreamSets
    BY <1>0, <1>11, <2>1, SetTypes DEF AddPathToStream
  <2> QED
    BY <1>11, <2>1, <2>2 DEF AddPathToStream
<1>12. CASE GiveUp(c)
  <2>1. s \in IDs /\ call' \in [Callers -> CallRecord]
    BY <1>12, CallTypes DEF GiveUp
  <2>2. managed' \in StreamSets
    BY <1>0, <1>12, <2>1, SetTypes DEF GiveUp
  <2> QED
    BY <1>12, <2>1, <2>2 DEF GiveUp
<1>13. CASE UndoCreate(c)
  <2>1. s \in IDs /\ call' \in [Callers -> CallRecord]
    BY <1>13, CallTypes DEF UndoCreate, CallPCs
  <2>2. managed' \in StreamSets
    BY <1>0, <1>13, <2>1, SetTypes DEF UndoCreate
  <2> QED
    BY <1>13, <2>1, <2>2 DEF UndoCreate
<1>14. CASE RemoveStream(c)
  <2>1. s \in IDs /\ call' \in [Callers -> CallRecord]
    BY <1>14, CallTypes DEF RemoveStream
  <2>2. pathStreams' \in StreamSets
    BY <1>0, <1>14, <2>1, SetTypes DEF RemoveStream
  <2> QED
    BY <1>14, <2>1, <2>2 DEF RemoveStream
<1> QED
  BY <1>1, <1>2, <1>3, <1>4, <1>5, <1>6, <1>7, <1>8, <1>9, <1>10, <1>11, <1>12, <1>13, <1>14
  DEF Calling

\* The reader goroutines.
LEMMA ReadingTypeInv ==
    ASSUME TypeInv, NEW x \in Sides, Reading(x)
    PROVE  TypeInv'
<1> DEFINE s == reader[x].sid
<1> USE DEF TypeInv, managerVars, pathVars, history
<1>0. reader[x] \in ReaderRecord /\ Listening \in ReaderRecord
  BY Numbers DEF Listening, ReaderRecord
<1>1. ASSUME NEW t \in IDs, ReceiveResponse(x, t) \/ ReceiveOpen(x, t)
      PROVE  TypeInv'
  <2>1. reader' \in [Sides -> ReaderRecord]
    BY <1>1, Numbers DEF ReceiveResponse, ReceiveOpen, ReaderRecord
  <2> QED
    BY <1>1, <2>1 DEF ReceiveResponse, ReceiveOpen
<1>2. CASE DeliverResponse(x)
  <2>1. s \in IDs /\ reader' \in [Sides -> ReaderRecord]
    <3>1. s \in IDs
      BY <1>0, <1>2 DEF DeliverResponse, ReaderRecord
    <3>2. reader' = [reader EXCEPT ![x] = Listening] \/ reader' = [reader EXCEPT ![x].pc = "dead"]
      BY <1>2 DEF DeliverResponse
    <3> QED
      BY <1>0, <3>1, <3>2 DEF ReaderRecord
  <2>2. respChan' \in Channels
    <3>1. respChan' = respChan \/ respChan' = [respChan EXCEPT ![x][s] = "full"]
      BY <1>2 DEF DeliverResponse
    <3> QED
      BY <2>1, <3>1 DEF Channels
  <2> QED
    BY <1>2, <2>1, <2>2 DEF DeliverResponse
<1>3. CASE WakeWaiter(x)
  <2>1. s \in IDs /\ reader' \in [Sides -> ReaderRecord]
    BY <1>0, <1>3 DEF WakeWaiter, ReaderRecord
  <2>2. woken' \in StreamSets
    BY <1>3, <2>1, SetTypes DEF WakeWaiter
  <2> QED
    BY <1>3, <2>1, <2>2 DEF WakeWaiter
<1>4. CASE StoreWaiter(x)
  <2>1. s \in IDs /\ reader' \in [Sides -> ReaderRecord]
    BY <1>0, <1>4 DEF StoreWaiter, ReaderRecord
  <2>2. waiters' \in Waiters
    BY <1>4, <2>1 DEF StoreWaiter, Stored, Waiters
  <2> QED
    BY <1>4, <2>1, <2>2 DEF StoreWaiter
<1>5. CASE Answer(x)
  <2>1. s \in IDs /\ reader' \in [Sides -> ReaderRecord]
    BY <1>0, <1>5 DEF Answer, ReaderRecord
  <2>2. sent' \in [Sides -> SUBSET Frame]
    BY <1>5, <2>1 DEF Answer, Put, RespFrame, Frame
  <2> QED
    BY <1>5, <2>1, <2>2 DEF Answer
<1> QED
  BY <1>1, <1>2, <1>3, <1>4, <1>5 DEF Reading

\* Path.Close and the closing of streams.
LEMMA ClosingTypeInv ==
    ASSUME TypeInv, NEW x \in Sides,
           Closing(x) \/ CloseAllStreams(x) \/ \E s \in IDs : CloseStream(x, s)
    PROVE  TypeInv'
<1> DEFINE sid == closer[x].sid
<1> USE DEF TypeInv, managerVars, pathVars, history, CloserAt
<1>0. closer[x] \in CloserRecord
  OBVIOUS
<1>1. CASE BeginClose(x) \/ CloseLink(x)
  <2>1. closer' \in [Sides -> CloserRecord]
    BY <1>0, <1>1 DEF BeginClose, CloseLink, CloserRecord
  <2> QED
    BY <1>1, <2>1 DEF BeginClose, CloseLink
<1>2. CASE DropStreams(x)
  <2>1. closer' \in [Sides -> CloserRecord] /\ pathStreams' \in StreamSets
    BY <1>2, Numbers DEF DropStreams, CloserRecord, StreamSets
  <2> QED
    BY <1>2, <2>1 DEF DropStreams
<1>3. ASSUME NEW s \in IDs, VisitWaiter(x, s)
      PROVE  TypeInv'
  <2>1. closer' \in [Sides -> CloserRecord]
    BY <1>0, <1>3, Numbers DEF VisitWaiter, CloserRecord
  <2> QED
    BY <1>3, <2>1 DEF VisitWaiter
<1>4. CASE CloseWaiter(x)
  <2>1. sid \in IDs /\ closer' \in [Sides -> CloserRecord]
    BY <1>0, <1>4 DEF CloseWaiter, CloserRecord
  <2>2. woken' \in StreamSets
    BY <1>4, <2>1, SetTypes DEF CloseWaiter
  <2> QED
    BY <1>4, <2>1, <2>2 DEF CloseWaiter
<1>5. CASE ForgetWaiter(x)
  <2>1. sid \in IDs /\ closer' \in [Sides -> CloserRecord]
    BY <1>0, <1>5 DEF ForgetWaiter, CloserRecord
  <2>2. waiters' \in Waiters
    BY <1>5, <2>1 DEF ForgetWaiter, Waiters
  <2> QED
    BY <1>5, <2>1, <2>2 DEF ForgetWaiter
<1>6. CASE ForgetResponses(x)
  <2>1. closer' \in [Sides -> CloserRecord] /\ respCh' \in StreamSets
    BY <1>0, <1>6 DEF ForgetResponses, CloserRecord, StreamSets
  <2> QED
    BY <1>6, <2>1 DEF ForgetResponses
<1>7. CASE CloseAllStreams(x)
  BY <1>7 DEF CloseAllStreams, StreamSets
<1>8. ASSUME NEW s \in IDs, CloseStream(x, s)
      PROVE  TypeInv'
  BY <1>8, SetTypes DEF CloseStream, ClosedOnPath
<1> QED
  BY <1>1, <1>2, <1>3, <1>4, <1>5, <1>6, <1>7, <1>8 DEF Closing

LEMMA TypeStep == TypeInv /\ [Next]_vars => TypeInv'
<1> SUFFICES ASSUME TypeInv, [Next]_vars PROVE TypeInv'
  OBVIOUS
<1>1. CASE UNCHANGED vars
  BY <1>1 DEF TypeInv, vars, managerVars, pathVars, history
<1>2. ASSUME NEW c \in Callers, Calling(c) PROVE TypeInv'
  BY <1>2, CallingTypeInv
<1>3. ASSUME NEW x \in Sides, Reading(x) PROVE TypeInv'
  BY <1>3, ReadingTypeInv
<1>4. ASSUME NEW x \in Sides,
             Closing(x) \/ CloseAllStreams(x) \/ \E s \in IDs : CloseStream(x, s)
      PROVE  TypeInv'
  BY <1>4, ClosingTypeInv
<1> QED
  BY <1>1, <1>2, <1>3, <1>4 DEF Next

\* In every reachable state the variables are well typed and a goroutine in the middle of
\* a call, a frame or a visit of Path.Close holds a stream number.
THEOREM TypeInvariant == Spec => []TypeInv
BY InitTypeInv, TypeStep, PTL DEF Spec

\* Every variable keeps the shape the source gives it, in client.go, server.go,
\* stream_manager.go and path.go.
THEOREM TypeCorrect == Spec => []TypeOK
BY TypeInvariant, TypeInvImplies, PTL

(***************************************************************************)
(* Who works on which stream.  A number belongs to one call of its side at *)
(* most, and to none once the stream has been returned.                    *)
(***************************************************************************)

Busy(c) == call[c].pc # "idle"
Of(c) == SideOf[c]

OneOwner ==
    /\ \A c \in Callers : Busy(c) => call[c].sid < nextStreamID[Of(c)]
    /\ \A c, d \in Callers : c # d /\ Of(c) = Of(d) /\ Busy(c) /\ Busy(d) => call[c].sid # call[d].sid
    /\ \A x \in Sides : \A s \in opened[x] \cup accepted[x] :
          /\ s < nextStreamID[x]
          /\ \A c \in Callers : Of(c) = x /\ Busy(c) => call[c].sid # s

\* A call is at a place of its own operation, and goes to AddPathToStream only after the
\* path's part has succeeded.
InPlace ==
    \A c \in Callers :
        /\ call[c].pc \in {"open", "submit", "response"} => call[c].op = "open"
        /\ call[c].pc \in {"accept", "opening"} => call[c].op = "accept"
        /\ call[c].pc \in {"lookup", "attach"} => call[c].ok
        /\ call[c].pc \in {"open", "submit", "response", "accept", "opening", "fail"} => ~call[c].ok

CallInv == TypeInv /\ OneOwner /\ InPlace

\* The steps in the middle of a call.
Midway(c) ==
    \/ RegisterResponse(c) \/ SubmitOpen(c) \/ AwaitResponse(c)
    \/ UnregisterResponse(c) \/ CloseResponse(c)
    \/ AwaitChannel(c) \/ AwaitOpen(c) \/ DeleteWaiter(c)
    \/ LookUpStream(c) \/ UndoCreate(c)

\* The steps that end one.
Ending(c) == AddPathToStream(c) \/ GiveUp(c) \/ RemoveStream(c)

Elsewhere(x) ==
    \/ Reading(x) \/ Closing(x) \/ CloseAllStreams(x)
    \/ \E s \in IDs : CloseStream(x, s)

LEMMA MidwayKeeps ==
    ASSUME TypeInv, NEW c \in Callers, Midway(c)
    PROVE  /\ UNCHANGED <<nextStreamID, sessionClosed, opened, accepted, closer>>
           /\ Busy(c) /\ Busy(c)'
           /\ \A d \in Callers : call'[d].sid = call[d].sid /\ call'[d].op = call[d].op
           /\ \A d \in Callers : d # c => call'[d] = call[d]
           /\ call'[c].pc # "accept"
<1>1. call \in [Callers -> CallRecord]
  BY DEF TypeInv
<1> USE DEF Busy, CallRecord, managerVars, pathVars, history, Goto
<1>2. CASE RegisterResponse(c)
  BY <1>1, <1>2 DEF RegisterResponse
<1>3. CASE SubmitOpen(c)
  <2>1. \E label \in {"response", "unregister"} : call' = [call EXCEPT ![c].pc = label]
    BY <1>3 DEF SubmitOpen
  <2> QED
    BY <1>1, <1>3, <2>1 DEF SubmitOpen
<1>4. CASE AwaitResponse(c)
  <2>1. \/ call' = [call EXCEPT ![c].pc = "unregister"]
        \/ call' = [call EXCEPT ![c].pc = "unregister", ![c].ok = TRUE]
    BY <1>4 DEF AwaitResponse
  <2> QED
    BY <1>1, <1>4, <2>1 DEF AwaitResponse
<1>5. CASE UnregisterResponse(c)
  BY <1>1, <1>5 DEF UnregisterResponse
<1>6. CASE CloseResponse(c)
  BY <1>1, <1>6 DEF CloseResponse
<1>7. CASE AwaitChannel(c)
  BY <1>1, <1>7 DEF AwaitChannel
<1>8. CASE AwaitOpen(c)
  <2>1. \/ call' = [call EXCEPT ![c].pc = "unwait"]
        \/ call' = [call EXCEPT ![c].pc = "unwait", ![c].ok = TRUE]
    BY <1>8 DEF AwaitOpen
  <2> QED
    BY <1>1, <1>8, <2>1 DEF AwaitOpen
<1>9. CASE DeleteWaiter(c)
  BY <1>1, <1>9 DEF DeleteWaiter
<1>10. CASE LookUpStream(c)
  BY <1>1, <1>10 DEF LookUpStream
<1>11. CASE UndoCreate(c)
  BY <1>1, <1>11 DEF UndoCreate
<1> QED
  BY <1>2, <1>3, <1>4, <1>5, <1>6, <1>7, <1>8, <1>9, <1>10, <1>11 DEF Midway

\* Nobody but the calls touches the calls, the numbers and what was returned.
LEMMA ElsewhereKeeps ==
    ASSUME NEW x \in Sides, Elsewhere(x)
    PROVE  UNCHANGED <<nextStreamID, call, opened, accepted>>
BY DEF Elsewhere, Reading, Closing, managerVars, pathVars, history, ReceiveResponse, ReceiveOpen,
       DeliverResponse, WakeWaiter, StoreWaiter, Answer, BeginClose, DropStreams, VisitWaiter,
       CloseWaiter, ForgetWaiter, ForgetResponses, CloseLink, CloseAllStreams, CloseStream

\* How a step looks to the calls.
LEMMA Steps ==
    ASSUME [Next]_vars
    PROVE  \/ \E c \in Callers, op \in {"open", "accept"} : CreateStream(c, op)
           \/ \E c \in Callers : Midway(c)
           \/ \E c \in Callers : Ending(c)
           \/ \E x \in Sides : Elsewhere(x)
           \/ UNCHANGED vars
BY OpeningConstants DEF Next, Calling, Midway, Ending, Elsewhere

\* What CreateStream, AddPathToStream and GiveUp do to the calls.
LEMMA StartOf ==
    ASSUME TypeInv, NEW c \in Callers, NEW op \in {"open", "accept"}, CreateStream(c, op)
    PROVE  /\ ~Busy(c) /\ Busy(c)'
           /\ call'[c].pc = op /\ call'[c].op = op /\ ~call'[c].ok /\ call'[c].ch = "none"
           /\ call'[c].sid = nextStreamID[Of(c)]
           /\ \A d \in Callers : d # c => call'[d] = call[d]
<1>1. call \in [Callers -> CallRecord]
  BY DEF TypeInv
<1> QED
  BY <1>1 DEF CreateStream, Idle, Busy, Of

LEMMA EndOf ==
    ASSUME TypeInv, NEW c \in Callers, Ending(c)
    PROVE  /\ Busy(c) /\ call'[c] = Idle /\ ~Busy(c)'
           /\ \A d \in Callers : d # c => call'[d] = call[d]
<1>1. call \in [Callers -> CallRecord]
  BY DEF TypeInv
<1>2. Busy(c) /\ call' = [call EXCEPT ![c] = Idle]
  BY DEF Ending, AddPathToStream, GiveUp, RemoveStream, Busy
<1>3. call'[c] = Idle /\ \A d \in Callers : d # c => call'[d] = call[d]
  BY <1>1, <1>2
<1>4. ~Busy(c)'
  BY <1>3 DEF Busy, Idle
<1> QED
  BY <1>2, <1>3, <1>4

LEMMA OwnerStep == CallInv /\ [Next]_vars => OneOwner'
<1> SUFFICES ASSUME CallInv, [Next]_vars PROVE OneOwner'
  OBVIOUS
<1>1. TypeInv /\ OneOwner /\ nextStreamID \in [Sides -> 1 .. MaxStreams + 1] /\ \A c \in Callers : Of(c) \in Sides
  BY OpeningConstants DEF CallInv, TypeInv, Of
<1>2. \A c \in Callers : Busy(c) => call[c].sid \in Nat
  BY <1>1, CallTypes, OpeningConstants DEF Busy, IDs
<1>3. ASSUME NEW c \in Callers, NEW op \in {"open", "accept"}, CreateStream(c, op)
      PROVE  OneOwner'
  <2>1. nextStreamID' = [nextStreamID EXCEPT ![Of(c)] = @ + 1] /\ UNCHANGED <<opened, accepted>>
    BY <1>3 DEF CreateStream, Of, history
  <2>2. opened[Of(c)] \subseteq Nat /\ accepted[Of(c)] \subseteq Nat
    BY <1>1, OpeningConstants DEF TypeInv, StreamSets, IDs
  <2> QED
    BY <1>1, <1>2, <1>3, <2>1, <2>2, StartOf DEF OneOwner, Of, Busy
<1>4. ASSUME NEW c \in Callers, Midway(c)
      PROVE  OneOwner'
  BY <1>1, <1>4, MidwayKeeps DEF OneOwner, Of, Busy
<1>5. ASSUME NEW c \in Callers, Ending(c)
      PROVE  OneOwner'
  <2>1. UNCHANGED nextStreamID
    BY <1>5 DEF Ending, AddPathToStream, GiveUp, RemoveStream, managerVars
  <2>2. \A x \in Sides : \A s \in opened'[x] \cup accepted'[x] :
           s \in opened[x] \cup accepted[x] \/ (x = Of(c) /\ s = call[c].sid)
    BY <1>1, <1>5 DEF Ending, AddPathToStream, GiveUp, RemoveStream, history, Put, TypeInv, StreamSets, Of
  <2> QED
    BY <1>1, <1>5, <2>1, <2>2, EndOf DEF OneOwner, Of, Busy
<1>6. ASSUME NEW x \in Sides, Elsewhere(x)
      PROVE  OneOwner'
  BY <1>1, <1>6, ElsewhereKeeps DEF OneOwner, Busy, Of
<1>7. CASE UNCHANGED vars
  BY <1>1, <1>7 DEF OneOwner, Busy, Of, vars, managerVars, history
<1> QED
  BY <1>3, <1>4, <1>5, <1>6, <1>7, Steps

LEMMA PlaceStep == CallInv /\ [Next]_vars => InPlace'
<1> SUFFICES ASSUME CallInv, [Next]_vars PROVE InPlace'
  OBVIOUS
<1>1. TypeInv /\ InPlace /\ call \in [Callers -> CallRecord]
  BY DEF CallInv, TypeInv
<1>2. ASSUME NEW c \in Callers, NEW op \in {"open", "accept"}, CreateStream(c, op)
      PROVE  InPlace'
  BY <1>1, <1>2, StartOf DEF InPlace
<1>3. ASSUME NEW c \in Callers, Midway(c)
      PROVE  InPlace'
  <2>1. \A d \in Callers : d # c => call'[d] = call[d]
    BY <1>1, <1>3, MidwayKeeps
  <2>2. /\ call'[c].pc \in {"open", "submit", "response"} => call'[c].op = "open"
        /\ call'[c].pc \in {"accept", "opening"} => call'[c].op = "accept"
        /\ call'[c].pc \in {"lookup", "attach"} => call'[c].ok
        /\ call'[c].pc \in {"open", "submit", "response", "accept", "opening", "fail"} => ~call'[c].ok
    <3> USE <1>1 DEF InPlace, CallRecord, CallPCs, Goto
    <3>1. CASE RegisterResponse(c)
      BY <3>1 DEF RegisterResponse
    <3>2. CASE SubmitOpen(c)
      <4>1. \E label \in {"response", "unregister"} : call' = [call EXCEPT ![c].pc = label]
        BY <3>2 DEF SubmitOpen
      <4> QED
        BY <3>2, <4>1 DEF SubmitOpen
    <3>3. CASE AwaitResponse(c)
      <4>1. \/ call' = [call EXCEPT ![c].pc = "unregister"]
            \/ call' = [call EXCEPT ![c].pc = "unregister", ![c].ok = TRUE]
        BY <3>3 DEF AwaitResponse
      <4> QED
        BY <3>3, <4>1 DEF AwaitResponse
    <3>4. CASE UnregisterResponse(c)
      BY <3>4 DEF UnregisterResponse
    <3>5. CASE CloseResponse(c)
      BY <3>5 DEF CloseResponse
    <3>6. CASE AwaitChannel(c)
      BY <3>6 DEF AwaitChannel
    <3>7. CASE AwaitOpen(c)
      <4>1. \/ call' = [call EXCEPT ![c].pc = "unwait"]
            \/ call' = [call EXCEPT ![c].pc = "unwait", ![c].ok = TRUE]
        BY <3>7 DEF AwaitOpen
      <4> QED
        BY <3>7, <4>1 DEF AwaitOpen
    <3>8. CASE DeleteWaiter(c)
      BY <3>8 DEF DeleteWaiter
    <3>9. CASE LookUpStream(c)
      BY <3>9 DEF LookUpStream
    <3>10. CASE UndoCreate(c)
      BY <3>10 DEF UndoCreate
    <3> QED
      BY <1>3, <3>1, <3>2, <3>3, <3>4, <3>5, <3>6, <3>7, <3>8, <3>9, <3>10 DEF Midway
  <2> QED
    BY <1>1, <2>1, <2>2 DEF InPlace
<1>4. ASSUME NEW c \in Callers, Ending(c)
      PROVE  InPlace'
  BY <1>1, <1>4, EndOf DEF InPlace, Idle
<1>5. ASSUME NEW x \in Sides, Elsewhere(x)
      PROVE  InPlace'
  BY <1>1, <1>5, ElsewhereKeeps DEF InPlace
<1>6. CASE UNCHANGED vars
  BY <1>1, <1>6 DEF InPlace, vars
<1> QED
  BY <1>2, <1>3, <1>4, <1>5, <1>6, Steps

LEMMA CallInvariant == Spec => []CallInv
<1>1. Init => CallInv
  <2> SUFFICES ASSUME Init PROVE CallInv
    OBVIOUS
  <2>1. \A c \in Callers : call[c].pc = "idle" /\ ~call[c].ok
    BY DEF Init, Idle
  <2>2. \A x \in Sides : opened[x] \cup accepted[x] = {}
    BY DEF Init
  <2> QED
    BY <2>1, <2>2, InitTypeInv DEF CallInv, OneOwner, InPlace, Busy
<1>2. CallInv /\ [Next]_vars => CallInv'
  BY TypeStep, OwnerStep, PlaceStep DEF CallInv
<1> QED
  BY <1>1, <1>2, PTL DEF Spec

\* What was sent stays sent, and a path that has begun to close is not ready again.
LEMMA Monotone ==
    ASSUME TypeInv, [Next]_vars
    PROVE  \A x \in Sides : sent[x] \subseteq sent'[x] /\ (Ready(x)' => Ready(x))
<1>1. sent \in [Sides -> SUBSET Frame] /\ closer \in [Sides -> CloserRecord]
  BY DEF TypeInv
<1>2. ASSUME NEW c \in Callers, NEW op \in {"open", "accept"}, CreateStream(c, op)
      PROVE  UNCHANGED <<sent, closer>>
  BY <1>2 DEF CreateStream
<1>3. ASSUME NEW c \in Callers, Ending(c)
      PROVE  UNCHANGED <<sent, closer>>
  BY <1>3 DEF Ending, AddPathToStream, GiveUp, RemoveStream
<1>4. ASSUME NEW c \in Callers, Midway(c)
      PROVE  (\A x \in Sides : sent[x] \subseteq sent'[x]) /\ UNCHANGED closer
  <2>1. CASE SubmitOpen(c)
    BY <1>1, <2>1 DEF SubmitOpen, Put
  <2>2. CASE ~SubmitOpen(c)
    BY <1>4, <2>2 DEF Midway, RegisterResponse, AwaitResponse, UnregisterResponse, CloseResponse,
                      AwaitChannel, AwaitOpen, DeleteWaiter, LookUpStream, UndoCreate
  <2> QED
    BY <2>1, <2>2
<1>5. ASSUME NEW y \in Sides, Elsewhere(y)
      PROVE  \A x \in Sides : sent[x] \subseteq sent'[x] /\ (Ready(x)' => Ready(x))
  <2>1. CASE Reading(y)
    <3>1. UNCHANGED closer
      BY <2>1 DEF Reading, ReceiveResponse, ReceiveOpen, DeliverResponse, WakeWaiter, StoreWaiter, Answer
    <3>2. sent' = sent \/ Answer(y)
      BY <2>1 DEF Reading, ReceiveResponse, ReceiveOpen, DeliverResponse, WakeWaiter, StoreWaiter
    <3>3. sent' = sent \/ sent' = Put(sent, y, RespFrame(reader[y].sid))
      BY <3>2 DEF Answer
    <3>4. \A x \in Sides : sent[x] \subseteq sent'[x]
      BY <1>1, <3>3 DEF Put
    <3> QED
      BY <3>1, <3>4 DEF Ready
  <2>2. CASE Closing(y)
    <3> USE <1>1 DEF CloserAt, CloserRecord
    <3>1. UNCHANGED sent
      BY <2>2 DEF Closing, BeginClose, DropStreams, VisitWaiter, CloseWaiter, ForgetWaiter,
                  ForgetResponses, CloseLink
    <3>2. CASE BeginClose(y) \/ CloseWaiter(y) \/ ForgetResponses(y) \/ CloseLink(y)
      <4>1. \E label \in {"streams", "delete", "link", "done"} : closer' = [closer EXCEPT ![y].pc = label]
        BY <3>2 DEF BeginClose, CloseWaiter, ForgetResponses, CloseLink
      <4>2. \A x \in Sides : closer'[x].pc = "no" => closer[x].pc = "no"
        BY <4>1
      <4> QED
        BY <3>1, <4>2 DEF Ready
    <3>3. CASE DropStreams(y)
      BY <3>1, <3>3 DEF DropStreams, Ready
    <3>4. ASSUME NEW s \in IDs, VisitWaiter(y, s)
          PROVE  \A x \in Sides : Ready(x)' => Ready(x)
      BY <3>4 DEF VisitWaiter, Ready
    <3>5. CASE ForgetWaiter(y)
      BY <3>1, <3>5 DEF ForgetWaiter, Ready
    <3> QED
      BY <2>2, <3>1, <3>2, <3>3, <3>4, <3>5 DEF Closing
  <2>3. CASE CloseAllStreams(y) \/ \E s \in IDs : CloseStream(y, s)
    BY <2>3 DEF CloseAllStreams, CloseStream, Ready
  <2> QED
    BY <1>5, <2>1, <2>2, <2>3 DEF Elsewhere
<1> QED
  BY <1>2, <1>3, <1>4, <1>5, Steps DEF Ready, vars

\* Once a number has been looked for, it has been for good.
LEMMA UnaskedStep ==
    ASSUME CallInv, [Next]_vars
    PROVE  \A y \in Sides, s \in IDs : Unasked(y, s)' => Unasked(y, s)
<1>1. TypeInv /\ OneOwner /\ nextStreamID \in [Sides -> 1 .. MaxStreams + 1] /\ IDs \subseteq Nat
  BY OpeningConstants DEF CallInv, TypeInv, IDs
<1>2. ASSUME NEW c \in Callers, NEW op \in {"open", "accept"}, CreateStream(c, op)
      PROVE  \A y \in Sides, s \in IDs : Unasked(y, s)' => Unasked(y, s)
  <2>1. nextStreamID' = [nextStreamID EXCEPT ![Of(c)] = @ + 1] /\ Of(c) \in Sides
    BY <1>2, OpeningConstants DEF CreateStream, Of
  <2>2. \A y \in Sides : nextStreamID[y] \in Nat /\ nextStreamID'[y] >= nextStreamID[y]
    BY <1>1, <2>1, OpeningConstants
  <2> QED
    BY <1>1, <1>2, <2>1, <2>2, StartOf DEF Unasked, Of
<1>3. ASSUME NEW c \in Callers, Midway(c)
      PROVE  \A y \in Sides, s \in IDs : Unasked(y, s)' => Unasked(y, s)
  BY <1>1, <1>3, MidwayKeeps DEF Unasked
<1>4. ASSUME NEW c \in Callers, Ending(c)
      PROVE  \A y \in Sides, s \in IDs : Unasked(y, s)' => Unasked(y, s)
  <2>1. UNCHANGED nextStreamID /\ call'[c].pc = "idle"
    BY <1>1, <1>4, EndOf DEF Ending, AddPathToStream, GiveUp, RemoveStream, Idle, managerVars
  <2> QED
    BY <1>1, <1>4, <2>1, EndOf DEF Unasked
<1>5. ASSUME NEW x \in Sides, Elsewhere(x)
      PROVE  \A y \in Sides, s \in IDs : Unasked(y, s)' => Unasked(y, s)
  BY <1>5, ElsewhereKeeps DEF Unasked
<1>6. CASE UNCHANGED vars
  BY <1>6 DEF Unasked, vars, managerVars
<1> QED
  BY <1>2, <1>3, <1>4, <1>5, <1>6, Steps

\* What can happen to an entry of the waiters' map.
LEMMA WaitersStep ==
    ASSUME TypeInv, [Next]_vars, NEW y \in Sides, NEW s \in IDs
    PROVE  \/ waiters'[y][s] = waiters[y][s]
           \/ \E c \in Callers : /\ AwaitChannel(c) /\ Of(c) = y /\ call[c].sid = s
                                 /\ waiters[y][s] = "none" /\ waiters'[y][s] = "own"
           \/ \E c \in Callers : /\ DeleteWaiter(c) /\ Of(c) = y /\ call[c].sid = s
                                 /\ waiters'[y][s] = "none"
           \/ StoreWaiter(y) /\ reader[y].sid = s /\ waiters'[y][s] = "handler"
           \/ ~Ready(y) /\ waiters'[y][s] = "none"
<1>1. waiters \in Waiters
  BY DEF TypeInv
<1>2. ASSUME NEW c \in Callers, AwaitChannel(c), waiters'[y][s] # waiters[y][s]
      PROVE  Of(c) = y /\ call[c].sid = s /\ waiters[y][s] = "none" /\ waiters'[y][s] = "own"
  BY <1>1, <1>2 DEF AwaitChannel, Waiters, Of
<1>3. ASSUME NEW c \in Callers, DeleteWaiter(c), waiters'[y][s] # waiters[y][s]
      PROVE  Of(c) = y /\ call[c].sid = s /\ waiters'[y][s] = "none"
  BY <1>1, <1>3 DEF DeleteWaiter, Waiters, Of
<1>4. ASSUME NEW x \in Sides, StoreWaiter(x), waiters'[y][s] # waiters[y][s]
      PROVE  x = y /\ reader[y].sid = s /\ waiters'[y][s] = "handler"
  BY <1>1, <1>4 DEF StoreWaiter, Stored, Waiters
<1>5. ASSUME NEW x \in Sides, ForgetWaiter(x), waiters'[y][s] # waiters[y][s]
      PROVE  ~Ready(y) /\ waiters'[y][s] = "none"
  BY <1>1, <1>5 DEF ForgetWaiter, Waiters, Ready
<1>6. ASSUME NEW c \in Callers, Midway(c), ~AwaitChannel(c), ~DeleteWaiter(c)
      PROVE  UNCHANGED waiters
  BY <1>6 DEF Midway, RegisterResponse, SubmitOpen, AwaitResponse, UnregisterResponse, CloseResponse,
              AwaitOpen, LookUpStream, UndoCreate, pathVars
<1>7. ASSUME NEW x \in Sides, Elsewhere(x), ~StoreWaiter(x), ~ForgetWaiter(x)
      PROVE  UNCHANGED waiters
  BY <1>7 DEF Elsewhere, Reading, Closing, pathVars, ReceiveResponse, ReceiveOpen, DeliverResponse,
              WakeWaiter, Answer, BeginClose, DropStreams, VisitWaiter, CloseWaiter,
              ForgetResponses, CloseLink, CloseAllStreams, CloseStream
<1>8. ASSUME NEW c \in Callers, Ending(c) \/ \E op \in {"open", "accept"} : CreateStream(c, op)
      PROVE  UNCHANGED waiters
  BY <1>8 DEF Ending, AddPathToStream, GiveUp, RemoveStream, CreateStream, pathVars
<1>9. UNCHANGED vars => UNCHANGED waiters
  BY DEF vars, pathVars
<1> QED
  BY <1>2, <1>3, <1>4, <1>5, <1>6, <1>7, <1>8, <1>9, Steps

\* A call's own channel is in the map only for a number that has been looked for.
Owned == \A y \in Sides, s \in IDs : waiters[y][s] = "own" => ~Unasked(y, s)

LEMMA OwnedStep == CallInv /\ Owned /\ [Next]_vars => Owned'
<1> SUFFICES ASSUME CallInv, Owned, [Next]_vars, NEW y \in Sides, NEW s \in IDs, waiters'[y][s] = "own"
             PROVE  ~Unasked(y, s)'
  BY DEF Owned
<1>1. TypeInv /\ OneOwner /\ nextStreamID[y] \in Nat
  BY OpeningConstants DEF CallInv, TypeInv
<1>2. CASE waiters'[y][s] = waiters[y][s]
  BY <1>2, UnaskedStep DEF Owned
<1>3. ASSUME NEW c \in Callers, AwaitChannel(c), Of(c) = y, call[c].sid = s
      PROVE  ~Unasked(y, s)'
  <2>1. Midway(c)
    BY <1>3 DEF Midway
  <2>2. s < nextStreamID'[y] /\ \A d \in Callers : d # c /\ Of(d) = y /\ Busy(d) => call[d].sid # s
    BY <1>1, <1>3, <2>1, MidwayKeeps DEF OneOwner
  <2> QED
    BY <1>1, <2>1, <2>2, MidwayKeeps, OpeningConstants DEF Unasked, Busy, Of, IDs
<1> QED
  BY <1>1, <1>2, <1>3, WaitersStep

WaitingInv == CallInv /\ Owned

LEMMA WaitingInvariant == Spec => []WaitingInv
<1>1. Init => Owned
  BY DEF Init, Owned
<1>2. CallInv /\ CallInv' /\ Owned /\ [Next]_vars => Owned'
  BY OwnedStep
<1> QED
  BY <1>1, <1>2, CallInvariant, PTL DEF Spec, WaitingInv

\* What can happen to the frame a reader is working on.
LEMMA ReaderStep ==
    ASSUME TypeInv, [Next]_vars, NEW y \in Sides
    PROVE  \/ reader'[y] = reader[y]
           \/ \E s \in IDs : ReceiveResponse(y, s) /\ reader'[y] = [pc |-> "response", sid |-> s]
           \/ \E s \in IDs : /\ ReceiveOpen(y, s) /\ reader'[y].sid = s
                             /\ \/ reader'[y].pc = "store"
                                \/ reader'[y].pc = "close" /\ waiters[y][s] = "own"
                                \/ reader'[y].pc = "answer" /\ waiters[y][s] # "none"
           \/ WakeWaiter(y) /\ reader'[y].pc = "answer" /\ reader'[y].sid = reader[y].sid
           \/ StoreWaiter(y) /\ reader'[y].pc = "answer" /\ reader'[y].sid = reader[y].sid
           \/ reader'[y].pc \in {"idle", "dead"}
<1>1. reader \in [Sides -> ReaderRecord]
  BY DEF TypeInv
<1>2. ASSUME NEW x \in Sides, NEW s \in IDs, ReceiveResponse(x, s), reader'[y] # reader[y]
      PROVE  x = y /\ reader'[y] = [pc |-> "response", sid |-> s]
  BY <1>1, <1>2 DEF ReceiveResponse
<1>3. ASSUME NEW x \in Sides, NEW s \in IDs, ReceiveOpen(x, s), reader'[y] # reader[y]
      PROVE  /\ x = y /\ reader'[y].sid = s
             /\ \/ reader'[y].pc = "store"
                \/ reader'[y].pc = "close" /\ waiters[y][s] = "own"
                \/ reader'[y].pc = "answer" /\ waiters[y][s] # "none"
  BY <1>1, <1>3 DEF ReceiveOpen
<1>4. ASSUME NEW x \in Sides, DeliverResponse(x), reader'[y] # reader[y]
      PROVE  reader'[y].pc \in {"idle", "dead"}
  <2>1. reader' = [reader EXCEPT ![x] = Listening] \/ reader' = [reader EXCEPT ![x].pc = "dead"]
    BY <1>4 DEF DeliverResponse
  <2> QED
    BY <1>1, <1>4, <2>1 DEF Listening, ReaderRecord
<1>5. ASSUME NEW x \in Sides, WakeWaiter(x), reader'[y] # reader[y]
      PROVE  x = y /\ reader'[y].sid = reader[y].sid /\ reader'[y].pc \in {"answer", "dead"}
  BY <1>1, <1>5 DEF WakeWaiter, ReaderRecord
<1>6. ASSUME NEW x \in Sides, StoreWaiter(x), reader'[y] # reader[y]
      PROVE  x = y /\ reader'[y].sid = reader[y].sid /\ reader'[y].pc = "answer"
  BY <1>1, <1>6 DEF StoreWaiter, ReaderRecord
<1>7. ASSUME NEW x \in Sides, Answer(x), reader'[y] # reader[y]
      PROVE  reader'[y].pc = "idle"
  BY <1>1, <1>7 DEF Answer, Listening
<1>8. ASSUME NEW x \in Sides, Elsewhere(x), ~Reading(x)
      PROVE  UNCHANGED reader
  BY <1>8 DEF Elsewhere, Closing, BeginClose, DropStreams, VisitWaiter, CloseWaiter, ForgetWaiter,
              ForgetResponses, CloseLink, CloseAllStreams, CloseStream
<1>9. ASSUME NEW c \in Callers,
             Midway(c) \/ Ending(c) \/ \E op \in {"open", "accept"} : CreateStream(c, op)
      PROVE  UNCHANGED reader
  BY <1>9 DEF Midway, Ending, AddPathToStream, GiveUp, RemoveStream, CreateStream, RegisterResponse, SubmitOpen, AwaitResponse,
              UnregisterResponse, CloseResponse, AwaitChannel, AwaitOpen, DeleteWaiter, LookUpStream, UndoCreate
<1>10. UNCHANGED vars => UNCHANGED reader
  BY DEF vars
<1>11. ASSUME NEW x \in Sides, Reading(x), reader'[y] # reader[y]
       PROVE  \/ \E s \in IDs : ReceiveResponse(x, s) \/ ReceiveOpen(x, s)
              \/ DeliverResponse(x) \/ WakeWaiter(x) \/ StoreWaiter(x) \/ Answer(x)
  BY <1>11 DEF Reading
<1> QED
  BY <1>2, <1>3, <1>4, <1>5, <1>6, <1>7, <1>8, <1>9, <1>10, <1>11, Steps

\* Only the reader and Path.Close close the channel of a waiting AcceptStream.
LEMMA WokenStep ==
    ASSUME TypeInv, [Next]_vars, NEW y \in Sides, NEW s \in woken'[y]
    PROVE  s \in woken[y] \/ (reader[y].pc = "close" /\ reader[y].sid = s) \/ ~Ready(y)
<1>1. woken \in [Sides -> SUBSET IDs]
  BY DEF TypeInv, StreamSets
<1>2. ASSUME NEW x \in Sides, WakeWaiter(x)
      PROVE  s \in woken[y] \/ (reader[y].pc = "close" /\ reader[y].sid = s)
  BY <1>1, <1>2 DEF WakeWaiter, Put
<1>3. ASSUME NEW x \in Sides, CloseWaiter(x)
      PROVE  s \in woken[y] \/ ~Ready(y)
  BY <1>1, <1>3 DEF CloseWaiter, Put, Ready
<1>4. ASSUME NEW x \in Sides, Elsewhere(x), ~WakeWaiter(x), ~CloseWaiter(x)
      PROVE  UNCHANGED woken
  BY <1>4 DEF Elsewhere, Reading, Closing, pathVars, ReceiveResponse, ReceiveOpen, DeliverResponse,
              StoreWaiter, Answer, BeginClose, DropStreams, VisitWaiter, ForgetWaiter,
              ForgetResponses, CloseLink, CloseAllStreams, CloseStream
<1>5. ASSUME NEW c \in Callers,
             Midway(c) \/ Ending(c) \/ \E op \in {"open", "accept"} : CreateStream(c, op)
      PROVE  UNCHANGED woken
  BY <1>5 DEF Midway, Ending, AddPathToStream, GiveUp, RemoveStream, CreateStream, pathVars, RegisterResponse, SubmitOpen,
              AwaitResponse, UnregisterResponse, CloseResponse, AwaitChannel, AwaitOpen, DeleteWaiter,
              LookUpStream, UndoCreate
<1>6. UNCHANGED vars => UNCHANGED woken
  BY DEF vars, pathVars
<1> QED
  BY <1>2, <1>3, <1>4, <1>5, <1>6, Steps

\* When a call gets hold of the closed channel, and when its path's part succeeds.
LEMMA OutcomeStep ==
    ASSUME TypeInv, [Next]_vars, NEW c \in Callers
    PROVE  /\ call'[c].ch = "handler" =>
                \/ call[c].ch = "handler" /\ call'[c].sid = call[c].sid
                \/ /\ call[c].pc = "accept" /\ waiters[Of(c)][call[c].sid] # "none"
                   /\ call[c].sid \in IDs /\ call'[c].sid = call[c].sid
           /\ call'[c].ok =>
                /\ call'[c].sid = call[c].sid /\ call'[c].op = call[c].op
                /\ \/ call[c].ok
                   \/ call[c].pc = "response" /\ respChan[Of(c)][call[c].sid] = "full"
                   \/ call[c].pc = "opening" /\ Signalled(c)
<1> DEFINE Held ==
             /\ call'[c].ch = "handler" =>
                  \/ call[c].ch = "handler" /\ call'[c].sid = call[c].sid
                  \/ /\ call[c].pc = "accept" /\ waiters[Of(c)][call[c].sid] # "none"
                     /\ call[c].sid \in IDs /\ call'[c].sid = call[c].sid
             /\ call'[c].ok =>
                  /\ call'[c].sid = call[c].sid /\ call'[c].op = call[c].op
                  /\ \/ call[c].ok
                     \/ call[c].pc = "response" /\ respChan[Of(c)][call[c].sid] = "full"
                     \/ call[c].pc = "opening" /\ Signalled(c)
<1>0. call \in [Callers -> CallRecord]
  BY DEF TypeInv
<1>1. ASSUME NEW d \in Callers, NEW op \in {"open", "accept"}, CreateStream(d, op)
      PROVE  Held
  BY <1>1, StartOf
<1>2. ASSUME NEW d \in Callers, Ending(d)
      PROVE  Held
  BY <1>2, EndOf DEF Idle
<1>3. ASSUME Midway(c)
      PROVE  Held
  <2>1. Busy(c) /\ call[c].sid \in IDs /\ call'[c].sid = call[c].sid /\ call'[c].op = call[c].op
    BY <1>3, MidwayKeeps, CallTypes DEF Busy
  <2> USE <1>0 DEF CallRecord, Goto, Of
  <2>2. CASE AwaitResponse(c)
    <3>1. \/ call' = [call EXCEPT ![c].pc = "unregister"]
          \/ /\ respChan[Of(c)][call[c].sid] = "full"
             /\ call' = [call EXCEPT ![c].pc = "unregister", ![c].ok = TRUE]
      BY <2>2 DEF AwaitResponse
    <3> QED
      BY <2>1, <2>2, <3>1 DEF AwaitResponse
  <2>3. CASE AwaitOpen(c)
    <3>1. \/ call' = [call EXCEPT ![c].pc = "unwait"]
          \/ Signalled(c) /\ call' = [call EXCEPT ![c].pc = "unwait", ![c].ok = TRUE]
      BY <2>3 DEF AwaitOpen
    <3> QED
      BY <2>1, <2>3, <3>1 DEF AwaitOpen
  <2>4. CASE AwaitChannel(c)
    BY <2>1, <2>4 DEF AwaitChannel
  <2>5. CASE ~AwaitResponse(c) /\ ~AwaitOpen(c) /\ ~AwaitChannel(c)
    <3>1. \E label \in CallPCs : call' = [call EXCEPT ![c].pc = label]
      BY <1>3, <2>5 DEF Midway, RegisterResponse, SubmitOpen, UnregisterResponse, CloseResponse,
                        DeleteWaiter, LookUpStream, UndoCreate, CallPCs
    <3> QED
      BY <2>1, <3>1
  <2> QED
    BY <2>2, <2>3, <2>4, <2>5
<1>4. ASSUME NEW d \in Callers, d # c, Midway(d)
      PROVE  Held
  BY <1>4, MidwayKeeps
<1>5. ASSUME NEW x \in Sides, Elsewhere(x)
      PROVE  Held
  BY <1>5, ElsewhereKeeps
<1>6. UNCHANGED vars => Held
  BY DEF vars
<1> QED
  BY <1>1, <1>2, <1>3, <1>4, <1>5, <1>6, Steps

\* A stream is returned by a call whose path's part has succeeded.
LEMMA ReturnStep ==
    ASSUME CallInv, [Next]_vars, NEW x \in Sides
    PROVE  /\ \A s \in accepted'[x] \ accepted[x] :
                \E c \in Callers : Of(c) = x /\ call[c].sid = s /\ call[c].op = "accept" /\ call[c].ok
           /\ \A s \in opened'[x] \ opened[x] :
                \E c \in Callers : Of(c) = x /\ call[c].sid = s /\ call[c].op = "open" /\ call[c].ok
<1> DEFINE Brought ==
             /\ \A s \in accepted'[x] \ accepted[x] :
                  \E c \in Callers : Of(c) = x /\ call[c].sid = s /\ call[c].op = "accept" /\ call[c].ok
             /\ \A s \in opened'[x] \ opened[x] :
                  \E c \in Callers : Of(c) = x /\ call[c].sid = s /\ call[c].op = "open" /\ call[c].ok
<1>0. TypeInv /\ InPlace /\ opened \in [Sides -> SUBSET IDs] /\ accepted \in [Sides -> SUBSET IDs]
  BY DEF CallInv, TypeInv, StreamSets
<1>1. ASSUME NEW d \in Callers, NEW op \in {"open", "accept"}, CreateStream(d, op)
      PROVE  Brought
  BY <1>1 DEF CreateStream, history
<1>2. ASSUME NEW d \in Callers, AddPathToStream(d)
      PROVE  Brought
  <2>1. call[d].ok
    BY <1>0, <1>2 DEF AddPathToStream, InPlace
  <2> QED
    BY <1>0, <1>2, <2>1 DEF AddPathToStream, Put, Of
<1>3. ASSUME NEW d \in Callers, GiveUp(d) \/ RemoveStream(d)
      PROVE  Brought
  BY <1>3 DEF GiveUp, RemoveStream, history
<1>4. ASSUME NEW d \in Callers, Midway(d)
      PROVE  Brought
  BY <1>0, <1>4, MidwayKeeps
<1>5. ASSUME NEW y \in Sides, Elsewhere(y)
      PROVE  Brought
  BY <1>5, ElsewhereKeeps
<1>6. UNCHANGED vars => Brought
  BY DEF vars, history
<1> QED
  BY <1>1, <1>2, <1>3, <1>4, <1>5, <1>6, Steps DEF Ending

(***************************************************************************)
(* AcceptedWasOpened.  Every trace an OpenStreamFrame leaves on the        *)
(* acceptor's side (the reader at work on it, a closed channel in the map  *)
(* or in a call's hands, the waking of a waiter) has that frame behind it, *)
(* except what Path.Close has woken.                                       *)
(***************************************************************************)

Came(y, s) == OpenFrame(s) \in sent[PeerOf[y]]

Traces ==
    /\ \A y \in Sides, s \in IDs : waiters[y][s] = "handler" => Came(y, s)
    /\ \A y \in Sides : reader[y].pc \in {"store", "close", "answer"} => Came(y, reader[y].sid)
    /\ \A y \in Sides : \A s \in woken[y] : Ready(y) => Came(y, s)
    /\ \A c \in Callers : call[c].ch = "handler" => Came(Of(c), call[c].sid)
    /\ \A c \in Callers :
          call[c].op = "accept" /\ call[c].ok /\ Ready(Of(c)) => Came(Of(c), call[c].sid)
    /\ AcceptedWasOpened

LEMMA CameStays ==
    ASSUME TypeInv, [Next]_vars
    PROVE  /\ \A y \in Sides : \A s : Came(y, s) => OpenFrame(s) \in sent'[PeerOf[y]]
           /\ \A y \in Sides : Ready(y)' => Ready(y)
BY Monotone, OpeningConstants DEF Came

LEMMA TracesStep == WaitingInv /\ Traces /\ [Next]_vars => Traces'
<1> SUFFICES ASSUME WaitingInv, Traces, [Next]_vars PROVE Traces'
  OBVIOUS
<1>0. /\ CallInv /\ TypeInv /\ InPlace /\ Owned /\ \A c \in Callers : Of(c) \in Sides
      /\ woken' \in [Sides -> SUBSET IDs] /\ accepted' \in [Sides -> SUBSET IDs]
      /\ TypeInv'
  BY TypeStep, OpeningConstants DEF WaitingInv, CallInv, TypeInv, StreamSets, Of
<1>1. /\ \A y \in Sides : \A s : Came(y, s) => OpenFrame(s) \in sent'[PeerOf[y]]
      /\ \A y \in Sides : Ready(y)' => Ready(y)
  BY <1>0, CameStays
<1>2. \A y \in Sides, s \in IDs : waiters'[y][s] = "handler" => OpenFrame(s) \in sent'[PeerOf[y]]
  BY <1>0, <1>1, WaitersStep DEF Traces, StoreWaiter
<1>3. ASSUME NEW y \in Sides, reader'[y].pc \in {"store", "close", "answer"}
      PROVE  OpenFrame(reader'[y].sid) \in sent'[PeerOf[y]]
  <2>1. Came(y, reader'[y].sid)
    <3>1. CASE reader'[y] = reader[y]
      BY <1>3, <3>1 DEF Traces
    <3>2. ASSUME NEW s \in IDs, ReceiveOpen(y, s), reader'[y].sid = s
          PROVE  Came(y, s)
      BY <3>2 DEF ReceiveOpen, Came
    <3>3. CASE (WakeWaiter(y) \/ StoreWaiter(y)) /\ reader'[y].sid = reader[y].sid
      BY <3>3 DEF WakeWaiter, StoreWaiter, Traces
    <3> QED
      <4>1. \/ reader'[y] = reader[y]
            \/ \E s \in IDs : ReceiveOpen(y, s) /\ reader'[y].sid = s
            \/ (WakeWaiter(y) \/ StoreWaiter(y)) /\ reader'[y].sid = reader[y].sid
        <5>1. \A s : reader'[y] # [pc |-> "response", sid |-> s]
          BY <1>3
        <5>2. ~(reader'[y].pc \in {"idle", "dead"})
          BY <1>3
        <5> QED
          BY <1>0, <5>1, <5>2, ReaderStep
      <4> QED
        BY <3>1, <3>2, <3>3, <4>1
  <2> QED
    BY <1>1, <2>1
<1>4. \A y \in Sides : \A s \in woken'[y] : Ready(y)' => OpenFrame(s) \in sent'[PeerOf[y]]
  BY <1>0, <1>1, WokenStep DEF Traces
<1>5. ASSUME NEW c \in Callers, call'[c].ch = "handler"
      PROVE  OpenFrame(call'[c].sid) \in sent'[PeerOf[Of(c)]]
  <2>1. CASE call[c].ch = "handler" /\ call'[c].sid = call[c].sid
    BY <1>0, <1>1, <2>1 DEF Traces
  <2>2. CASE /\ call[c].pc = "accept" /\ waiters[Of(c)][call[c].sid] # "none"
             /\ call[c].sid \in IDs /\ call'[c].sid = call[c].sid
    <3>1. Unasked(Of(c), call[c].sid)
      BY <2>2 DEF Unasked, Of
    <3>2. waiters[Of(c)][call[c].sid] = "handler"
      BY <1>0, <2>2, <3>1 DEF Owned, TypeInv, Waiters
    <3> QED
      BY <1>0, <1>1, <2>2, <3>2 DEF Traces
  <2> QED
    BY <1>0, <1>5, <2>1, <2>2, OutcomeStep
<1>6. ASSUME NEW c \in Callers, call'[c].op = "accept", call'[c].ok, Ready(Of(c))'
      PROVE  OpenFrame(call'[c].sid) \in sent'[PeerOf[Of(c)]]
  <2>1. call'[c].sid = call[c].sid /\ call[c].op = "accept" /\ Ready(Of(c))
    BY <1>0, <1>1, <1>6, OutcomeStep
  <2>2. CASE call[c].ok
    BY <1>0, <1>1, <2>1, <2>2 DEF Traces
  <2>3. CASE Signalled(c)
    BY <1>0, <1>1, <2>1, <2>3 DEF Traces, Signalled, Of
  <2> QED
    BY <1>0, <1>6, <2>1, <2>2, <2>3, OutcomeStep DEF InPlace
<1>7. AcceptedWasOpened'
  BY <1>0, <1>1, ReturnStep DEF Traces, AcceptedWasOpened, Came
<1> QED
  BY <1>2, <1>3, <1>4, <1>5, <1>6, <1>7 DEF Traces, Came, Of

LEMMA TracesInvariant == Spec => []Traces
<1>1. Init => Traces
  <2> SUFFICES ASSUME Init PROVE Traces
    OBVIOUS
  <2>1. \A c \in Callers : call[c].ch # "handler" /\ ~call[c].ok
    BY DEF Init, Idle
  <2>2. \A y \in Sides : reader[y].pc = "idle"
    BY DEF Init, Listening
  <2>3. \A y \in Sides : woken[y] = {} /\ accepted[y] = {} /\ \A s \in IDs : waiters[y][s] = "none"
    BY DEF Init
  <2> QED
    BY <2>1, <2>2, <2>3 DEF Traces, AcceptedWasOpened
<1>2. WaitingInv /\ Traces /\ [Next]_vars => Traces'
  BY TracesStep
<1> QED
  BY <1>1, <1>2, WaitingInvariant, PTL DEF Spec

\* AcceptStream (path.go) returns a stream only after the peer has sent the frame that
\* opens it, unless Path.Close has let it go.
THEOREM AcceptedWasOpenedHolds == Spec => []AcceptedWasOpened
<1>1. Traces => AcceptedWasOpened
  BY DEF Traces
<1> QED
  BY <1>1, TracesInvariant, PTL

(***************************************************************************)
(* OpenedIsAcceptable.  A response, from the frame's handling to the       *)
(* return of OpenStreamSync, has a closed channel waiting on its sender's  *)
(* side for as long as nobody there has looked for the stream.             *)
(***************************************************************************)

Acceptable(y, s) == Ready(y) /\ Unasked(y, s) => waiters[y][s] = "handler"
Answered(x, s) == RespFrame(s) \in sent[PeerOf[x]]

Answers ==
    /\ \A y \in Sides :
          /\ reader[y].pc = "answer" => Acceptable(y, reader[y].sid)
          /\ reader[y].pc = "close" => ~Unasked(y, reader[y].sid)
    /\ \A y \in Sides, s \in IDs : RespFrame(s) \in sent[y] => Acceptable(y, s)
    /\ \A x \in Sides, s \in IDs : respChan[x][s] = "full" => Answered(x, s)
    /\ \A x \in Sides : reader[x].pc = "response" => Answered(x, reader[x].sid)
    /\ \A c \in Callers : call[c].op = "open" /\ call[c].ok => Answered(Of(c), call[c].sid)
    /\ \A x \in Sides : \A s \in opened[x] : Answered(x, s)

\* The waiting channel is taken by the call that looks for it and by Path.Close only.
LEMMA AcceptableStep ==
    ASSUME WaitingInv, [Next]_vars, NEW y \in Sides, NEW s \in IDs, Acceptable(y, s)
    PROVE  Acceptable(y, s)'
<1> SUFFICES ASSUME Ready(y)', Unasked(y, s)' PROVE waiters'[y][s] = "handler"
  BY DEF Acceptable
<1>1. CallInv /\ TypeInv /\ OneOwner /\ Ready(y) /\ Unasked(y, s) /\ waiters[y][s] = "handler"
  BY UnaskedStep, Monotone DEF WaitingInv, CallInv, Acceptable
<1>2. ASSUME NEW c \in Callers, DeleteWaiter(c), Of(c) = y, call[c].sid = s
      PROVE  FALSE
  <2>1. call[c].pc = "unwait" /\ Busy(c)
    BY <1>2 DEF DeleteWaiter, Busy
  <2>2. s < nextStreamID[y] /\ \A d \in Callers : d # c /\ Of(d) = y /\ Busy(d) => call[d].sid # s
    BY <1>1, <1>2, <2>1 DEF OneOwner
  <2>3. nextStreamID[y] \in Nat /\ s \in Nat
    BY <1>1, OpeningConstants DEF TypeInv, IDs
  <2> QED
    BY <1>1, <2>1, <2>2, <2>3 DEF Unasked, Of, Busy
<1> QED
  BY <1>1, <1>2, WaitersStep

\* A response is sent by the reader that has handled the frame.
LEMMA AnswerStep ==
    ASSUME TypeInv, [Next]_vars, NEW y \in Sides, NEW s \in IDs, RespFrame(s) \in sent'[y]
    PROVE  RespFrame(s) \in sent[y] \/ (reader[y].pc = "answer" /\ reader[y].sid = s)
<1>0. sent \in [Sides -> SUBSET Frame]
  BY DEF TypeInv
<1>1. ASSUME NEW x \in Sides, Answer(x)
      PROVE  RespFrame(s) \in sent[y] \/ (reader[y].pc = "answer" /\ reader[y].sid = s)
  <2>1. sent' = sent \/ sent' = Put(sent, x, RespFrame(reader[x].sid))
    BY <1>1 DEF Answer
  <2> QED
    BY <1>0, <1>1, <2>1 DEF Put, RespFrame, Answer
<1>2. ASSUME NEW c \in Callers, SubmitOpen(c)
      PROVE  RespFrame(s) \in sent[y]
  <2>1. sent' = sent \/ sent' = Put(sent, Of(c), OpenFrame(call[c].sid))
    BY <1>2 DEF SubmitOpen, Of
  <2> QED
    BY <1>0, <2>1 DEF Put, RespFrame, OpenFrame
<1>3. ASSUME NEW x \in Sides, Elsewhere(x), ~Answer(x)
      PROVE  UNCHANGED sent
  BY <1>3 DEF Elsewhere, Reading, Closing, ReceiveResponse, ReceiveOpen, DeliverResponse, WakeWaiter,
              StoreWaiter, BeginClose, DropStreams, VisitWaiter, CloseWaiter, ForgetWaiter,
              ForgetResponses, CloseLink, CloseAllStreams, CloseStream
<1>4. ASSUME NEW c \in Callers, ~SubmitOpen(c),
             Midway(c) \/ Ending(c) \/ \E op \in {"open", "accept"} : CreateStream(c, op)
      PROVE  UNCHANGED sent
  BY <1>4 DEF Midway, Ending, AddPathToStream, GiveUp, RemoveStream, CreateStream, RegisterResponse, AwaitResponse,
              UnregisterResponse, CloseResponse, AwaitChannel, AwaitOpen, DeleteWaiter, LookUpStream, UndoCreate
<1>5. UNCHANGED vars => UNCHANGED sent
  BY DEF vars
<1> QED
  BY <1>1, <1>2, <1>3, <1>4, <1>5, Steps

\* A response channel is filled by the reader that has received the response.
LEMMA FullStep ==
    ASSUME TypeInv, [Next]_vars, NEW x \in Sides, NEW s \in IDs, respChan'[x][s] = "full"
    PROVE  respChan[x][s] = "full" \/ (reader[x].pc = "response" /\ reader[x].sid = s)
<1>0. respChan \in [Sides -> [IDs -> {"none", "empty", "full", "closed"}]]
  BY DEF TypeInv, Channels
<1>1. ASSUME NEW y \in Sides, DeliverResponse(y)
      PROVE  respChan[x][s] = "full" \/ (reader[x].pc = "response" /\ reader[x].sid = s)
  <2>1. respChan' = respChan \/ respChan' = [respChan EXCEPT ![y][reader[y].sid] = "full"]
    BY <1>1 DEF DeliverResponse
  <2> QED
    BY <1>0, <1>1, <2>1 DEF DeliverResponse
<1>2. ASSUME NEW c \in Callers, RegisterResponse(c) \/ AwaitResponse(c) \/ CloseResponse(c)
      PROVE  respChan[x][s] = "full"
  <2>1. \/ respChan' = respChan
        \/ respChan' = [respChan EXCEPT ![Of(c)][call[c].sid] = "empty"]
        \/ respChan' = [respChan EXCEPT ![Of(c)][call[c].sid] = "closed"]
    BY <1>2 DEF RegisterResponse, AwaitResponse, CloseResponse, Of
  <2> QED
    BY <1>0, <2>1
<1>3. ASSUME NEW y \in Sides, Elsewhere(y), ~DeliverResponse(y)
      PROVE  UNCHANGED respChan
  BY <1>3 DEF Elsewhere, Reading, Closing, pathVars, ReceiveResponse, ReceiveOpen, WakeWaiter,
              StoreWaiter, Answer, BeginClose, DropStreams, VisitWaiter, CloseWaiter, ForgetWaiter,
              ForgetResponses, CloseLink, CloseAllStreams, CloseStream
<1>4. ASSUME NEW c \in Callers, ~RegisterResponse(c), ~AwaitResponse(c), ~CloseResponse(c),
             Midway(c) \/ Ending(c) \/ \E op \in {"open", "accept"} : CreateStream(c, op)
      PROVE  UNCHANGED respChan
  BY <1>4 DEF Midway, Ending, AddPathToStream, GiveUp, RemoveStream, CreateStream, pathVars, SubmitOpen, UnregisterResponse,
              AwaitChannel, AwaitOpen, DeleteWaiter, LookUpStream, UndoCreate
<1>5. UNCHANGED vars => UNCHANGED respChan
  BY DEF vars, pathVars
<1> QED
  BY <1>1, <1>2, <1>3, <1>4, <1>5, Steps

LEMMA AnswersStep == WaitingInv /\ Answers /\ [Next]_vars => Answers'
<1> SUFFICES ASSUME WaitingInv, Answers, [Next]_vars PROVE Answers'
  OBVIOUS
<1>0. /\ CallInv /\ TypeInv /\ InPlace /\ Owned /\ \A c \in Callers : Of(c) \in Sides
      /\ opened' \in [Sides -> SUBSET IDs] /\ TypeInv'
  BY TypeStep, OpeningConstants DEF WaitingInv, CallInv, TypeInv, StreamSets, Of
<1>1. \A x \in Sides : \A s : Answered(x, s) => RespFrame(s) \in sent'[PeerOf[x]]
  BY <1>0, Monotone, OpeningConstants DEF Answered
<1>2. \A y \in Sides : reader[y].pc # "idle" => reader[y].sid \in IDs
  BY <1>0 DEF TypeInv, ReaderRecord
<1>3. ASSUME NEW y \in Sides, NEW s \in IDs, reader'[y].pc = "answer", reader'[y].sid = s
      PROVE  Acceptable(y, s)'
  <2>1. CASE reader'[y] = reader[y]
    BY <1>3, <2>1, AcceptableStep DEF Answers
  <2>2. CASE ReceiveOpen(y, s) /\ waiters[y][s] # "none"
    <3>1. waiters[y][s] \in {"own", "handler"}
      BY <1>0, <2>2 DEF TypeInv, Waiters
    <3>2. Acceptable(y, s)
      BY <1>0, <3>1 DEF Acceptable, Owned
    <3> QED
      BY <3>2, AcceptableStep
  <2>3. CASE WakeWaiter(y) /\ reader[y].sid = s
    <3>1. ~Unasked(y, s)
      BY <2>3 DEF WakeWaiter, Answers
    <3> QED
      BY <1>0, <3>1, UnaskedStep DEF Acceptable
  <2>4. CASE StoreWaiter(y) /\ reader[y].sid = s
    BY <1>0, <2>4 DEF StoreWaiter, Stored, Acceptable, TypeInv, Waiters
  <2>5. \A t : reader'[y] # [pc |-> "response", sid |-> t]
    BY <1>3
  <2>6. ~(reader'[y].pc \in {"idle", "dead"})
    BY <1>3
  <2>7. \/ reader'[y] = reader[y]
        \/ ReceiveOpen(y, s) /\ waiters[y][s] # "none"
        \/ (WakeWaiter(y) \/ StoreWaiter(y)) /\ reader[y].sid = s
    BY <1>0, <1>3, <2>5, <2>6, ReaderStep
  <2> QED
    BY <2>1, <2>2, <2>3, <2>4, <2>7
<1>4. ASSUME NEW y \in Sides, NEW s \in IDs, reader'[y].pc = "close", reader'[y].sid = s
      PROVE  ~Unasked(y, s)'
  <2>1. \/ reader'[y] = reader[y]
        \/ waiters[y][s] = "own"
    <3>1. \A t : reader'[y] # [pc |-> "response", sid |-> t]
      BY <1>4
    <3> QED
      BY <1>0, <1>4, <3>1, ReaderStep
  <2>2. ~Unasked(y, s)
    BY <1>0, <1>4, <2>1 DEF Answers, Owned
  <2> QED
    BY <1>0, <2>2, UnaskedStep
<1>5. ASSUME NEW y \in Sides, NEW s \in IDs, RespFrame(s) \in sent'[y]
      PROVE  Acceptable(y, s)'
  BY <1>0, <1>5, AnswerStep, AcceptableStep DEF Answers
<1>6. \A x \in Sides, s \in IDs : respChan'[x][s] = "full" => RespFrame(s) \in sent'[PeerOf[x]]
  BY <1>0, <1>1, FullStep DEF Answers
<1>7. ASSUME NEW x \in Sides, reader'[x].pc = "response"
      PROVE  RespFrame(reader'[x].sid) \in sent'[PeerOf[x]]
  <2>1. \/ reader'[x] = reader[x]
        \/ \E s \in IDs : ReceiveResponse(x, s) /\ reader'[x] = [pc |-> "response", sid |-> s]
    BY <1>0, <1>7, ReaderStep
  <2>2. ASSUME NEW s \in IDs, ReceiveResponse(x, s)
        PROVE  Answered(x, s)
    BY <2>2 DEF ReceiveResponse, Answered
  <2>3. Answered(x, reader'[x].sid)
    <3>1. CASE reader'[x] = reader[x]
      BY <1>7, <3>1 DEF Answers
    <3>2. ASSUME NEW s \in IDs, ReceiveResponse(x, s), reader'[x] = [pc |-> "response", sid |-> s]
          PROVE  Answered(x, reader'[x].sid)
      BY <2>2, <3>2 DEF Answered
    <3> QED
      BY <2>1, <3>1, <3>2
  <2> QED
    BY <1>1, <2>3
<1>8. ASSUME NEW c \in Callers, call'[c].op = "open", call'[c].ok
      PROVE  RespFrame(call'[c].sid) \in sent'[PeerOf[Of(c)]]
  <2>1. call'[c].sid = call[c].sid /\ call[c].op = "open"
    BY <1>0, <1>8, OutcomeStep
  <2>2. call[c].ok \/ (call[c].pc = "response" /\ respChan[Of(c)][call[c].sid] = "full")
    BY <1>0, <1>8, <2>1, OutcomeStep DEF InPlace
  <2>3. call[c].pc # "idle" => call[c].sid \in IDs
    BY <1>0, CallTypes
  <2>4. Answered(Of(c), call[c].sid)
    BY <1>0, <2>1, <2>2, <2>3 DEF Answers
  <2> QED
    BY <1>0, <1>1, <2>1, <2>4
<1>9. \A x \in Sides : \A s \in opened'[x] : RespFrame(s) \in sent'[PeerOf[x]]
  BY <1>0, <1>1, ReturnStep DEF Answers
<1>10. \A y \in Sides : reader'[y].pc # "idle" => reader'[y].sid \in IDs
  BY <1>0 DEF TypeInv, ReaderRecord
<1> QED
  BY <1>3, <1>4, <1>5, <1>6, <1>7, <1>8, <1>9, <1>10
  DEF Answers, Answered, Acceptable, Unasked, Ready, Of

LEMMA AnswersInvariant == Spec => []Answers
<1>1. Init => Answers
  <2> SUFFICES ASSUME Init PROVE Answers
    OBVIOUS
  <2>1. \A c \in Callers : ~call[c].ok
    BY DEF Init, Idle
  <2>2. \A y \in Sides : reader[y].pc = "idle"
    BY DEF Init, Listening
  <2>3. \A y \in Sides : sent[y] = {} /\ opened[y] = {} /\ \A s \in IDs : respChan[y][s] = "none"
    BY DEF Init
  <2> QED
    BY <2>1, <2>2, <2>3 DEF Answers
<1>2. WaitingInv /\ Answers /\ [Next]_vars => Answers'
  BY AnswersStep
<1> QED
  BY <1>1, <1>2, WaitingInvariant, PTL DEF Spec

\* A stream that OpenStreamSync has returned can be accepted by the peer under its number
\* while the peer's path is open (handleOpenStreamFrame, AcceptStream in path.go).
THEOREM OpenedIsAcceptableHolds == Spec => []OpenedIsAcceptable
<1>1. TypeInv /\ Answers => OpenedIsAcceptable
  <2> SUFFICES ASSUME TypeInv, Answers, NEW x \in Sides, NEW s \in opened[x],
                      Ready(PeerOf[x]), Unasked(PeerOf[x], s)
               PROVE  waiters[PeerOf[x]][s] = "handler"
    BY DEF OpenedIsAcceptable
  <2>1. s \in IDs /\ PeerOf[x] \in Sides
    BY OpeningConstants DEF TypeInv, StreamSets
  <2> QED
    BY <2>1 DEF Answers, Answered, Acceptable
<1> QED
  BY <1>1, TypeInvariant, AnswersInvariant, PTL

(***************************************************************************)
(* NothingLeftBehind.  While a call is under way its stream is the         *)
(* manager's, and the path has it only once the path's part has succeeded. *)
(***************************************************************************)

Kept(x, s) == s \in managed[x] \/ sessionClosed[x]

\* A call of side x works on stream s.
Working(x, s) == \E c \in Callers : Of(c) = x /\ Busy(c) /\ call[c].sid = s

Undone ==
    /\ \A x \in Sides : \A s \in pathStreams[x] :
          s \in managed[x] \/ Working(x, s) \/ (sessionClosed[x] /\ Returned(x, s))
    /\ \A x \in Sides : \A s \in managed[x] : Returned(x, s) \/ Working(x, s)
    /\ \A c \in Callers : Busy(c) /\ call[c].pc # "remove" => Kept(Of(c), call[c].sid)
    /\ \A c \in Callers : call[c].pc = "remove" => call[c].sid \notin managed[Of(c)]
    /\ \A c \in Callers : Busy(c) /\ ~call[c].ok => call[c].sid \notin pathStreams[Of(c)]
    /\ \A x \in Sides : \A s \in pathStreams[x] : s < nextStreamID[x]

\* What can happen to the streams a path has open and to those of the manager.
LEMMA StreamsStep ==
    ASSUME TypeInv, [Next]_vars, NEW x \in Sides
    PROVE  /\ \A s \in pathStreams'[x] :
                \/ s \in pathStreams[x]
                \/ \E c \in Callers : /\ Midway(c) /\ Of(c) = x /\ call[c].sid = s
                                      /\ call[c].pc \in {"response", "opening"} /\ call'[c].ok
           /\ sessionClosed[x] => sessionClosed'[x]
           /\ \A s \in managed'[x] :
                \/ s \in managed[x]
                \/ \E c \in Callers, op \in {"open", "accept"} :
                      CreateStream(c, op) /\ Of(c) = x /\ s = nextStreamID[x]
           /\ \A s \in managed[x] \ managed'[x] :
                \/ sessionClosed'[x] /\ UNCHANGED <<call, opened, accepted>>
                \/ CloseStream(x, s) /\ pathStreams'[x] = pathStreams[x] \ {s}
                \/ \E c \in Callers : /\ GiveUp(c) \/ UndoCreate(c)
                                      /\ Of(c) = x /\ call[c].sid = s /\ UNCHANGED pathStreams
<1> DEFINE Streams ==
             /\ \A s \in pathStreams'[x] :
                  \/ s \in pathStreams[x]
                  \/ \E c \in Callers : /\ Midway(c) /\ Of(c) = x /\ call[c].sid = s
                                        /\ call[c].pc \in {"response", "opening"} /\ call'[c].ok
             /\ sessionClosed[x] => sessionClosed'[x]
             /\ \A s \in managed'[x] :
                  \/ s \in managed[x]
                  \/ \E c \in Callers, op \in {"open", "accept"} :
                        CreateStream(c, op) /\ Of(c) = x /\ s = nextStreamID[x]
             /\ \A s \in managed[x] \ managed'[x] :
                  \/ sessionClosed'[x] /\ UNCHANGED <<call, opened, accepted>>
                  \/ CloseStream(x, s) /\ pathStreams'[x] = pathStreams[x] \ {s}
                  \/ \E c \in Callers : /\ GiveUp(c) \/ UndoCreate(c)
                                        /\ Of(c) = x /\ call[c].sid = s /\ UNCHANGED pathStreams
<1>0. /\ managed \in [Sides -> SUBSET IDs] /\ pathStreams \in [Sides -> SUBSET IDs]
      /\ sessionClosed \in [Sides -> BOOLEAN] /\ call \in [Callers -> CallRecord]
  BY DEF TypeInv, StreamSets
<1> USE DEF managerVars, pathVars
<1>1. ASSUME NEW c \in Callers, NEW op \in {"open", "accept"}, CreateStream(c, op)
      PROVE  Streams
  BY <1>0, <1>1 DEF CreateStream, Put, Of
<1>2. ASSUME NEW c \in Callers, GiveUp(c) \/ UndoCreate(c)
      PROVE  Streams
  <2>1. UNCHANGED <<pathStreams, sessionClosed>> /\ managed' = Drop(managed, Of(c), call[c].sid)
    BY <1>2 DEF GiveUp, UndoCreate, Of
  <2>2. /\ \A s \in managed[x] \ managed'[x] : Of(c) = x /\ call[c].sid = s
        /\ managed'[x] \subseteq managed[x]
    BY <1>0, <2>1 DEF Drop
  <2> QED
    BY <1>2, <2>1, <2>2
<1>3. ASSUME NEW c \in Callers, AddPathToStream(c)
      PROVE  Streams
  BY <1>3 DEF AddPathToStream
<1>4. ASSUME NEW c \in Callers, RemoveStream(c)
      PROVE  Streams
  BY <1>0, <1>4 DEF RemoveStream, Drop
<1>5. ASSUME NEW c \in Callers, AwaitResponse(c) \/ AwaitOpen(c)
      PROVE  Streams
  <2>1. UNCHANGED <<managed, sessionClosed>> /\ Midway(c) /\ call[c].pc \in {"response", "opening"}
    BY <1>5 DEF AwaitResponse, AwaitOpen, Midway
  <2>2. \/ UNCHANGED pathStreams
        \/ /\ pathStreams' = Put(pathStreams, Of(c), call[c].sid)
           /\ \E label \in CallPCs : call' = [call EXCEPT ![c].pc = label, ![c].ok = TRUE]
    BY <1>5 DEF AwaitResponse, AwaitOpen, Of, CallPCs
  <2>3. UNCHANGED pathStreams \/ (pathStreams' = Put(pathStreams, Of(c), call[c].sid) /\ call'[c].ok)
    BY <1>0, <2>2 DEF CallRecord
  <2> QED
    BY <1>0, <2>1, <2>3 DEF Put
<1>6. ASSUME NEW c \in Callers, Midway(c), ~AwaitResponse(c), ~AwaitOpen(c), ~UndoCreate(c)
      PROVE  Streams
  <2>1. UNCHANGED <<managed, pathStreams, sessionClosed>>
    BY <1>6 DEF Midway, RegisterResponse, SubmitOpen, UnregisterResponse, CloseResponse,
                AwaitChannel, DeleteWaiter, LookUpStream
  <2> QED
    BY <2>1
<1>7. ASSUME NEW y \in Sides, DropStreams(y)
      PROVE  Streams
  BY <1>0, <1>7 DEF DropStreams
<1>8. ASSUME NEW y \in Sides, CloseAllStreams(y)
      PROVE  Streams
  BY <1>0, <1>8 DEF CloseAllStreams, history
<1>9. ASSUME NEW y \in Sides, NEW s \in IDs, CloseStream(y, s)
      PROVE  Streams
  <2>1. /\ UNCHANGED sessionClosed /\ managed' = Drop(managed, y, s)
        /\ pathStreams' = Drop(pathStreams, y, s)
    BY <1>9 DEF CloseStream, ClosedOnPath
  <2>2. (\A t \in managed[x] \ managed'[x] : y = x /\ t = s) /\ managed'[x] \subseteq managed[x]
    BY <1>0, <2>1 DEF Drop
  <2>3. pathStreams'[x] \subseteq pathStreams[x] /\ (y = x => pathStreams'[x] = pathStreams[x] \ {s})
    BY <1>0, <2>1 DEF Drop
  <2> QED
    BY <1>9, <2>1, <2>2, <2>3
<1>10. ASSUME NEW y \in Sides, (Closing(y) /\ ~DropStreams(y)) \/ Reading(y)
       PROVE  Streams
  <2>1. UNCHANGED <<managed, pathStreams, sessionClosed>>
    BY <1>10 DEF Reading, Closing, ReceiveResponse, ReceiveOpen, DeliverResponse, WakeWaiter,
                 StoreWaiter, Answer, BeginClose, VisitWaiter, CloseWaiter, ForgetWaiter,
                 ForgetResponses, CloseLink
  <2> QED
    BY <2>1
<1>11. UNCHANGED vars => Streams
  BY DEF vars
<1> HIDE DEF Streams
<1>12. Streams
  BY <1>1, <1>2, <1>3, <1>4, <1>5, <1>6, <1>7, <1>8, <1>9, <1>10, <1>11, Steps DEF Ending, Elsewhere
<1> QED
  BY <1>12 DEF Streams

\* How a step takes a call on.
LEMMA BusyStep ==
    ASSUME TypeInv, [Next]_vars, NEW c \in Callers
    PROVE  \/ call'[c] = call[c] /\ ~Midway(c) /\ ~Ending(c)
           \/ /\ ~Busy(c) /\ ~Midway(c) /\ Busy(c)'
              /\ call'[c].sid = nextStreamID[Of(c)] /\ ~call'[c].ok
              /\ call'[c].sid \in managed'[Of(c)] /\ UNCHANGED pathStreams
           \/ /\ Midway(c) /\ ~Ending(c) /\ Busy(c) /\ Busy(c)' /\ call'[c].sid = call[c].sid
              /\ call[c].pc # "remove" /\ (call'[c].pc = "remove" <=> UndoCreate(c))
              /\ call[c].ok => call'[c].ok
           \/ Ending(c) /\ Busy(c) /\ ~Busy(c)' /\ ~Midway(c)
<1>0. /\ call \in [Callers -> CallRecord] /\ managed \in [Sides -> SUBSET IDs] /\ Of(c) \in Sides
      /\ nextStreamID \in [Sides -> 1 .. MaxStreams + 1]
  BY OpeningConstants DEF TypeInv, StreamSets, Of
<1>1. ASSUME NEW op \in {"open", "accept"}, CreateStream(c, op)
      PROVE  /\ ~Busy(c) /\ Busy(c)' /\ call'[c].sid = nextStreamID[Of(c)] /\ ~call'[c].ok
             /\ call'[c].sid \in managed'[Of(c)] /\ UNCHANGED pathStreams
  <2>1. nextStreamID[Of(c)] \in managed'[Of(c)] /\ UNCHANGED pathStreams
    BY <1>0, <1>1 DEF CreateStream, Put, Of, pathVars
  <2> QED
    BY <1>1, <2>1, StartOf
<1>2. ASSUME Midway(c)
      PROVE  /\ Busy(c) /\ Busy(c)' /\ call'[c].sid = call[c].sid
             /\ call[c].pc # "remove" /\ (call'[c].pc = "remove" <=> UndoCreate(c))
             /\ call[c].ok => call'[c].ok
  <2>1. Busy(c) /\ Busy(c)' /\ call'[c].sid = call[c].sid
    BY <1>2, MidwayKeeps
  <2>2. call[c].pc # "remove"
    BY <1>2 DEF Midway, RegisterResponse, SubmitOpen, AwaitResponse, UnregisterResponse, CloseResponse,
                AwaitChannel, AwaitOpen, DeleteWaiter, LookUpStream, UndoCreate
  <2>3. CASE UndoCreate(c)
    BY <1>0, <2>1, <2>2, <2>3 DEF UndoCreate, Goto, CallRecord
  <2>4. CASE ~UndoCreate(c)
    <3>1. \E label \in CallPCs \ {"remove"} :
             \/ call' = [call EXCEPT ![c].pc = label]
             \/ call' = [call EXCEPT ![c].pc = label, ![c].ok = TRUE]
             \/ \E h \in {"own", "handler"} : call' = [call EXCEPT ![c].pc = label, ![c].ch = h]
      BY <1>2, <2>4 DEF Midway, RegisterResponse, SubmitOpen, AwaitResponse, UnregisterResponse, CloseResponse,
                AwaitChannel, AwaitOpen, DeleteWaiter, LookUpStream, Goto, CallPCs
    <3> QED
      BY <1>0, <2>1, <2>2, <2>4, <3>1 DEF CallRecord
  <2> QED
    BY <2>3, <2>4
<1>3. ASSUME Ending(c)
      PROVE  Busy(c) /\ ~Busy(c)'
  BY <1>3, EndOf
<1>4. ASSUME NEW d \in Callers, d # c,
             Midway(d) \/ Ending(d) \/ \E op \in {"open", "accept"} : CreateStream(d, op)
      PROVE  call'[c] = call[c]
  BY <1>4, MidwayKeeps, EndOf, StartOf
<1>5. ASSUME NEW x \in Sides, Elsewhere(x) \/ UNCHANGED vars
      PROVE  call'[c] = call[c]
  BY <1>5, ElsewhereKeeps DEF vars
<1>6. Midway(c) => ~Ending(c)
  BY <1>2, <1>3
<1> QED
  BY <1>0, <1>1, <1>2, <1>3, <1>4, <1>5, <1>6, Steps

\* A stream leaves the manager with its session, by CloseStream, or by a call that fails.
LEMMA LeavesManager ==
    ASSUME TypeInv, [Next]_vars, NEW x \in Sides, NEW s \in managed[x] \ managed'[x]
    PROVE  \/ sessionClosed'[x] /\ UNCHANGED <<call, opened, accepted>>
           \/ CloseStream(x, s) /\ pathStreams'[x] = pathStreams[x] \ {s}
           \/ \E c \in Callers : /\ GiveUp(c) \/ UndoCreate(c)
                                 /\ Of(c) = x /\ call[c].sid = s /\ UNCHANGED pathStreams
BY StreamsStep

\* A stream comes to the manager by a call that begins.
LEMMA ComesToManager ==
    ASSUME TypeInv, [Next]_vars, NEW x \in Sides, NEW s \in managed'[x]
    PROVE  \/ s \in managed[x]
           \/ \E c \in Callers, op \in {"open", "accept"} :
                 CreateStream(c, op) /\ Of(c) = x /\ s = nextStreamID[x]
BY StreamsStep

\* A stream comes to a path by a call that has been answered.
LEMMA ComesToPath ==
    ASSUME TypeInv, [Next]_vars, NEW x \in Sides, NEW s \in pathStreams'[x]
    PROVE  \/ s \in pathStreams[x]
           \/ \E c \in Callers : /\ Midway(c) /\ Of(c) = x /\ call[c].sid = s
                                 /\ call[c].pc \in {"response", "opening"} /\ call'[c].ok
BY StreamsStep

\* What was returned stays returned.
LEMMA ReturnedStays ==
    ASSUME TypeInv, [Next]_vars, NEW x \in Sides, NEW s, Returned(x, s)
    PROVE  Returned(x, s)'
<1>1. opened \in [Sides -> SUBSET IDs] /\ accepted \in [Sides -> SUBSET IDs]
  BY DEF TypeInv, StreamSets
<1>2. CASE UNCHANGED <<opened, accepted>>
  BY <1>2 DEF Returned
<1>3. ASSUME NEW c \in Callers, AddPathToStream(c)
      PROVE  Returned(x, s)'
  <2>1. /\ opened' = opened \/ opened' = Put(opened, Of(c), call[c].sid)
        /\ accepted' = accepted \/ accepted' = Put(accepted, Of(c), call[c].sid)
    BY <1>3 DEF AddPathToStream, Of
  <2>2. opened[x] \subseteq opened'[x] /\ accepted[x] \subseteq accepted'[x]
    BY <1>1, <2>1 DEF Put
  <2> QED
    BY <2>2 DEF Returned
<1>4. ASSUME NEW c \in Callers, GiveUp(c) \/ RemoveStream(c)
      PROVE  UNCHANGED <<opened, accepted>>
  BY <1>4 DEF GiveUp, RemoveStream, history
<1>5. ASSUME NEW c \in Callers, NEW op \in {"open", "accept"}, CreateStream(c, op)
      PROVE  UNCHANGED <<opened, accepted>>
  BY <1>5 DEF CreateStream, history
<1>6. UNCHANGED vars => UNCHANGED <<opened, accepted>>
  BY DEF vars, history
<1> QED
  BY <1>2, <1>3, <1>4, <1>5, <1>6, MidwayKeeps, ElsewhereKeeps, Steps DEF Ending

\* A stream that a call works on is worked on still, unless the call ends.
LEMMA WorkGoesOn ==
    ASSUME TypeInv, [Next]_vars, NEW x \in Sides, NEW s, Working(x, s)
    PROVE  \/ \E c \in Callers : Of(c) = x /\ Busy(c)' /\ call'[c].sid = s
           \/ \E c \in Callers : Of(c) = x /\ call[c].sid = s /\ Ending(c)
<1>1. PICK c \in Callers : Of(c) = x /\ Busy(c) /\ call[c].sid = s
  BY DEF Working
<1>2. CASE call'[c] = call[c]
  BY <1>1, <1>2 DEF Busy
<1> QED
  BY <1>1, <1>2, BusyStep

\* A call that ends has returned its stream, or the manager and the path have lost it.
LEMMA EndsWith ==
    ASSUME CallInv, Undone, [Next]_vars, NEW c \in Callers, Ending(c),
           NEW x, NEW s, x = Of(c), s = call[c].sid
    PROVE  \/ Returned(x, s)' /\ Kept(x, s)'
           \/ s \notin managed'[x] /\ s \notin pathStreams'[x]
<1>0. /\ TypeInv /\ InPlace /\ x \in Sides /\ Busy(c)
      /\ managed \in [Sides -> SUBSET IDs] /\ pathStreams \in [Sides -> SUBSET IDs]
      /\ opened \in [Sides -> SUBSET IDs] /\ accepted \in [Sides -> SUBSET IDs]
  BY EndOf, OpeningConstants DEF CallInv, TypeInv, StreamSets, Of
<1>1. CASE AddPathToStream(c)
  <2>1. call[c].op \in {"open", "accept"}
    BY <1>0 DEF TypeInv, CallRecord
  <2>2. s \in opened'[x] \cup accepted'[x]
    BY <1>0, <1>1, <2>1 DEF AddPathToStream, Put, Of
  <2>3. Kept(x, s) /\ UNCHANGED <<managed, sessionClosed>>
    BY <1>0, <1>1 DEF AddPathToStream, Undone
  <2> QED
    BY <2>2, <2>3 DEF Returned, Kept
<1>2. CASE GiveUp(c)
  <2>1. s \notin managed'[x]
    BY <1>0, <1>2 DEF GiveUp, Drop, Of
  <2>2. ~call[c].ok /\ UNCHANGED pathStreams
    BY <1>0, <1>2 DEF GiveUp, InPlace, pathVars
  <2>3. s \notin pathStreams[x]
    BY <1>0, <2>2 DEF Undone
  <2> QED
    BY <2>1, <2>2, <2>3
<1>3. CASE RemoveStream(c)
  <2>1. s \notin pathStreams'[x]
    BY <1>0, <1>3 DEF RemoveStream, Drop, Of
  <2>2. s \notin managed[x] /\ UNCHANGED managed
    BY <1>0, <1>3 DEF RemoveStream, Undone, managerVars
  <2> QED
    BY <2>1, <2>2
<1> QED
  BY <1>1, <1>2, <1>3 DEF Ending

\* A call keeps its stream in the manager until it has failed, and takes it from the path
\* after that; in between the stream is the call's own.
LEMMA UndoneStep == CallInv /\ Undone /\ [Next]_vars => Undone'
<1> SUFFICES ASSUME CallInv, Undone, [Next]_vars PROVE Undone'
  OBVIOUS
<1>0. /\ TypeInv /\ OneOwner /\ InPlace /\ \A c \in Callers : Of(c) \in Sides
      /\ managed \in [Sides -> SUBSET IDs] /\ pathStreams \in [Sides -> SUBSET IDs]
      /\ IDs \subseteq Nat
  BY OpeningConstants DEF CallInv, TypeInv, StreamSets, Of, IDs
<1> DEFINE WorkingNow(x, s) == \E c \in Callers : Of(c) = x /\ Busy(c)' /\ call'[c].sid = s
<1>a. \A x \in Sides : \A s : sessionClosed[x] /\ Returned(x, s) => sessionClosed'[x] /\ Returned(x, s)'
  BY <1>0, ReturnedStays, StreamsStep
<1>1. ASSUME NEW x \in Sides, NEW s \in pathStreams'[x]
      PROVE  s \in managed'[x] \/ WorkingNow(x, s) \/ (sessionClosed'[x] /\ Returned(x, s)')
  <2>1. CASE Working(x, s)
    <3>1. ASSUME NEW c \in Callers, Of(c) = x, call[c].sid = s, Ending(c)
          PROVE  Returned(x, s)' /\ (s \in managed'[x] \/ sessionClosed'[x])
      BY <1>1, <3>1, EndsWith DEF Kept
    <3> QED
      BY <1>0, <2>1, <3>1, WorkGoesOn
  <2>2. CASE s \in managed[x] \ managed'[x]
    <3>1. CASE sessionClosed'[x] /\ UNCHANGED <<call, opened, accepted>>
      <4>1. Returned(x, s) \/ Working(x, s)
        BY <2>2 DEF Undone
      <4>2. CASE Returned(x, s)
        BY <3>1, <4>2 DEF Returned
      <4> QED
        BY <2>1, <4>1, <4>2
    <3>2. ASSUME NEW c \in Callers, GiveUp(c) \/ UndoCreate(c), Of(c) = x, call[c].sid = s
          PROVE  Working(x, s)
      BY <3>2 DEF GiveUp, UndoCreate, Busy, Working
    <3> QED
      BY <1>0, <1>1, <2>1, <2>2, <3>1, <3>2, LeavesManager
  <2>3. ASSUME NEW c \in Callers, Midway(c), Of(c) = x, call[c].sid = s
        PROVE  Working(x, s)
    BY <1>0, <2>3, MidwayKeeps DEF Working
  <2>4. s \in pathStreams[x] \/ Working(x, s)
    BY <1>0, <1>1, <2>3, ComesToPath
  <2> QED
    BY <1>a, <2>1, <2>2, <2>4 DEF Undone
<1>b. ASSUME NEW x \in Sides, NEW s \in managed'[x]
      PROVE  Returned(x, s)' \/ WorkingNow(x, s)
  <2>1. CASE s \in managed[x]
    <3>1. CASE Returned(x, s)
      BY <1>0, <3>1, ReturnedStays
    <3>2. CASE Working(x, s)
      <4>1. ASSUME NEW c \in Callers, Of(c) = x, call[c].sid = s, Ending(c)
            PROVE  Returned(x, s)'
        BY <1>b, <4>1, EndsWith
      <4> QED
        BY <1>0, <3>2, <4>1, WorkGoesOn
    <3> QED
      BY <2>1, <3>1, <3>2 DEF Undone
  <2>2. ASSUME NEW c \in Callers, NEW op \in {"open", "accept"}, CreateStream(c, op),
               Of(c) = x, s = nextStreamID[x]
        PROVE  WorkingNow(x, s)
    BY <1>0, <2>2, StartOf
  <2> QED
    BY <1>0, <1>b, <2>1, <2>2, ComesToManager
<1>c. ASSUME NEW c \in Callers, call'[c].pc = "remove"
      PROVE  call'[c].sid \notin managed'[Of(c)]
  <2>1. Busy(c)'
    BY <1>c DEF Busy
  <2>2. ~(\E op \in {"open", "accept"} : CreateStream(c, op))
    BY <1>0, <1>c, StartOf
  <2>3. Busy(c) /\ call'[c].sid = call[c].sid /\ (UndoCreate(c) \/ call[c].pc = "remove")
    <3>1. CASE Midway(c)
      BY <1>0, <1>c, <3>1, BusyStep
    <3>2. CASE call'[c] = call[c]
      BY <1>c, <2>1, <3>2 DEF Busy
    <3> QED
      BY <1>0, <1>c, <2>1, <2>2, <3>1, <3>2, StartOf, EndOf, MidwayKeeps, ElsewhereKeeps, Steps
      DEF vars, Busy
  <2>4. ASSUME NEW d \in Callers, NEW op \in {"open", "accept"}, CreateStream(d, op), Of(d) = Of(c),
               call[c].sid = nextStreamID[Of(c)]
        PROVE  FALSE
    <3>1. call[c].sid < nextStreamID[Of(c)] /\ nextStreamID[Of(c)] \in Nat
      BY <1>0, <2>3, OpeningConstants DEF OneOwner, TypeInv
    <3> QED
      BY <2>4, <3>1
  <2>5. call[c].sid \in managed'[Of(c)] => call[c].sid \in managed[Of(c)]
    <3> DEFINE x == Of(c)
               s == call[c].sid
    <3>1. x \in Sides
      BY <1>0
    <3>2. ~ \E d \in Callers, op \in {"open", "accept"} :
              CreateStream(d, op) /\ Of(d) = x /\ s = nextStreamID[x]
      BY <2>4
    <3> HIDE DEF x, s
    <3>3. s \in managed'[x] => s \in managed[x]
      BY <1>0, <3>1, <3>2, ComesToManager
    <3> QED
      BY <3>3 DEF x, s
  <2>6. CASE UndoCreate(c)
    <3>1. managed' = Drop(managed, Of(c), call[c].sid)
      BY <2>6 DEF UndoCreate, Of
    <3> QED
      BY <1>0, <2>3, <3>1 DEF Drop
  <2>7. CASE call[c].pc = "remove"
    BY <2>3, <2>5, <2>7 DEF Undone
  <2> QED
    BY <2>3, <2>6, <2>7
<1>2. ASSUME NEW c \in Callers, Busy(c)', call'[c].pc # "remove"
      PROVE  call'[c].sid \in managed'[Of(c)] \/ sessionClosed'[Of(c)]
  <2>1. CASE ~Busy(c)
    BY <1>0, <1>2, <2>1, BusyStep DEF Busy
  <2>2. CASE Busy(c)
    <3>1. call'[c].sid = call[c].sid /\ call[c].pc # "remove" /\ ~UndoCreate(c) /\ ~GiveUp(c)
      BY <1>0, <1>2, <2>2, BusyStep DEF Busy, Ending, Midway
    <3>2. Kept(Of(c), call[c].sid)
      BY <2>2, <3>1 DEF Undone
    <3>3. ~CloseStream(Of(c), call[c].sid)
      BY <1>0, <2>2 DEF CloseStream, Returned, OneOwner
    <3>4. ASSUME NEW d \in Callers, GiveUp(d) \/ UndoCreate(d), Of(d) = Of(c), call[d].sid = call[c].sid
          PROVE  FALSE
      <4>1. Busy(d)
        BY <3>4 DEF GiveUp, UndoCreate, Busy
      <4> QED
        BY <1>0, <2>2, <3>1, <3>4, <4>1 DEF OneOwner
    <3>5. sessionClosed[Of(c)] => sessionClosed'[Of(c)]
      BY <1>0, StreamsStep
    <3>6. call[c].sid \in managed[Of(c)] \ managed'[Of(c)] => sessionClosed'[Of(c)]
      <4> SUFFICES ASSUME call[c].sid \in managed[Of(c)] \ managed'[Of(c)] PROVE sessionClosed'[Of(c)]
        OBVIOUS
      <4>1. \/ sessionClosed'[Of(c)] \/ CloseStream(Of(c), call[c].sid)
            \/ \E d \in Callers : /\ GiveUp(d) \/ UndoCreate(d)
                                  /\ Of(d) = Of(c) /\ call[d].sid = call[c].sid
        <5> DEFINE x == Of(c)
                   s == call[c].sid
        <5>1. x \in Sides /\ s \in managed[x] \ managed'[x]
          BY <1>0
        <5> HIDE DEF x, s
        <5>2. \/ sessionClosed'[x] \/ CloseStream(x, s)
              \/ \E d \in Callers : (GiveUp(d) \/ UndoCreate(d)) /\ Of(d) = x /\ call[d].sid = s
          BY <1>0, <5>1, LeavesManager
        <5> QED
          BY <5>2 DEF x, s
      <4> QED
        BY <3>3, <3>4, <4>1
    <3> QED
      BY <3>1, <3>2, <3>5, <3>6 DEF Kept
  <2> QED
    BY <2>1, <2>2
<1>3. ASSUME NEW c \in Callers, Busy(c)', ~call'[c].ok
      PROVE  call'[c].sid \notin pathStreams'[Of(c)]
  <2>1. CASE ~Busy(c)
    <3>1. nextStreamID[Of(c)] \notin pathStreams[Of(c)]
      <4>1. nextStreamID[Of(c)] \in Nat
        BY <1>0, OpeningConstants DEF TypeInv
      <4> QED
        BY <1>0, <4>1 DEF Undone
    <3> QED
      BY <1>0, <1>3, <2>1, <3>1, BusyStep DEF Busy
  <2>2. CASE Busy(c)
    <3>1. call'[c].sid = call[c].sid /\ ~call[c].ok
      BY <1>0, <1>3, <2>2, BusyStep
    <3>2. ASSUME NEW d \in Callers, Midway(d), Of(d) = Of(c), call[d].sid = call[c].sid
          PROVE  d = c
      <4>1. Busy(d)
        BY <1>0, <3>2, MidwayKeeps
      <4> QED
        BY <1>0, <2>2, <3>2, <4>1 DEF OneOwner
    <3>3. call[c].sid \notin pathStreams[Of(c)]
      BY <2>2, <3>1 DEF Undone
    <3> QED
      BY <1>0, <1>3, <3>1, <3>2, <3>3, ComesToPath
  <2> QED
    BY <2>1, <2>2
<1>4. ASSUME NEW x \in Sides, NEW s \in pathStreams'[x]
      PROVE  s < nextStreamID'[x]
  <2>1. s < nextStreamID[x]
    <3>1. ASSUME NEW c \in Callers, Midway(c), Of(c) = x, call[c].sid = s
          PROVE  s < nextStreamID[x]
      BY <1>0, <3>1, MidwayKeeps DEF OneOwner
    <3>2. s \in pathStreams[x] => s < nextStreamID[x]
      BY DEF Undone
    <3>3. \/ s \in pathStreams[x]
          \/ \E c \in Callers : Midway(c) /\ Of(c) = x /\ call[c].sid = s
      BY <1>0, <1>4, ComesToPath
    <3> QED
      BY <3>1, <3>2, <3>3
  <2>2. s \in Nat /\ nextStreamID[x] \in Nat /\ nextStreamID'[x] \in Nat
    <3>1. TypeInv'
      BY <1>0, TypeStep
    <3> QED
      BY <1>0, <1>4, <3>1, OpeningConstants DEF TypeInv, StreamSets
  <2>3. nextStreamID'[x] >= nextStreamID[x]
    <3>1. \A t \in IDs : Unasked(x, t)' => Unasked(x, t)
      BY UnaskedStep
    <3>2. \/ nextStreamID' = nextStreamID
          \/ \E c \in Callers : nextStreamID' = [nextStreamID EXCEPT ![Of(c)] = @ + 1]
      <4>1. ASSUME NEW c \in Callers, Ending(c)
            PROVE  UNCHANGED nextStreamID
        BY <4>1 DEF Ending, AddPathToStream, GiveUp, RemoveStream, managerVars
      <4>2. ASSUME NEW c \in Callers, NEW op \in {"open", "accept"}, CreateStream(c, op)
            PROVE  nextStreamID' = [nextStreamID EXCEPT ![Of(c)] = @ + 1]
        BY <4>2 DEF CreateStream, Of
      <4>3. UNCHANGED vars => UNCHANGED nextStreamID
        BY DEF vars, managerVars
      <4> QED
        BY <1>0, <4>1, <4>2, <4>3, MidwayKeeps, ElsewhereKeeps, Steps
    <3> QED
      BY <1>0, <2>2, <3>2 DEF TypeInv
  <2> QED
    BY <2>1, <2>2, <2>3
<1> QED
  BY <1>1, <1>2, <1>3, <1>4, <1>b, <1>c DEF Undone, Kept, Working, Returned, Busy, Of

\* The calls that fail in OpenStreamSync and AcceptStream (client.go, server.go), at
\* whatever step, also because the session has closed meanwhile, leave no stream on the
\* path that the manager does not know, and none with the manager.
THEOREM NothingLeftBehindHolds == Spec => []NothingLeftBehind
<1>1. Init => Undone
  BY DEF Init, Undone, Busy, Idle
<1>2. CallInv /\ Undone /\ [Next]_vars => Undone'
  BY UndoneStep
<1>3. Undone => NothingLeftBehind
  BY DEF Undone, Working, Pending, NothingLeftBehind, Of
<1> QED
  BY <1>1, <1>2, <1>3, CallInvariant, PTL DEF Spec

=============================================================================
