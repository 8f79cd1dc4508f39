----------------------------- MODULE RelayProof -----------------------------
(***************************************************************************)
(* Proofs about relays, for any calls of AddRelay, paths, streams and data *)
(* items, and any number of copies of every frame.                         *)
(***************************************************************************)
EXTENDS Relay, TLAPS, SequenceTheorems

\* A relay, or an answer that will make one, names a path that was opened to its address.
Real(r) == r.path \in DOMAIN dialled /\ dialled[r.path] = r.address

\* A caller sends its AddPath frame once; each of its copies opens one path.
AskedIsBounded ==
    \A a \in Callers :
        /\ asked[a] + opening[a] <= MaxControl
        /\ caller[a] \in {"idle", "register", "submit"} => asked[a] = 0 /\ opening[a] = 0

\* A frame of relayed data as it was submitted.
Frame == [to : Target, offset : Nat, data : Data]

\* The types of all variables, with the bound on calls and the shape of the submitted frames.
Types == TypeOK /\ AskedIsBounded /\ placed \in Seq(Frame)

\* The two halves of the types: frames about paths, and relayed data.
PathTypes ==
    /\ primaryUp \in BOOLEAN
    /\ caller \in [Callers -> {"idle", "register", "submit", "wait", "returned", "failed"}]
    /\ respChannel \in Callers \cup {Nobody}
    /\ channel \in [Callers -> Response \cup {None}] /\ relay \in [Callers -> Response \cup {None}]
    /\ relays \subseteq Response
    /\ asked \in [Callers -> 0 .. MaxControl] /\ answers \in [Response -> 0 .. MaxControl]
    /\ answering \subseteq [response : Response, to : Callers]
    /\ opening \in [Callers -> 0 .. MaxControl]
    /\ nextPathID \in 1 .. MaxPath /\ clientPaths \subseteq RelayPaths
    /\ DOMAIN dialled \subseteq 2 .. nextPathID /\ \A p \in DOMAIN dialled : dialled[p] \in Callers
    /\ AskedIsBounded

\* ... and the other half.
DataTypes ==
    /\ DOMAIN target \subseteq Data /\ \A d \in DOMAIN target : target[d] \in Target
    /\ copies \in [Data -> 0 .. MaxCopies]
    /\ job \in [Jobs -> {"none", "find", "open", "create", "again", "join", "offset", "advance", "submit", "done"}]
    /\ readOffset \in [Jobs -> Nat] /\ offset \in [Target -> Nat \cup {Closed}]
    /\ managed \subseteq created /\ created \subseteq Streams
    /\ joined \subseteq Target /\ early \subseteq Target /\ shut \subseteq Target /\ overlapped \subseteq Target
    /\ placed \in Seq(Frame)

\* On the way from OpenPath to the relay an answer may reach another call, but stays what it is.
AnswersAreReal ==
    /\ \A r \in Response : answers[r] > 0 => Real(r)
    /\ \A g \in answering : Real(g.response)
    /\ \A a \in Callers : channel[a] # None => Real(channel[a])

\* Goroutines, frames and open streams come from data that was sent, on a path that was opened.
WorkIsForData ==
    /\ \A d \in DOMAIN target : target[d].path <= nextPathID
    /\ \A p \in clientPaths : p <= nextPathID
    /\ \A d \in Data \ DOMAIN target : copies[d] = 0
    /\ \A j \in Jobs : job[j] # "none" => j[1] \in DOMAIN target /\ j[2] > copies[j[1]]
    /\ \A i \in DOMAIN placed : placed[i].data \in DOMAIN target /\ placed[i].to = target[placed[i].data]
    /\ \A t \in Target : offset[t] # Closed => \E d \in DOMAIN target : target[d] = t

\* Where two goroutines are at work for one stream, that is on record.
OverlapIsSeen ==
    \A j, k \in Jobs : j # k /\ Busy(j) /\ Busy(k) /\ To(j) = To(k) => To(j) \in overlapped

\* A stream that is lost on its relay path: the path is gone, or CloseStream has closed it there.
Lost(t) == t.path \notin clientPaths \/ t \in shut

\* Who is told by OpenStream that the stream exists finds it open, unless it was lost meanwhile.
AgainIsOpen == \A j \in Jobs : At(j, "again") => offset[To(j)] # Closed \/ Lost(To(j))

\* Nothing has been submitted for t.
NoFrames(t) == \A i \in DOMAIN placed : placed[i].to # t

\* The frames submitted for t end at offset e.
EndsAt(t, e) ==
    \/ NoFrames(t) /\ e = 0
    \/ \E k \in DOMAIN placed :
         /\ placed[k].to = t /\ \A m \in DOMAIN placed : placed[m].to = t => m <= k
         /\ e = placed[k].offset + placed[k].data

\* The write offset is where the frames end, but for the bytes of a goroutine that has moved it and
\* has not submitted its frame yet ...
RestingOffset(t) ==
    /\ offset[t] = Closed => NoFrames(t)
    /\ offset[t] # Closed /\ (\A j \in Jobs : Busy(j) /\ To(j) = t => job[j] # "submit") => EndsAt(t, offset[t])

\* ... and what that goroutine has read is where its frame belongs.
OffsetOfJob(j) ==
    /\ job[j] \in {"open", "create"} <=> offset[To(j)] = Closed
    /\ job[j] = "advance" => readOffset[j] = offset[To(j)]
    /\ job[j] = "submit" => EndsAt(To(j), readOffset[j]) /\ offset[To(j)] = readOffset[j] + j[1]

\* Both hold for every stream that was not disturbed.
OffsetsAgree ==
    /\ \A t \in Target : Disturbed(t) \/ RestingOffset(t)
    /\ \A j \in Jobs : Busy(j) => Disturbed(To(j)) \/ OffsetOfJob(j)

\* The inductive invariant.
RelayInv ==
    /\ Types /\ AnswersAreReal /\ RelayIsReal /\ WorkIsForData
    /\ OpenIsJoined /\ OverlapIsSeen /\ OffsetsAgree /\ FramesFollow /\ AgainIsOpen /\ RelayedIsSubmitted

\* The initial state satisfies the invariant.
LEMMA InitRelay == Init => RelayInv
<1> SUFFICES ASSUME Init PROVE RelayInv
  OBVIOUS
<1> USE RelayConstants DEF Init
<1>0. DOMAIN target = {} /\ placed = <<>> /\ DOMAIN placed = {} /\ placed \in Seq(Frame)
  <2>1. placed \in Seq(Frame) /\ Len(placed) = 0
    BY EmptySeq
  <2>2. DOMAIN placed = 1 .. Len(placed)
    BY <2>1, LenProperties
  <2>3. DOMAIN <<>> = {}
    BY <2>1, <2>2
  <2> QED
    BY <2>1, <2>3
<1>1. TypeOK
  <2>1. /\ primaryUp \in BOOLEAN
        /\ caller \in [Callers -> {"idle", "register", "submit", "wait", "returned", "failed"}]
        /\ respChannel \in Callers \cup {Nobody}
        /\ channel \in [Callers -> Response \cup {None}] /\ relay \in [Callers -> Response \cup {None}]
        /\ relays \subseteq Response
    OBVIOUS
  <2>2. /\ asked \in [Callers -> 0 .. MaxControl] /\ answers \in [Response -> 0 .. MaxControl]
        /\ answering \subseteq [response : Response, to : Callers]
        /\ opening \in [Callers -> 0 .. MaxControl]
    OBVIOUS
  <2>3. /\ nextPathID \in 1 .. MaxPath /\ clientPaths \subseteq RelayPaths
        /\ DOMAIN dialled \subseteq 2 .. nextPathID /\ \A p \in DOMAIN dialled : dialled[p] \in Callers
    BY <1>0
  <2>4. /\ DOMAIN target \subseteq Data /\ \A d \in DOMAIN target : target[d] \in Target
        /\ copies \in [Data -> 0 .. MaxCopies]
    BY <1>0
  <2>5. job \in [Jobs -> {"none", "find", "open", "create", "again", "join", "offset", "advance", "submit", "done"}]
    OBVIOUS
  <2>6. readOffset \in [Jobs -> Nat] /\ offset \in [Target -> Nat \cup {Closed}]
    BY DEF Closed
  <2>7. /\ managed \subseteq created /\ created \subseteq Streams
        /\ joined \subseteq Target /\ early \subseteq Target /\ shut \subseteq Target /\ overlapped \subseteq Target
    OBVIOUS
  <2> QED
    BY <1>0, <2>1, <2>2, <2>3, <2>4, <2>5, <2>6, <2>7 DEF TypeOK
<1>2. Types
  BY <1>0, <1>1 DEF Types, AskedIsBounded
<1>3. AnswersAreReal /\ RelayIsReal
  BY DEF AnswersAreReal, RelayIsReal
<1>4. WorkIsForData
  <2>1. \A t \in Target : offset[t] = Closed
    OBVIOUS
  <2>2. \A j \in Jobs : job[j] = "none"
    OBVIOUS
  <2>3. \A d \in Data : copies[d] = 0
    OBVIOUS
  <2> QED
    BY <1>0, <2>1, <2>2, <2>3 DEF WorkIsForData
<1>5. OpenIsJoined
  BY DEF OpenIsJoined
<1>6. OverlapIsSeen /\ OffsetsAgree /\ FramesFollow
  <2>1. \A t \in Target : offset[t] = Closed
    OBVIOUS
  <2>2. \A j \in Jobs : job[j] = "none" /\ ~Busy(j)
    BY DEF Busy
  <2> QED
    BY <1>0, <2>1, <2>2 DEF OverlapIsSeen, OffsetsAgree, FramesFollow, RestingOffset, NoFrames
<1>7. AgainIsOpen /\ RelayedIsSubmitted
  BY DEF AgainIsOpen, RelayedIsSubmitted, At
<1> QED
  BY <1>2, <1>3, <1>4, <1>5, <1>6, <1>7 DEF RelayInv

-----------------------------------------------------------------------------
(***************************************************************************)
(* Types                                                                   *)
(***************************************************************************)

\* The halves make the whole.
LEMMA TypeHalves == Types <=> PathTypes /\ DataTypes
<1>1. Types => PathTypes /\ DataTypes
  BY DEF Types, TypeOK, PathTypes, DataTypes
<1>2. ASSUME PathTypes, DataTypes PROVE Types
  <2>1. \A i \in DOMAIN placed : placed[i] \in [to : Target, offset : Nat, data : Data]
    <3>1. placed \in [1 .. Len(placed) -> Frame] /\ DOMAIN placed = 1 .. Len(placed)
      BY <1>2, LenProperties DEF DataTypes
    <3> QED
      BY <3>1 DEF Frame
  <2> QED
    BY <1>2, <2>1 DEF Types, TypeOK, PathTypes, DataTypes
<1> QED
  BY <1>1, <1>2

\* Steps keep the types of the frames about paths.
LEMMA PathTypeStep == PathTypes /\ [Next]_vars => PathTypes'
<1> SUFFICES ASSUME PathTypes, [Next]_vars PROVE PathTypes'
  OBVIOUS
<1> USE RelayConstants DEF PathTypes, AskedIsBounded, server, answerFrames, client
<1>1. ASSUME NEW a \in Callers, FindPrimary(a) PROVE PathTypes'
  BY <1>1 DEF FindPrimary
<1>2. ASSUME NEW a \in Callers, RegisterHandler(a) PROVE PathTypes'
  BY <1>2 DEF RegisterHandler
<1>3. ASSUME NEW a \in Callers, SubmitAddPath(a) PROVE PathTypes'
  BY <1>3 DEF SubmitAddPath
<1>4. ASSUME NEW a \in Callers, TakeResponse(a) PROVE PathTypes'
  BY <1>4 DEF TakeResponse
<1>5. ASSUME NEW a \in Callers, TimeOut(a) PROVE PathTypes'
  BY <1>5 DEF TimeOut
<1>6. ASSUME NEW r \in Response, ReceiveAddPathResp(r) PROVE PathTypes'
  BY <1>6 DEF ReceiveAddPathResp
<1>7. ASSUME NEW g \in answering, ForwardResponse(g) PROVE PathTypes'
  BY <1>7 DEF ForwardResponse
<1>8. ASSUME NEW a \in Callers, ReceiveAddPath(a) PROVE PathTypes'
  BY <1>8 DEF ReceiveAddPath
<1>9. ASSUME NEW a \in Callers, OpenPath(a) PROVE PathTypes'
  BY <1>9 DEF OpenPath, RelayPaths, Response
<1>10. ASSUME NEW a \in Callers, OpenPathFails(a) PROVE PathTypes'
  BY <1>10 DEF OpenPathFails
<1>11. ASSUME NEW p \in RelayPaths, LosePath(p) \/ ClosePath(p) PROVE PathTypes'
  BY <1>11 DEF LosePath, ClosePath
<1>12. CASE LosePrimary
  BY <1>12 DEF LosePrimary
<1>13. ASSUME UNCHANGED <<primaryUp, server, answerFrames, client>> PROVE PathTypes'
  BY <1>13
<1>14. ASSUME NEW a \in Callers, NEW s \in Streams, NEW d \in Data, SendRawData(a, s, d) PROVE PathTypes'
  BY <1>13, <1>14 DEF SendRawData
<1>15. ASSUME NEW d \in Data, ReceiveRelayData(d) PROVE PathTypes'
  BY <1>13, <1>15 DEF ReceiveRelayData
<1>16. ASSUME NEW j \in Jobs, HandleRelayDataFrame(j) PROVE PathTypes'
  BY <1>13, <1>16 DEF HandleRelayDataFrame, FindPath, OpenStream, LookAgain, PutStream, JoinStream, ReadWriteOffset,
                      IncrementWriteOffset, SubmitData
<1>17. ASSUME NEW s \in Streams, CreateStream(s) \/ CloseStream(s) PROVE PathTypes'
  BY <1>13, <1>17 DEF CreateStream, CloseStream
<1>18. CASE UNCHANGED vars
  BY <1>13, <1>18 DEF vars
<1> QED
  BY <1>1, <1>2, <1>3, <1>4, <1>5, <1>6, <1>7, <1>8, <1>9, <1>10, <1>11, <1>12, <1>14, <1>15, <1>16, <1>17,
     <1>18
     DEF Next, AddRelay, Receive

\* The steps of AddRelay and of the client's paths leave relayed data alone.
PathActions ==
    \/ \E a \in Callers : AddRelay(a) \/ OpenPath(a) \/ OpenPathFails(a) \/ ReceiveAddPath(a)
    \/ \E r \in Response : ReceiveAddPathResp(r)
    \/ \E g \in answering : ForwardResponse(g)
    \/ \E p \in RelayPaths : LosePath(p)
    \/ LosePrimary
    \/ UNCHANGED vars

\* The frames about paths leave relayed data and streams alone.
LEMMA PathActionsKeepData == PathActions => UNCHANGED <<relayData, streams>>
<1>1. ASSUME NEW a \in Callers, AddRelay(a) PROVE UNCHANGED <<relayData, streams>>
  BY <1>1 DEF AddRelay, FindPrimary, RegisterHandler, SubmitAddPath, TakeResponse, TimeOut
<1>2. ASSUME NEW a \in Callers, OpenPath(a) \/ OpenPathFails(a) \/ ReceiveAddPath(a)
      PROVE  UNCHANGED <<relayData, streams>>
  BY <1>2 DEF OpenPath, OpenPathFails, ReceiveAddPath
<1>3. ASSUME NEW r \in Response, ReceiveAddPathResp(r) PROVE UNCHANGED <<relayData, streams>>
  BY <1>3 DEF ReceiveAddPathResp
<1>4. ASSUME NEW g \in answering, ForwardResponse(g) PROVE UNCHANGED <<relayData, streams>>
  BY <1>4 DEF ForwardResponse
<1>5. ASSUME (\E p \in RelayPaths : LosePath(p)) \/ LosePrimary \/ UNCHANGED vars
      PROVE UNCHANGED <<relayData, streams>>
  BY <1>5 DEF LosePath, LosePrimary, vars
<1> QED
  BY <1>1, <1>2, <1>3, <1>4, <1>5 DEF PathActions

\* The steps of the client's application and of its session on streams.
StreamActions ==
    \/ \E p \in RelayPaths : ClosePath(p)
    \/ \E s \in Streams : CreateStream(s) \/ CloseStream(s)

\* They leave the goroutines alone, and a stream they close on a path is lost there.
LEMMA StreamActionsLose ==
    ASSUME DataTypes, StreamActions
    PROVE  /\ UNCHANGED <<relayData, placed, overlapped, nextPathID>>
           /\ clientPaths' \subseteq clientPaths /\ shut \subseteq shut'
           /\ \A t \in Target : offset'[t] = offset[t] \/ (offset'[t] = Closed /\ Lost(t)')
<1> DEFINE Keeps ==
             /\ UNCHANGED <<relayData, placed, overlapped, nextPathID>>
             /\ clientPaths' \subseteq clientPaths /\ shut \subseteq shut'
             /\ \A t \in Target : offset'[t] = offset[t] \/ (offset'[t] = Closed /\ Lost(t)')
<1> USE DEF relayData, client, table
<1>0. joined \subseteq Target /\ offset \in [Target -> Nat \cup {Closed}]
  BY DEF DataTypes
<1>1. ASSUME NEW p \in RelayPaths, ClosePath(p) PROVE Keeps
  BY <1>0, <1>1 DEF ClosePath, Lost
<1>2. ASSUME NEW s \in Streams, CreateStream(s) PROVE Keeps
  BY <1>2 DEF CreateStream
<1>3. ASSUME NEW s \in Streams, CloseStream(s) PROVE Keeps
  <2>1. UNCHANGED <<relayData, placed, overlapped, nextPathID, clientPaths>>
    BY <1>3 DEF CloseStream
  <2>2. PICK visited : CloseOn(visited)
    BY <1>3 DEF CloseStream
  <2> QED
    BY <1>0, <2>1, <2>2 DEF CloseOn, Lost
<1> QED
  BY <1>1, <1>2, <1>3 DEF StreamActions

\* Next, sorted into the steps about paths and those about relayed data.
LEMMA NextSorted ==
    [Next]_vars =>
        \/ PathActions
        \/ \E a \in Callers, s \in Streams, d \in Data : SendRawData(a, s, d)
        \/ \E d \in Data : ReceiveRelayData(d)
        \/ \E j \in Jobs : HandleRelayDataFrame(j)
        \/ StreamActions
  BY DEF Next, Receive, PathActions, StreamActions

\* The places of a goroutine that handles a data frame.
JobState == {"none", "find", "open", "create", "again", "join", "offset", "advance", "submit", "done"}

\* Steps keep the types of relayed data.
LEMMA DataTypeStep == Types /\ WorkIsForData /\ [Next]_vars => DataTypes'
<1> SUFFICES ASSUME PathTypes, DataTypes, WorkIsForData, [Next]_vars PROVE DataTypes'
  BY TypeHalves
<1> USE RelayConstants DEF relayData, streams, table
<1>0. /\ job \in [Jobs -> JobState]
      /\ readOffset \in [Jobs -> Nat] /\ offset \in [Target -> Nat \cup {Closed}]
      /\ copies \in [Data -> 0 .. MaxCopies]
      /\ DOMAIN target \subseteq Data /\ \A d \in DOMAIN target : target[d] \in Target
      /\ managed \subseteq created /\ created \subseteq Streams
      /\ joined \subseteq Target /\ early \subseteq Target /\ shut \subseteq Target /\ overlapped \subseteq Target
  BY DEF DataTypes, JobState
<1>1. CASE PathActions
  BY <1>1, PathActionsKeepData DEF DataTypes
<1>2. ASSUME NEW a \in Callers, NEW s \in Streams, NEW d \in Data, SendRawData(a, s, d) PROVE DataTypes'
  <2>1. relay[a].path \in RelayPaths
    BY <1>2 DEF SendRawData, PathTypes, Response
  <2>2. [path |-> relay[a].path, stream |-> s] \in Target
    BY <2>1 DEF Target
  <2> QED
    BY <1>2, <2>2 DEF SendRawData, DataTypes
<1>3. ASSUME NEW d \in Data, ReceiveRelayData(d) PROVE DataTypes'
  <2>1. job' \in [Jobs -> JobState]
    BY <1>0, <1>3 DEF ReceiveRelayData, JobState
  <2>2. copies' \in [Data -> 0 .. MaxCopies]
    BY <1>0, <1>3 DEF ReceiveRelayData
  <2>3. UNCHANGED <<target, readOffset, streams>>
    BY <1>3 DEF ReceiveRelayData
  <2> QED
    BY <2>1, <2>2, <2>3 DEF DataTypes, JobState
<1>4. ASSUME NEW j \in Jobs, HandleRelayDataFrame(j) PROVE DataTypes'
  <2>1. UNCHANGED <<target, copies, table, shut>>
    BY <1>4 DEF HandleRelayDataFrame, FindPath, OpenStream, LookAgain, PutStream, JoinStream, ReadWriteOffset,
                IncrementWriteOffset, SubmitData
  <2>2. job' \in [Jobs -> JobState]
    <3>1. PICK pc \in JobState : job' = [job EXCEPT ![j] = pc]
      <4>1. ASSUME NEW pc \in JobState, GoTo(j, pc) PROVE \E q \in JobState : job' = [job EXCEPT ![j] = q]
        BY <4>1 DEF GoTo
      <4>2. CASE FindPath(j)
        BY <4>1, <4>2 DEF FindPath, JobState
      <4>3. CASE OpenStream(j) \/ LookAgain(j) \/ PutStream(j) \/ JoinStream(j)
        BY <4>1, <4>3 DEF OpenStream, LookAgain, PutStream, JoinStream, JobState
      <4>4. CASE ReadWriteOffset(j) \/ IncrementWriteOffset(j) \/ SubmitData(j)
        BY <4>1, <4>4 DEF ReadWriteOffset, IncrementWriteOffset, SubmitData, JobState
      <4> QED
        BY <1>4, <4>2, <4>3, <4>4 DEF HandleRelayDataFrame
    <3> QED
      BY <1>0, <3>1
  <2>3. To(j) \in Target /\ j[1] \in Data
    <3>1. job[j] # "none"
      BY <1>4 DEF HandleRelayDataFrame, FindPath, OpenStream, LookAgain, PutStream, JoinStream, ReadWriteOffset,
                  IncrementWriteOffset, SubmitData, At
    <3>2. j[1] \in DOMAIN target
      BY <3>1 DEF WorkIsForData
    <3> QED
      BY <1>0, <3>2 DEF To
  <2>4. readOffset' \in [Jobs -> Nat]
    <3>1. CASE ReadWriteOffset(j)
      <4>1. PICK n \in Nat : readOffset' = [readOffset EXCEPT ![j] = n]
        BY <1>0, <2>3, <3>1 DEF ReadWriteOffset
      <4> QED
        BY <1>0, <4>1
    <3>2. CASE SubmitData(j)
      BY <1>0, <3>2 DEF SubmitData
    <3>3. CASE ~(ReadWriteOffset(j) \/ SubmitData(j))
      BY <1>0, <1>4, <3>3 DEF HandleRelayDataFrame, FindPath, OpenStream, LookAgain, PutStream, JoinStream,
                              IncrementWriteOffset
    <3> QED
      BY <3>1, <3>2, <3>3
  <2>5. offset' \in [Target -> Nat \cup {Closed}]
    <3>1. \/ offset' \in {offset, [offset EXCEPT ![To(j)] = 0], [offset EXCEPT ![To(j)] = Closed]}
          \/ offset' = [offset EXCEPT ![To(j)] = offset[To(j)] + j[1]] /\ offset[To(j)] # Closed
      BY <1>0, <1>4, <2>3 DEF HandleRelayDataFrame, FindPath, OpenStream, LookAgain, PutStream, JoinStream, ReadWriteOffset,
                  IncrementWriteOffset, SubmitData
    <3>2. offset[To(j)] # Closed => offset[To(j)] + j[1] \in Nat
      <4>1. j[1] \in Nat
        BY <2>3
      <4> QED
        BY <1>0, <2>3, <4>1
    <3> QED
      BY <1>0, <2>3, <3>1, <3>2
  <2>6. joined' \subseteq Target /\ overlapped' \subseteq Target
    <3>1. joined' \subseteq joined \cup {To(j)} /\ overlapped' \subseteq overlapped \cup {To(j)}
      BY <1>4 DEF HandleRelayDataFrame, FindPath, OpenStream, LookAgain, PutStream, JoinStream, ReadWriteOffset,
                  IncrementWriteOffset, SubmitData
    <3> QED
      BY <1>0, <2>3, <3>1
  <2>7. placed' \in Seq(Frame)
    <3> DEFINE f == [to |-> To(j), offset |-> readOffset[j], data |-> j[1]]
    <3>1. f \in Frame
      BY <1>0, <2>3 DEF Frame
    <3>2. placed' = placed \/ placed' = Append(placed, f)
      BY <1>4 DEF HandleRelayDataFrame, FindPath, OpenStream, LookAgain, PutStream, JoinStream, ReadWriteOffset,
                  IncrementWriteOffset, SubmitData
    <3>3. placed \in Seq(Frame)
      BY DEF DataTypes
    <3> HIDE DEF f
    <3> QED
      BY <3>1, <3>2, <3>3, AppendProperties
  <2> QED
    BY <1>0, <2>1, <2>2, <2>4, <2>5, <2>6, <2>7 DEF DataTypes, JobState
<1>5. CASE StreamActions
  <2>1. UNCHANGED <<relayData, placed, overlapped>>
    BY <1>5, StreamActionsLose DEF DataTypes
  <2>2. ASSUME NEW p \in RelayPaths, ClosePath(p) PROVE DataTypes'
    BY <1>0, <2>1, <2>2 DEF ClosePath, DataTypes, Closed
  <2>3. ASSUME NEW s \in Streams, CreateStream(s) PROVE DataTypes'
    BY <1>0, <2>1, <2>3 DEF CreateStream, DataTypes
  <2>4. ASSUME NEW s \in Streams, CloseStream(s) PROVE DataTypes'
    <3>1. RelayPathsOf(s) \subseteq Target
      BY <1>0 DEF RelayPathsOf
    <3>2. PICK visited \in SUBSET Target : CloseOn(visited)
      BY <2>4, <3>1 DEF CloseStream
    <3>3. offset' \in [Target -> Nat \cup {Closed}] /\ shut' \subseteq Target
      BY <1>0, <3>2 DEF CloseOn
    <3>4. managed' \subseteq managed /\ joined' \subseteq joined /\ UNCHANGED <<created, early>>
      BY <2>4 DEF CloseStream
    <3> QED
      BY <1>0, <2>1, <3>3, <3>4 DEF DataTypes
  <2> QED
    BY <1>5, <2>2, <2>3, <2>4 DEF StreamActions
<1> QED
  BY <1>1, <1>2, <1>3, <1>4, <1>5, NextSorted

-----------------------------------------------------------------------------
(***************************************************************************)
(* Answers and relays                                                      *)
(***************************************************************************)

\* An answer stays what it is on its way, and a path number is given out once: the answers and the
\* relays name paths opened to their addresses.
LEMMA RealStep == PathTypes /\ AnswersAreReal /\ RelayIsReal /\ [Next]_vars => AnswersAreReal' /\ RelayIsReal'
<1> DEFINE Good == AnswersAreReal /\ RelayIsReal
<1> SUFFICES ASSUME PathTypes, Good, [Next]_vars PROVE Good'
  OBVIOUS
<1> USE RelayConstants DEF server, answerFrames, client
<1>0. /\ channel \in [Callers -> Response \cup {None}] /\ relay \in [Callers -> Response \cup {None}]
      /\ answers \in [Response -> 0 .. MaxControl]
      /\ answering \subseteq [response : Response, to : Callers]
      /\ nextPathID \in Nat /\ DOMAIN dialled \subseteq 2 .. nextPathID
      /\ None \notin Response
  BY DEF PathTypes, None, Response
<1>1. ASSUME UNCHANGED <<channel, relay, relays, answers, answering, dialled>> PROVE Good'
  BY <1>1 DEF AnswersAreReal, RelayIsReal, Real
<1>2. ASSUME NEW a \in Callers, FindPrimary(a) \/ RegisterHandler(a) \/ SubmitAddPath(a) \/ TimeOut(a) PROVE Good'
  BY <1>1, <1>2 DEF FindPrimary, RegisterHandler, SubmitAddPath, TimeOut
<1>3. ASSUME NEW a \in Callers, TakeResponse(a) PROVE Good'
  <2> DEFINE r == channel[a]
  <2>1. /\ channel' = [channel EXCEPT ![a] = None] /\ relay' = [relay EXCEPT ![a] = r]
        /\ relays' = {q \in relays : q.path # r.path} \cup {r}
        /\ UNCHANGED <<answers, answering, dialled>> /\ r # None
    BY <1>3 DEF TakeResponse
  <2>2. r \in Response /\ Real(r)
    BY <1>0, <2>1 DEF AnswersAreReal
  <2> HIDE DEF r
  <2>3. \A q : Real(q)' <=> Real(q)
    BY <2>1 DEF Real
  <2>4. AnswersAreReal'
    <3>1. \A b \in Callers : channel'[b] = IF b = a THEN None ELSE channel[b]
      BY <1>0, <2>1
    <3>2. \A b \in Callers : channel'[b] # None => Real(channel'[b])
      BY <3>1 DEF AnswersAreReal
    <3> QED
      BY <2>1, <2>3, <3>2 DEF AnswersAreReal
  <2>5. ASSUME NEW b \in Callers, relay'[b] # None PROVE Real(relay'[b]) /\ relay'[b] \in relays'
    <3>1. CASE b = a
      BY <1>0, <2>1, <2>2, <3>1
    <3>2. CASE b # a
      <4>1. relay'[b] = relay[b] /\ relay[b] \in Response /\ Real(relay[b]) /\ relay[b] \in relays
        BY <1>0, <2>1, <2>5, <3>2 DEF RelayIsReal, Real
      <4>2. CASE relay[b].path = r.path
        <5>1. relay[b].address = r.address
          BY <2>2, <4>1, <4>2 DEF Real
        <5>2. relay[b] = r
          BY <2>2, <4>1, <4>2, <5>1 DEF Response
        <5> QED
          BY <2>1, <4>1, <5>2
      <4>3. CASE relay[b].path # r.path
        BY <2>1, <4>1, <4>3
      <4> QED
        BY <4>2, <4>3
    <3> QED
      BY <3>1, <3>2
  <2> QED
    BY <2>3, <2>4, <2>5 DEF RelayIsReal, Real
<1>4. ASSUME NEW r \in Response, ReceiveAddPathResp(r) PROVE Good'
  <2>1. /\ UNCHANGED <<channel, relay, relays, dialled>>
        /\ answers[r] > 0 /\ answers' = [answers EXCEPT ![r] = @ - 1]
        /\ answering' \subseteq answering \cup {[response |-> r, to |-> respChannel]}
    BY <1>4 DEF ReceiveAddPathResp
  <2>2. Real(r)
    BY <2>1 DEF AnswersAreReal
  <2>3. \A q \in Response : answers'[q] > 0 => answers[q] > 0
    BY <1>0, <2>1
  <2>4. \A q : Real(q)' <=> Real(q)
    BY <2>1 DEF Real
  <2>5. \A g \in answering' : g \in answering \/ g.response = r
    BY <2>1
  <2>6. AnswersAreReal'
    BY <2>1, <2>2, <2>3, <2>4, <2>5 DEF AnswersAreReal
  <2> QED
    BY <2>1, <2>6 DEF RelayIsReal
<1>5. ASSUME NEW g \in answering, ForwardResponse(g) PROVE Good'
  <2>1. /\ UNCHANGED <<relay, relays, dialled, answers>> /\ answering' \subseteq answering
        /\ channel' = [channel EXCEPT ![g.to] = IF @ = None THEN g.response ELSE @]
    BY <1>5 DEF ForwardResponse
  <2>2. Real(g.response)
    BY DEF AnswersAreReal
  <2>3. \A b \in Callers : channel'[b] \in {channel[b], g.response}
    BY <1>0, <2>1
  <2>4. \A q : Real(q)' <=> Real(q)
    BY <2>1 DEF Real
  <2>5. AnswersAreReal'
    BY <2>1, <2>2, <2>3, <2>4 DEF AnswersAreReal
  <2> QED
    BY <2>1, <2>5 DEF RelayIsReal
<1>6. ASSUME NEW a \in Callers, OpenPath(a) PROVE Good'
  <2>0. PICK p : p = nextPathID + 1
    OBVIOUS
  <2> DEFINE new == [address |-> a, path |-> p]
  <2>1. /\ dialled' = [q \in DOMAIN dialled \cup {p} |-> IF q = p THEN a ELSE dialled[q]]
        /\ answers' = [answers EXCEPT ![new] = MaxControl]
        /\ UNCHANGED <<channel, relay, relays, answering>>
    BY <1>6, <2>0 DEF OpenPath
  <2>2. p \notin DOMAIN dialled
    BY <1>0, <2>0
  <2>3. \A q : Real(q) => Real(q)'
    BY <2>1, <2>2 DEF Real
  <2>4. Real(new)'
    BY <2>1 DEF Real
  <2>5. \A q \in Response : answers'[q] > 0 => answers[q] > 0 \/ q = new
    <3> HIDE DEF new
    <3> QED
      BY <1>0, <2>1
  <2> HIDE DEF new
  <2>6. AnswersAreReal'
    BY <2>1, <2>3, <2>4, <2>5 DEF AnswersAreReal
  <2>7. RelayIsReal'
    BY <2>1, <2>3 DEF RelayIsReal, Real
  <2> QED
    BY <2>6, <2>7
<1>7. ASSUME NEW a \in Callers, OpenPathFails(a) \/ ReceiveAddPath(a) PROVE Good'
  BY <1>1, <1>7 DEF OpenPathFails, ReceiveAddPath
<1>8. CASE (\E p \in RelayPaths : LosePath(p)) \/ LosePrimary \/ UNCHANGED vars
  BY <1>1, <1>8 DEF LosePath, LosePrimary, vars
<1>9. CASE \/ \E a \in Callers, s \in Streams, d \in Data : SendRawData(a, s, d)
           \/ \E d \in Data : ReceiveRelayData(d)
           \/ StreamActions
  BY <1>1, <1>9 DEF SendRawData, ReceiveRelayData, StreamActions, ClosePath, CreateStream, CloseStream
<1>10. ASSUME NEW j \in Jobs, HandleRelayDataFrame(j) PROVE Good'
  BY <1>1, <1>10 DEF HandleRelayDataFrame, FindPath, OpenStream, LookAgain, PutStream, JoinStream, ReadWriteOffset,
                     IncrementWriteOffset, SubmitData
<1> QED
  BY <1>2, <1>3, <1>4, <1>5, <1>6, <1>7, <1>8, <1>9, <1>10, NextSorted DEF PathActions, AddRelay

-----------------------------------------------------------------------------
(***************************************************************************)
(* Relayed data                                                            *)
(***************************************************************************)

\* What the path steps do to the numbers of paths, and which paths they bring back.
LEMMA PathNumbers ==
    ASSUME PathTypes, WorkIsForData, PathActions
    PROVE  /\ nextPathID \in Nat /\ nextPathID' \in Nat /\ nextPathID <= nextPathID'
           /\ \A p \in clientPaths' : p <= nextPathID'
           /\ \A p \in clientPaths' : p \in clientPaths \/ p > nextPathID
<1> USE DEF server, answerFrames, client
<1>0. nextPathID \in Nat /\ \A p \in clientPaths : p \in Nat /\ p <= nextPathID
  <2>1. MaxPath \in Nat
    BY RelayConstants
  <2>2. nextPathID \in Nat /\ \A p \in clientPaths : p \in Nat
    BY <2>1 DEF PathTypes, RelayPaths
  <2> QED
    BY <2>2 DEF WorkIsForData
<1>1. CASE UNCHANGED nextPathID /\ clientPaths' \subseteq clientPaths
  BY <1>0, <1>1
<1>2. ASSUME NEW a \in Callers, OpenPath(a) \/ OpenPathFails(a) \/ ReceiveAddPath(a)
      PROVE  /\ nextPathID' \in {nextPathID, nextPathID + 1}
             /\ clientPaths' \subseteq clientPaths \cup {nextPathID'}
             /\ nextPathID' = nextPathID => clientPaths' \subseteq clientPaths
  BY <1>0, <1>2 DEF OpenPath, OpenPathFails, ReceiveAddPath
<1>3. ASSUME NEW a \in Callers, AddRelay(a) PROVE UNCHANGED <<nextPathID, clientPaths>>
  BY <1>3 DEF AddRelay, FindPrimary, RegisterHandler, SubmitAddPath, TakeResponse, TimeOut
<1>4. ASSUME \/ (\E r \in Response : ReceiveAddPathResp(r)) \/ (\E g \in answering : ForwardResponse(g))
             \/ (\E p \in RelayPaths : LosePath(p)) \/ LosePrimary \/ UNCHANGED vars
      PROVE  UNCHANGED nextPathID /\ clientPaths' \subseteq clientPaths
  BY <1>4 DEF ReceiveAddPathResp, ForwardResponse, LosePath, LosePrimary, vars
<1>5. ASSUME NEW a \in Callers, OpenPath(a) \/ OpenPathFails(a) \/ ReceiveAddPath(a)
      PROVE  /\ nextPathID' \in Nat /\ nextPathID <= nextPathID'
             /\ \A p \in clientPaths' : p <= nextPathID'
             /\ \A p \in clientPaths' : p \in clientPaths \/ p > nextPathID
  BY <1>0, <1>2, <1>5
<1> QED
  BY <1>0, <1>1, <1>3, <1>4, <1>5 DEF PathActions

\* The places of handleRelayDataFrame where it has work to do.
AtWork == {"find", "open", "create", "again", "join", "offset", "advance", "submit"}

\* What a step of handleRelayDataFrame leaves alone: the data and the other goroutines.
LEMMA OneJobMoves ==
    ASSUME DataTypes, WorkIsForData, NEW j \in Jobs, HandleRelayDataFrame(j)
    PROVE  /\ UNCHANGED <<target, copies, table, shut, nextPathID, clientPaths>>
           /\ job[j] \in AtWork /\ job'[j] \in JobState \ {"none", "find"}
           /\ \A k \in Jobs \ {j} : job'[k] = job[k] /\ readOffset'[k] = readOffset[k]
           /\ j[1] \in DOMAIN target /\ j[1] \in Data /\ To(j) \in Target
           /\ \A k \in Jobs : To(k)' = To(k)
           /\ \A t \in Target \ {To(j)} : offset'[t] = offset[t]
<1> USE DEF relayData, streams, table, client
<1>0. /\ job \in [Jobs -> JobState] /\ readOffset \in [Jobs -> Nat] /\ offset \in [Target -> Nat \cup {Closed}]
      /\ DOMAIN target \subseteq Data /\ \A d \in DOMAIN target : target[d] \in Target
  BY DEF DataTypes, JobState
<1>1. UNCHANGED <<target, copies, table, shut, nextPathID, clientPaths>>
  BY DEF HandleRelayDataFrame, FindPath, OpenStream, LookAgain, PutStream, JoinStream, ReadWriteOffset,
         IncrementWriteOffset, SubmitData
<1>2. PICK pc \in JobState \ {"none", "find"} : job' = [job EXCEPT ![j] = pc]
  <2>1. CASE FindPath(j)
    <3>1. GoTo(j, "done") \/ GoTo(j, "offset") \/ GoTo(j, "open")
      BY <2>1 DEF FindPath
    <3> QED
      BY <3>1 DEF GoTo, JobState
  <2>2. CASE OpenStream(j) \/ LookAgain(j)
    <3>1. GoTo(j, "join") \/ GoTo(j, "create") \/ GoTo(j, "again") \/ GoTo(j, "done")
      BY <2>2 DEF OpenStream, LookAgain
    <3> QED
      BY <3>1 DEF GoTo, JobState
  <2>3. CASE PutStream(j) \/ JoinStream(j)
    BY <2>3 DEF PutStream, JoinStream, GoTo, JobState
  <2>4. CASE ReadWriteOffset(j) \/ IncrementWriteOffset(j)
    BY <2>4 DEF ReadWriteOffset, IncrementWriteOffset, GoTo, JobState
  <2>5. CASE SubmitData(j)
    BY <2>5 DEF SubmitData, GoTo, JobState
  <2> QED
    BY <2>1, <2>2, <2>3, <2>4, <2>5 DEF HandleRelayDataFrame
<1>3. job[j] \in AtWork
  BY DEF HandleRelayDataFrame, FindPath, OpenStream, LookAgain, PutStream, JoinStream, ReadWriteOffset,
         IncrementWriteOffset, SubmitData, At, AtWork
<1>4. j[1] \in DOMAIN target
  BY <1>3 DEF WorkIsForData, AtWork
<1>5. \A k \in Jobs \ {j} : readOffset'[k] = readOffset[k]
  BY <1>0 DEF HandleRelayDataFrame, FindPath, OpenStream, LookAgain, PutStream, JoinStream, ReadWriteOffset,
         IncrementWriteOffset, SubmitData
<1>6. \A t \in Target \ {To(j)} : offset'[t] = offset[t]
  BY <1>0 DEF HandleRelayDataFrame, FindPath, OpenStream, LookAgain, PutStream, JoinStream, ReadWriteOffset,
         IncrementWriteOffset, SubmitData
<1> QED
  BY <1>0, <1>1, <1>2, <1>3, <1>4, <1>5, <1>6 DEF To

\* The frame f is placed after the others.
Placing(f) ==
    /\ Len(placed) \in Nat /\ DOMAIN placed = 1 .. Len(placed) /\ DOMAIN placed' = 1 .. Len(placed) + 1
    /\ \A i \in DOMAIN placed : placed'[i] = placed[i]
    /\ placed'[Len(placed) + 1] = f

\* The frame that goroutine j submits.
FrameOf(j) == [to |-> To(j), offset |-> readOffset[j], data |-> j[1]]

\* What is submitted: nothing, or the frame of the goroutine that was at its last step.
LEMMA Submissions ==
    ASSUME DataTypes, NEW j \in Jobs, HandleRelayDataFrame(j), To(j) \in Target, j[1] \in Data
    PROVE  \/ UNCHANGED placed
           \/ /\ job[j] = "submit" /\ job'[j] = "done" /\ To(j).path \in clientPaths
              /\ Placing(FrameOf(j)) /\ UNCHANGED <<offset, overlapped>>
<1>1. CASE ~SubmitData(j)
  BY <1>1 DEF HandleRelayDataFrame, FindPath, OpenStream, LookAgain, PutStream, JoinStream, ReadWriteOffset,
              IncrementWriteOffset, streams
<1>2. CASE SubmitData(j)
  <2> DEFINE f == [to |-> To(j), offset |-> readOffset[j], data |-> j[1]]
  <2>1. f \in Frame /\ placed \in Seq(Frame)
    BY DEF DataTypes, Frame
  <2>2. CASE To(j).path \notin clientPaths
    BY <1>2, <2>2 DEF SubmitData
  <2>3. CASE To(j).path \in clientPaths
    <3>1. placed' = Append(placed, f)
      BY <1>2, <2>3 DEF SubmitData
    <3>2. job[j] = "submit" /\ job'[j] = "done" /\ UNCHANGED <<offset, overlapped>>
      BY <1>2 DEF SubmitData, At, GoTo, DataTypes
    <3> HIDE DEF f
    <3>3. Len(placed) \in Nat /\ DOMAIN placed = 1 .. Len(placed)
      BY <2>1, LenProperties
    <3>4. /\ placed' \in Seq(Frame) /\ Len(placed') = Len(placed) + 1
          /\ \A i \in 1 .. Len(placed) : placed'[i] = placed[i]
          /\ placed'[Len(placed) + 1] = f
      BY <2>1, <3>1, AppendProperties
    <3>5. DOMAIN placed' = 1 .. Len(placed) + 1
      BY <3>4, LenProperties
    <3> QED
      BY <2>3, <3>2, <3>3, <3>4, <3>5 DEF f, Placing, FrameOf
  <2> QED
    BY <2>2, <2>3
<1> QED
  BY <1>1, <1>2

\* Whatever is at work, submitted or open comes from data that was sent.
LEMMA WorkStep == Types /\ RelayIsReal /\ WorkIsForData /\ [Next]_vars => WorkIsForData'
<1> SUFFICES ASSUME PathTypes, DataTypes, RelayIsReal, WorkIsForData, [Next]_vars PROVE WorkIsForData'
  BY TypeHalves
<1> USE DEF relayData, streams, table
<1>0. /\ job \in [Jobs -> JobState] /\ copies \in [Data -> 0 .. MaxCopies] /\ offset \in [Target -> Nat \cup {Closed}]
      /\ DOMAIN target \subseteq Data /\ \A d \in DOMAIN target : target[d] \in Target
      /\ \A t \in Target : t.path \in Nat
      /\ nextPathID \in Nat
  BY RelayConstants DEF DataTypes, PathTypes, JobState, Target, RelayPaths
<1>1. CASE PathActions
  <2>1. UNCHANGED <<target, copies, job, placed, offset>>
    BY <1>1, PathActionsKeepData
  <2>2. /\ nextPathID <= nextPathID' /\ nextPathID' \in Nat
        /\ \A p \in clientPaths' : p <= nextPathID'
    BY <1>1, PathNumbers
  <2>3. \A d \in DOMAIN target : target[d].path <= nextPathID'
    BY <1>0, <2>2 DEF WorkIsForData
  <2> QED
    BY <2>1, <2>2, <2>3 DEF WorkIsForData
<1>2. ASSUME NEW a \in Callers, NEW s \in Streams, NEW d \in Data, SendRawData(a, s, d) PROVE WorkIsForData'
  <2> DEFINE t == [path |-> relay[a].path, stream |-> s]
  <2>1. /\ d \notin DOMAIN target /\ relay[a] # None
        /\ target' = [e \in DOMAIN target \cup {d} |-> IF e = d THEN t ELSE target[e]]
        /\ \E n \in 1 .. MaxCopies : copies' = [copies EXCEPT ![d] = n]
        /\ UNCHANGED <<job, placed, offset, nextPathID, clientPaths>>
    BY <1>2 DEF SendRawData, client
  <2>2. t.path <= nextPathID
    <3>1. relay[a].path \in DOMAIN dialled
      BY <2>1 DEF RelayIsReal
    <3> QED
      BY <1>0, <3>1 DEF PathTypes
  <2> HIDE DEF t
  <2>3. /\ DOMAIN target' = DOMAIN target \cup {d}
        /\ \A e \in DOMAIN target : target'[e] = target[e]
        /\ target'[d].path <= nextPathID
    BY <2>1, <2>2
  <2>4. \A e \in Data \ {d} : copies'[e] = copies[e]
    BY <1>0, <2>1
  <2>5. \A j \in Jobs : job[j] # "none" => j[1] # d /\ j[1] \in Data
    BY <1>0, <2>1 DEF WorkIsForData
  <2>6. \A e \in Data \ DOMAIN target' : copies'[e] = 0
    BY <2>3, <2>4 DEF WorkIsForData
  <2>7. \A j \in Jobs : job[j] # "none" => j[1] \in DOMAIN target' /\ j[2] > copies'[j[1]]
    BY <2>3, <2>4, <2>5 DEF WorkIsForData
  <2>8. \A e \in DOMAIN target' : target'[e].path <= nextPathID
    BY <2>3 DEF WorkIsForData
  <2>9. \A i \in DOMAIN placed : placed[i].data \in DOMAIN target' /\ placed[i].to = target'[placed[i].data]
    BY <2>3 DEF WorkIsForData
  <2>10. \A u \in Target : offset[u] # Closed => \E e \in DOMAIN target' : target'[e] = u
    BY <2>3 DEF WorkIsForData
  <2> QED
    BY <2>1, <2>6, <2>7, <2>8, <2>9, <2>10 DEF WorkIsForData
<1>3. ASSUME NEW d \in Data, ReceiveRelayData(d) PROVE WorkIsForData'
  <2>1. /\ copies[d] > 0 /\ copies' = [copies EXCEPT ![d] = @ - 1]
        /\ job' = [job EXCEPT ![<<d, copies[d]>>] = "find"]
        /\ UNCHANGED <<target, placed, offset, nextPathID, clientPaths>>
    BY <1>3 DEF ReceiveRelayData, client
  <2>2. d \in DOMAIN target
    BY <1>0, <2>1 DEF WorkIsForData
  <2>3. /\ copies[d] \in Nat /\ copies'[d] = copies[d] - 1
        /\ \A e \in Data \ {d} : copies'[e] = copies[e]
    BY <1>0, <2>1
  <2>4. \A j \in Jobs : j[1] \in Data /\ j[2] \in Nat
    BY RelayConstants DEF Jobs
  <2>5. ASSUME NEW j \in Jobs, job'[j] # "none" PROVE j[1] \in DOMAIN target /\ j[2] > copies'[j[1]]
    <3>1. CASE j = <<d, copies[d]>>
      BY <2>2, <2>3, <3>1
    <3>2. CASE j # <<d, copies[d]>>
      <4>1. j[1] \in DOMAIN target /\ j[2] > copies[j[1]]
        BY <1>0, <2>1, <2>5, <3>2 DEF WorkIsForData
      <4> QED
        BY <2>3, <2>4, <4>1
    <3> QED
      BY <3>1, <3>2
  <2>6. \A e \in Data \ DOMAIN target : copies'[e] = 0
    BY <2>2, <2>3 DEF WorkIsForData
  <2> QED
    BY <2>1, <2>5, <2>6 DEF WorkIsForData
<1>4. ASSUME NEW j \in Jobs, HandleRelayDataFrame(j) PROVE WorkIsForData'
  <2>1. /\ UNCHANGED <<target, copies, nextPathID, clientPaths>>
        /\ job[j] # "none" /\ j[1] \in DOMAIN target /\ j[1] \in Data /\ To(j) \in Target
        /\ \A k \in Jobs \ {j} : job'[k] = job[k]
        /\ \A t \in Target \ {To(j)} : offset'[t] = offset[t]
    BY <1>4, OneJobMoves DEF AtWork
  <2>2. \A t \in Target : offset'[t] # Closed => \E d \in DOMAIN target : target[d] = t
    BY <2>1 DEF WorkIsForData, To
  <2>3. \A k \in Jobs : job'[k] # "none" => k[1] \in DOMAIN target /\ k[2] > copies[k[1]]
    BY <2>1 DEF WorkIsForData
  <2>4. \A i \in DOMAIN placed' : placed'[i].data \in DOMAIN target /\ placed'[i].to = target[placed'[i].data]
    <3>1. CASE UNCHANGED placed
      BY <3>1 DEF WorkIsForData
    <3>2. CASE ~UNCHANGED placed
      <4>1. /\ Len(placed) \in Nat /\ DOMAIN placed = 1 .. Len(placed) /\ DOMAIN placed' = 1 .. Len(placed) + 1
            /\ \A i \in DOMAIN placed : placed'[i] = placed[i]
            /\ placed'[Len(placed) + 1] = [to |-> To(j), offset |-> readOffset[j], data |-> j[1]]
        BY <1>4, <2>1, <3>2, Submissions DEF Placing, FrameOf
      <4>2. \A i \in DOMAIN placed' : i \in DOMAIN placed \/ i = Len(placed) + 1
        BY <4>1
      <4> QED
        BY <2>1, <4>1, <4>2 DEF WorkIsForData, To
    <3> QED
      BY <3>1, <3>2
  <2> QED
    BY <2>1, <2>2, <2>3, <2>4 DEF WorkIsForData
<1>5. CASE StreamActions
  <2>1. /\ UNCHANGED <<target, copies, job, placed, nextPathID>> /\ clientPaths' \subseteq clientPaths
        /\ \A t \in Target : offset'[t] # Closed => offset[t] # Closed
    BY <1>5, StreamActionsLose
  <2> QED
    BY <2>1 DEF WorkIsForData
<1> QED
  BY <1>1, <1>2, <1>3, <1>4, <1>5, NextSorted

\* The goroutines at work know their targets for good.
LEMMA TargetsStay ==
    ASSUME WorkIsForData, NEW a \in Callers, NEW s \in Streams, NEW d \in Data, SendRawData(a, s, d)
    PROVE  \A k \in Jobs : job[k] # "none" => To(k)' = To(k)
  BY DEF SendRawData, WorkIsForData, To

\* A copy that arrives gets a goroutine that was not at work.
LEMMA FreshJob ==
    ASSUME DataTypes, WorkIsForData, NEW d \in Data, ReceiveRelayData(d)
    PROVE  /\ \A k \in Jobs : job[k] # "none" => job'[k] = job[k]
           /\ \A k \in Jobs : job'[k] \in {job[k], "find"}
           /\ UNCHANGED <<target, readOffset, streams, clientPaths>>
<1>1. /\ copies[d] \in Nat /\ job' = [job EXCEPT ![<<d, copies[d]>>] = "find"]
      /\ UNCHANGED <<target, readOffset, streams, clientPaths>>
  BY DEF ReceiveRelayData, DataTypes, client
<1>2. \A k \in Jobs : k = <<d, copies[d]>> => job[k] = "none"
  BY <1>1 DEF WorkIsForData
<1> QED
  BY <1>1, <1>2 DEF DataTypes

\* A stream is not open on a path without being joined to it or about to be.
LEMMA JoinedStep == Types /\ WorkIsForData /\ OpenIsJoined /\ [Next]_vars => OpenIsJoined'
<1> SUFFICES ASSUME PathTypes, DataTypes, WorkIsForData, OpenIsJoined, [Next]_vars PROVE OpenIsJoined'
  BY TypeHalves
<1> USE DEF relayData, streams, table, At
<1>0. /\ job \in [Jobs -> JobState] /\ offset \in [Target -> Nat \cup {Closed}]
  BY DEF DataTypes, JobState
<1>1. CASE PathActions
  BY <1>1, PathActionsKeepData DEF OpenIsJoined, To
<1>2. ASSUME NEW a \in Callers, NEW s \in Streams, NEW d \in Data, SendRawData(a, s, d) PROVE OpenIsJoined'
  <2>1. UNCHANGED <<job, streams>>
    BY <1>2 DEF SendRawData
  <2> QED
    BY <1>2, <2>1, TargetsStay DEF OpenIsJoined
<1>3. ASSUME NEW d \in Data, ReceiveRelayData(d) PROVE OpenIsJoined'
  BY <1>3, FreshJob DEF OpenIsJoined, To
<1>4. ASSUME NEW j \in Jobs, HandleRelayDataFrame(j) PROVE OpenIsJoined'
  <2>1. /\ UNCHANGED <<target, managed, early>> /\ \A k \in Jobs \ {j} : job'[k] = job[k]
        /\ \A k \in Jobs : To(k)' = To(k)
        /\ \A t \in Target \ {To(j)} : offset'[t] = offset[t]
    BY <1>4, OneJobMoves
  <2> SUFFICES ASSUME NEW t \in Target \ early, offset'[t] # Closed, t.stream \in managed
               PROVE  t \in joined' \/ \E k \in Jobs : job'[k] = "join" /\ To(k) = t
    BY <2>1 DEF OpenIsJoined
  <2>2. CASE JoinStream(j)
    <3>1. /\ UNCHANGED offset
          /\ joined' = IF To(j).stream \in managed THEN joined \cup {To(j)} ELSE joined
      BY <2>2 DEF JoinStream
    <3>2. CASE t = To(j)
      BY <3>1, <3>2
    <3>3. CASE t # To(j)
      BY <2>1, <3>1, <3>3 DEF OpenIsJoined
    <3> QED
      BY <3>2, <3>3
  <2>3. CASE PutStream(j)
    <3>1. UNCHANGED joined /\ job[j] = "create" /\ job'[j] = "join"
      BY <1>0, <2>3 DEF PutStream, GoTo
    <3>2. CASE t = To(j)
      BY <3>1, <3>2
    <3>3. CASE t # To(j)
      BY <2>1, <3>1, <3>3 DEF OpenIsJoined
    <3> QED
      BY <3>2, <3>3
  <2>4. CASE ~JoinStream(j) /\ ~PutStream(j)
    <3>1. UNCHANGED joined /\ job[j] # "join"
      BY <1>4, <2>4 DEF HandleRelayDataFrame, FindPath, OpenStream, LookAgain, ReadWriteOffset, IncrementWriteOffset, SubmitData
    <3>2. offset[t] # Closed
      BY <1>0, <1>4, <2>4 DEF HandleRelayDataFrame, FindPath, OpenStream, LookAgain, ReadWriteOffset, IncrementWriteOffset, SubmitData
    <3> QED
      BY <2>1, <3>1, <3>2 DEF OpenIsJoined
  <2> QED
    BY <2>2, <2>3, <2>4
<1>5. CASE StreamActions
  <2>1. UNCHANGED <<target, job>>
    BY <1>5, StreamActionsLose
  <2>2. ASSUME NEW p \in RelayPaths, ClosePath(p) PROVE OpenIsJoined'
    BY <1>0, <2>1, <2>2 DEF ClosePath, OpenIsJoined, To
  <2>3. ASSUME NEW s \in Streams, CreateStream(s) PROVE OpenIsJoined'
    <3>1. /\ managed' = managed \cup {s} /\ UNCHANGED <<offset, joined>>
          /\ early' = early \cup {t \in Target : t.stream = s /\ offset[t] # Closed}
      BY <2>3 DEF CreateStream
    <3> QED
      BY <2>1, <3>1 DEF OpenIsJoined, To
  <2>4. ASSUME NEW s \in Streams, CloseStream(s) PROVE OpenIsJoined'
    <3>1. /\ UNCHANGED early /\ managed' \subseteq managed
          /\ \A t \in joined : t.stream \in managed' => t \in joined'
          /\ \A t \in Target : offset'[t] \in {offset[t], Closed}
      BY <2>4 DEF CloseStream, RelayPathsOf, CloseOn
    <3> QED
      BY <2>1, <3>1 DEF OpenIsJoined, To
  <2> QED
    BY <1>5, <2>2, <2>3, <2>4 DEF StreamActions
<1> QED
  BY <1>1, <1>2, <1>3, <1>4, <1>5, NextSorted

\* Where two goroutines come to work for one stream, the second to find it makes that known.
LEMMA OverlapStep == Types /\ WorkIsForData /\ OverlapIsSeen /\ [Next]_vars => OverlapIsSeen'
<1> SUFFICES ASSUME PathTypes, DataTypes, WorkIsForData, OverlapIsSeen, [Next]_vars PROVE OverlapIsSeen'
  BY TypeHalves
<1> USE DEF relayData, streams, table, At, Busy
<1>1. CASE PathActions
  BY <1>1, PathActionsKeepData DEF OverlapIsSeen, To
<1>2. ASSUME NEW a \in Callers, NEW s \in Streams, NEW d \in Data, SendRawData(a, s, d) PROVE OverlapIsSeen'
  <2>1. UNCHANGED <<job, overlapped>>
    BY <1>2 DEF SendRawData
  <2>2. \A k \in Jobs : Busy(k) => To(k)' = To(k)
    BY <1>2, TargetsStay
  <2> QED
    BY <2>1, <2>2 DEF OverlapIsSeen
<1>3. ASSUME NEW d \in Data, ReceiveRelayData(d) PROVE OverlapIsSeen'
  <2>1. \A k \in Jobs : Busy(k)' => Busy(k)
    BY <1>3, FreshJob
  <2> QED
    BY <1>3, <2>1, FreshJob DEF OverlapIsSeen, To
<1>4. ASSUME NEW j \in Jobs, HandleRelayDataFrame(j) PROVE OverlapIsSeen'
  <2>1. /\ \A k \in Jobs \ {j} : Busy(k)' = Busy(k)
        /\ \A k \in Jobs : To(k)' = To(k)
        /\ job[j] \in AtWork
    BY <1>4, OneJobMoves
  <2>2. overlapped \subseteq overlapped'
    BY <1>4 DEF HandleRelayDataFrame, FindPath, OpenStream, LookAgain, PutStream, JoinStream, ReadWriteOffset,
                IncrementWriteOffset, SubmitData
  <2>3. CASE Busy(j)
    BY <2>1, <2>2, <2>3 DEF OverlapIsSeen
  <2>4. CASE ~Busy(j)
    <3>1. FindPath(j)
      BY <1>4, <2>4 DEF HandleRelayDataFrame, OpenStream, LookAgain, PutStream, JoinStream, ReadWriteOffset,
                        IncrementWriteOffset, SubmitData
    <3>2. Busy(j)' => \/ \A k \in Jobs \ {j} : ~(Busy(k) /\ To(k) = To(j))
                      \/ To(j) \in overlapped'
      BY <3>1 DEF FindPath, GoTo, DataTypes
    <3> QED
      BY <2>1, <2>2, <3>2 DEF OverlapIsSeen
  <2> QED
    BY <2>3, <2>4
<1>5. CASE StreamActions
  BY <1>5, StreamActionsLose DEF OverlapIsSeen, To
<1> QED
  BY <1>1, <1>2, <1>3, <1>4, <1>5, NextSorted

-----------------------------------------------------------------------------
(***************************************************************************)
(* Offsets of relayed data                                                 *)
(***************************************************************************)

\* A frame for another stream moves no end.
LEMMA OtherEndsStay ==
    ASSUME NEW t, NEW f, f.to # t, Placing(f)
    PROVE  /\ NoFrames(t) => NoFrames(t)'
           /\ \A e : EndsAt(t, e) => EndsAt(t, e)'
<1>1. \A i \in DOMAIN placed' : \/ i \in DOMAIN placed /\ placed'[i] = placed[i]
                           \/ placed'[i] = f
  BY DEF Placing
<1>2. \A i \in DOMAIN placed : i \in DOMAIN placed' /\ placed'[i] = placed[i]
  BY DEF Placing
<1> QED
  BY <1>1, <1>2 DEF NoFrames, EndsAt

\* A frame that starts where the frames of its stream end follows on them and becomes their end.
LEMMA FrameFollows ==
    ASSUME NEW f \in Frame, Placing(f), EndsAt(f.to, f.offset), NEW last, last = Len(placed) + 1
    PROVE  EndsAt(f.to, f.offset + f.data)' /\ FollowsOn(last)'
<1>0. /\ last \in Nat /\ DOMAIN placed = 1 .. last - 1
      /\ \A i \in DOMAIN placed : i \in DOMAIN placed' /\ placed'[i] = placed[i] /\ i < last /\ i \in Nat
      /\ \A i \in DOMAIN placed' : i <= last
      /\ last \in DOMAIN placed' /\ placed'[last] = f
  BY DEF Placing
<1>1. EndsAt(f.to, f.offset + f.data)'
  BY <1>0 DEF EndsAt
<1>2. Before(last)' = {k \in DOMAIN placed : placed[k].to = f.to}
  <2>1. Before(last)' = {k \in 1 .. last - 1 : placed'[k].to = placed'[last].to}
    BY DEF Before
  <2> QED
    BY <1>0, <2>1
<1>3. CASE NoFrames(f.to) /\ f.offset = 0
  <2>1. Before(last)' = {} /\ placed'[last].offset = 0
    BY <1>0, <1>2, <1>3 DEF NoFrames
  <2> QED
    BY <1>1, <2>1 DEF FollowsOn
<1>4. CASE ~(NoFrames(f.to) /\ f.offset = 0)
  <2>1. PICK k \in DOMAIN placed :
          /\ placed[k].to = f.to /\ \A m \in DOMAIN placed : placed[m].to = f.to => m <= k
          /\ f.offset = placed[k].offset + placed[k].data
    BY <1>4 DEF EndsAt
  <2>2. k \in Before(last)' /\ \A m \in Before(last)' : m <= k
    BY <1>2, <2>1
  <2>3. placed'[last].offset = placed'[k].offset + placed'[k].data
    BY <1>0, <2>1
  <2> QED
    BY <1>1, <2>2, <2>3 DEF FollowsOn
<1> QED
  BY <1>3, <1>4

\* The frames placed before keep their places.
LEMMA EarlierFollow ==
    ASSUME NEW f, Placing(f), NEW i \in DOMAIN placed
    PROVE  FollowsOn(i) => FollowsOn(i)'
<1>1. \A k \in 1 .. i : k \in DOMAIN placed /\ placed'[k] = placed[k]
  BY DEF Placing
<1>2. i \in Nat /\ i >= 1
  BY DEF Placing
<1>3. Before(i)' = Before(i)
  BY <1>1, <1>2 DEF Before
<1>4. \A k \in Before(i) : placed'[k] = placed[k]
  BY <1>1, <1>2 DEF Before
<1>5. placed'[i] = placed[i]
  BY DEF Placing
<1> QED
  BY <1>3, <1>4, <1>5 DEF FollowsOn

\* The steps about paths make no stream undisturbed that data was sent on.
LEMMA PathsDisturb ==
    ASSUME PathTypes, DataTypes, WorkIsForData, PathActions
    PROVE  \A d \in DOMAIN target : Disturbed(target[d]) => Disturbed(target[d])'
<1>1. /\ \A p \in clientPaths' : p \in clientPaths \/ p > nextPathID
      /\ UNCHANGED <<target, overlapped, shut>>
  BY PathNumbers, PathActionsKeepData DEF relayData, streams
<1>2. \A d \in DOMAIN target : target[d].path \in Nat /\ target[d].path <= nextPathID
  BY DEF DataTypes, WorkIsForData, Target, RelayPaths
<1>3. nextPathID \in Nat
  BY RelayConstants DEF PathTypes
<1> QED
  BY <1>1, <1>2, <1>3 DEF Disturbed

\* Nothing is submitted, and nothing open, on a stream that no data was sent on.
LEMMA UnsentRests ==
    ASSUME WorkIsForData, NEW t \in Target, \A d \in DOMAIN target : target[d] # t
    PROVE  RestingOffset(t)
<1>1. offset[t] = Closed
  BY DEF WorkIsForData
<1>2. NoFrames(t)
  BY DEF WorkIsForData, NoFrames
<1> QED
  BY <1>1, <1>2 DEF RestingOffset

\* A step of the goroutine j, as the other streams and goroutines see it.
LEMMA OthersUndisturbed ==
    ASSUME Types, WorkIsForData, OverlapIsSeen, OffsetsAgree, NEW j \in Jobs, HandleRelayDataFrame(j),
           OverlapIsSeen'
    PROVE  /\ \A t \in Target : Disturbed(t) => Disturbed(t)'
           /\ \A t \in Target \ {To(j)} : Disturbed(t)' \/ RestingOffset(t)'
           /\ \A k \in Jobs \ {j} : Busy(k)' => Disturbed(To(k))' \/ OffsetOfJob(k)'
<1> USE DEF relayData, streams, table
<1>0. DataTypes
  BY TypeHalves
<1>1. /\ UNCHANGED <<target, copies, shut, clientPaths>>
      /\ job[j] \in AtWork /\ To(j) \in Target /\ j[1] \in Data
      /\ \A k \in Jobs \ {j} : job'[k] = job[k] /\ readOffset'[k] = readOffset[k] /\ (Busy(k)' <=> Busy(k))
      /\ \A k \in Jobs : To(k)' = To(k)
      /\ \A t \in Target \ {To(j)} : offset'[t] = offset[t]
  BY <1>0, OneJobMoves DEF Busy
<1>2. overlapped \subseteq overlapped'
  BY DEF HandleRelayDataFrame, FindPath, OpenStream, LookAgain, PutStream, JoinStream, ReadWriteOffset,
         IncrementWriteOffset, SubmitData
<1>3. \A t \in Target : Disturbed(t) => Disturbed(t)'
  BY <1>1, <1>2 DEF Disturbed
<1>4. ASSUME NEW t \in Target \ {To(j)}
      PROVE  /\ NoFrames(t) => NoFrames(t)'
             /\ \A e : EndsAt(t, e) => EndsAt(t, e)'
  <2>1. CASE UNCHANGED placed
    BY <2>1 DEF NoFrames, EndsAt
  <2>2. CASE Placing(FrameOf(j))
    BY <1>4, <2>2, OtherEndsStay DEF FrameOf
  <2> QED
    BY <1>0, <1>1, <2>1, <2>2, Submissions
<1>5. ASSUME NEW t \in Target \ {To(j)}, RestingOffset(t) PROVE RestingOffset(t)'
  <2>1. offset'[t] = offset[t]
    BY <1>1
  <2>2. ASSUME \A k \in Jobs : Busy(k)' /\ To(k)' = t => job'[k] # "submit"
        PROVE  \A k \in Jobs : Busy(k) /\ To(k) = t => job[k] # "submit"
    BY <1>1, <2>2
  <2> QED
    BY <1>4, <1>5, <2>1, <2>2 DEF RestingOffset
<1>6. ASSUME NEW k \in Jobs \ {j}, Busy(k)' PROVE Disturbed(To(k))' \/ OffsetOfJob(k)'
  <2>1. To(k) \in Target
    BY <1>0, <1>1, <1>6 DEF WorkIsForData, Busy, DataTypes, To
  <2>2. CASE To(k) # To(j)
    <3>1. CASE Disturbed(To(k))
      BY <1>1, <1>3, <2>1, <3>1 DEF Disturbed
    <3>2. CASE OffsetOfJob(k)
      <4>1. EndsAt(To(k), readOffset[k]) => EndsAt(To(k), readOffset[k])'
        BY <1>1, <1>4, <2>1, <2>2 DEF EndsAt
      <4> QED
        BY <1>1, <2>1, <2>2, <3>2, <4>1 DEF OffsetOfJob, EndsAt
    <3> QED
      BY <1>1, <1>6, <3>1, <3>2 DEF OffsetsAgree
  <2>3. CASE To(k) = To(j)
    <3>1. CASE Busy(j) \/ Busy(j)'
      <4>1. To(j) \in overlapped'
        BY <1>1, <1>2, <1>6, <2>3, <3>1 DEF OverlapIsSeen
      <4> QED
        BY <1>1, <2>3, <4>1 DEF Disturbed
    <3>2. CASE ~Busy(j) /\ ~Busy(j)'
      <4>1. FindPath(j)
        BY <3>2 DEF HandleRelayDataFrame, OpenStream, LookAgain, PutStream, JoinStream, ReadWriteOffset,
                    IncrementWriteOffset, SubmitData, Busy, At
      <4>2. To(j).path \notin clientPaths
        <5>1. GoTo(j, "open") \/ GoTo(j, "offset") => Busy(j)'
          BY <1>0 DEF GoTo, Busy, DataTypes
        <5> QED
          BY <3>2, <4>1, <5>1 DEF FindPath
      <4> QED
        BY <1>1, <2>3, <4>2 DEF Disturbed
    <3> QED
      BY <3>1, <3>2
  <2> QED
    BY <2>2, <2>3
<1> QED
  BY <1>3, <1>5, <1>6 DEF OffsetsAgree

\* A step of the goroutine j, as its own stream sees it: the step keeps the write offset where the frames
\* end, or knows by how much it is ahead.
LEMMA OwnOffsetStep ==
    ASSUME Types, WorkIsForData, OverlapIsSeen, OffsetsAgree, NEW j \in Jobs, HandleRelayDataFrame(j),
           ~Disturbed(To(j))'
    PROVE  RestingOffset(To(j))' /\ (Busy(j)' => OffsetOfJob(j)')
<1> USE DEF relayData, streams, table
<1>0. DataTypes
  BY TypeHalves
<1>1. /\ job \in [Jobs -> JobState] /\ readOffset \in [Jobs -> Nat] /\ offset \in [Target -> Nat \cup {Closed}]
      /\ placed \in Seq(Frame)
  BY <1>0 DEF DataTypes, JobState
<1>2. /\ UNCHANGED <<target, copies, shut, clientPaths>>
      /\ job[j] \in AtWork /\ To(j) \in Target /\ j[1] \in Data
      /\ \A k \in Jobs \ {j} : job'[k] = job[k] /\ (Busy(k)' <=> Busy(k))
      /\ \A k \in Jobs : To(k)' = To(k)
  BY <1>0, OneJobMoves DEF Busy
<1>3. ~Disturbed(To(j)) /\ ~(To(j) \in overlapped')
  <2>1. overlapped \subseteq overlapped'
    BY DEF HandleRelayDataFrame, FindPath, OpenStream, LookAgain, PutStream, JoinStream, ReadWriteOffset,
           IncrementWriteOffset, SubmitData
  <2> QED
    BY <1>2, <2>1 DEF Disturbed
<1>4. RestingOffset(To(j))
  BY <1>2, <1>3 DEF OffsetsAgree
\* Nobody else is at work for the stream.
<1>5. \A k \in Jobs \ {j} : Busy(k) => To(k) # To(j)
  <2>1. CASE Busy(j)
    BY <1>3, <2>1 DEF OverlapIsSeen, Disturbed
  <2>2. CASE ~Busy(j)
    <3>1. FindPath(j)
      BY <2>2 DEF HandleRelayDataFrame, OpenStream, LookAgain, PutStream, JoinStream, ReadWriteOffset,
                  IncrementWriteOffset, SubmitData, Busy, At
    <3>2. To(j).path \in clientPaths
      BY <1>3 DEF Disturbed
    <3> QED
      BY <1>3, <3>1, <3>2 DEF FindPath
  <2> QED
    BY <2>1, <2>2
<1>6. PICK t \in Target : t = To(j)
  BY <1>2
<1>7. Busy(j) => OffsetOfJob(j)
  BY <1>3 DEF OffsetsAgree
\* Unless the step places a frame, the ends are where they were.
<1>8. ASSUME UNCHANGED placed
      PROVE  (NoFrames(t)' <=> NoFrames(t)) /\ \A e : EndsAt(t, e)' <=> EndsAt(t, e)
  BY <1>8 DEF NoFrames, EndsAt
<1>9. CASE FindPath(j)
  <2>1. UNCHANGED <<placed, offset, readOffset>> /\ job[j] = "find"
    BY <1>9 DEF FindPath, At
  <2>2. To(j).path \in clientPaths
    BY <1>3 DEF Disturbed
  <2>3. job'[j] = IF offset[t] # Closed THEN "offset" ELSE "open"
    BY <1>1, <1>6, <1>9, <2>2 DEF FindPath, GoTo
  <2>4. offset[t] # Closed => EndsAt(t, offset[t])
    BY <1>4, <1>5, <1>6, <2>1 DEF RestingOffset, Busy
  <2>5. RestingOffset(t)'
    BY <1>4, <1>6, <1>8, <2>1, <2>4 DEF RestingOffset
  <2>6. OffsetOfJob(j)'
    BY <1>2, <1>6, <2>1, <2>3 DEF OffsetOfJob
  <2> QED
    BY <1>2, <1>6, <2>5, <2>6
<1>10. CASE OpenStream(j)
  <2>1. UNCHANGED <<placed, offset, readOffset>> /\ job[j] = "open"
    BY <1>10 DEF OpenStream, At
  <2>2. offset[t] = Closed /\ NoFrames(t)
    BY <1>4, <1>6, <1>7, <2>1 DEF OffsetOfJob, RestingOffset, Busy
  <2>3. job'[j] = "create"
    BY <1>1, <1>6, <1>10, <2>2 DEF OpenStream, GoTo
  <2> QED
    BY <1>2, <1>6, <1>8, <2>1, <2>2, <2>3 DEF OffsetOfJob, RestingOffset
<1>11. CASE PutStream(j)
  <2>1. UNCHANGED <<placed, readOffset>> /\ job[j] = "create" /\ job'[j] = "join" /\ offset'[t] = 0
    BY <1>1, <1>2, <1>6, <1>11 DEF PutStream, At, GoTo
  <2>2. NoFrames(t)
    BY <1>4, <1>6, <1>7, <2>1 DEF OffsetOfJob, RestingOffset, Busy
  <2>3. EndsAt(t, 0)'
    BY <1>8, <2>1, <2>2 DEF EndsAt
  <2>4. 0 # Closed
    BY DEF Closed
  <2>5. RestingOffset(t)'
    BY <2>1, <2>3, <2>4 DEF RestingOffset, EndsAt
  <2>6. OffsetOfJob(j)'
    BY <1>2, <1>6, <2>1, <2>4 DEF OffsetOfJob
  <2> QED
    BY <1>2, <1>6, <2>5, <2>6
<1>12. CASE JoinStream(j) \/ ReadWriteOffset(j)
  <2>1. UNCHANGED <<placed, offset>> /\ job[j] \in {"join", "offset"} /\ Busy(j)
    BY <1>12 DEF JoinStream, ReadWriteOffset, At, Busy
  <2>2. offset[t] # Closed
    BY <1>6, <1>7, <2>1 DEF OffsetOfJob
  <2>3. job'[j] \in {"offset", "advance"} /\ (job'[j] = "advance" => readOffset'[j] = offset[t])
    BY <1>1, <1>2, <1>6, <1>12, <2>2 DEF JoinStream, ReadWriteOffset, GoTo
  <2>4. EndsAt(t, offset[t])
    BY <1>4, <1>5, <1>6, <2>1, <2>2 DEF RestingOffset
  <2>5. EndsAt(t, offset[t])'
    BY <1>8, <2>1, <2>4 DEF EndsAt
  <2>6. RestingOffset(t)'
    BY <2>1, <2>2, <2>5 DEF RestingOffset
  <2>7. OffsetOfJob(j)'
    BY <1>2, <1>6, <2>1, <2>2, <2>3 DEF OffsetOfJob
  <2> QED
    BY <1>2, <1>6, <2>6, <2>7
<1>13. CASE IncrementWriteOffset(j)
  <2>1. UNCHANGED <<placed, readOffset>> /\ job[j] = "advance" /\ job'[j] = "submit" /\ Busy(j) /\ Busy(j)'
    BY <1>1, <1>13 DEF IncrementWriteOffset, At, GoTo, Busy
  <2>2. offset[t] # Closed /\ readOffset[j] = offset[t]
    BY <1>6, <1>7, <2>1 DEF OffsetOfJob
  <2>3. offset[t] \in Nat /\ j[1] \in Nat
    BY <1>1, <1>2, <2>2, RelayConstants
  <2>4. offset'[t] = offset[t] + j[1]
    BY <1>1, <1>6, <1>13, <2>2 DEF IncrementWriteOffset
  <2>5. offset'[t] # Closed
    BY <2>3, <2>4 DEF Closed
  <2>6. EndsAt(t, readOffset[j])
    BY <1>4, <1>5, <1>6, <2>1, <2>2 DEF RestingOffset
  <2>7. EndsAt(t, readOffset[j])'
    BY <1>8, <2>1, <2>6 DEF EndsAt
  <2>8. RestingOffset(t)'
    BY <1>2, <1>6, <2>1, <2>5 DEF RestingOffset
  <2>9. OffsetOfJob(j)'
    BY <1>2, <1>6, <2>1, <2>2, <2>4, <2>5, <2>7 DEF OffsetOfJob, EndsAt
  <2> QED
    BY <1>2, <1>6, <2>8, <2>9
<1>14. CASE SubmitData(j)
  <2>1. UNCHANGED offset /\ job[j] = "submit" /\ job'[j] = "done" /\ Busy(j) /\ ~Busy(j)'
    BY <1>1, <1>14 DEF SubmitData, At, GoTo, Busy
  <2>2. EndsAt(t, readOffset[j]) /\ offset[t] = readOffset[j] + j[1] /\ offset[t] # Closed
    BY <1>6, <1>7, <2>1 DEF OffsetOfJob
  <2>3. PICK f \in Frame : f = FrameOf(j)
    BY <1>1, <1>2 DEF FrameOf, Frame
  <2>4. placed' = Append(placed, f)
    BY <1>3, <1>14, <2>3 DEF SubmitData, Disturbed, FrameOf
  <2>5. Placing(f)
    BY <1>1, <2>3, <2>4, AppendProperties, LenProperties DEF Placing
  <2>6. f.to = t /\ f.offset = readOffset[j] /\ f.data = j[1]
    BY <1>6, <2>3 DEF FrameOf
  <2>7. EndsAt(f.to, f.offset)
    BY <2>2, <2>6
  <2>8. EndsAt(f.to, f.offset + f.data)'
    BY <2>5, <2>7, FrameFollows
  <2>9. EndsAt(t, offset[t])'
    BY <2>1, <2>2, <2>6, <2>8
  <2>10. RestingOffset(t)'
    BY <2>1, <2>2, <2>9 DEF RestingOffset
  <2> QED
    BY <1>2, <1>6, <2>1, <2>10
<1>15. CASE LookAgain(j)
  <2>1. UNCHANGED <<placed, offset, readOffset>> /\ job[j] = "again" /\ Busy(j)
    BY <1>15 DEF LookAgain, At, Busy
  <2>2. offset[t] # Closed
    BY <1>6, <1>7, <2>1 DEF OffsetOfJob
  <2>3. job'[j] = "join"
    BY <1>1, <1>6, <1>15, <2>2 DEF LookAgain, GoTo
  <2>4. EndsAt(t, offset[t])
    BY <1>4, <1>5, <1>6, <2>1, <2>2 DEF RestingOffset
  <2>5. EndsAt(t, offset[t])'
    BY <1>8, <2>1, <2>4 DEF EndsAt
  <2>6. RestingOffset(t)'
    BY <2>1, <2>2, <2>5 DEF RestingOffset
  <2>7. OffsetOfJob(j)'
    BY <1>2, <1>6, <2>1, <2>2, <2>3 DEF OffsetOfJob
  <2> QED
    BY <1>2, <1>6, <2>6, <2>7
<1> QED
  BY <1>9, <1>10, <1>11, <1>12, <1>13, <1>14, <1>15 DEF HandleRelayDataFrame

\* Steps keep the offsets of undisturbed streams where the frames end.
LEMMA OffsetsStep ==
    Types /\ WorkIsForData /\ OverlapIsSeen /\ OverlapIsSeen' /\ OffsetsAgree /\ [Next]_vars => OffsetsAgree'
<1> SUFFICES ASSUME Types, WorkIsForData, OverlapIsSeen, OverlapIsSeen', OffsetsAgree, [Next]_vars
             PROVE  OffsetsAgree'
  OBVIOUS
<1> USE DEF relayData, streams, table
<1>0. /\ PathTypes /\ DataTypes /\ DOMAIN target \subseteq Data /\ \A d \in DOMAIN target : target[d] \in Target
      /\ \A k \in Jobs : Busy(k) => k[1] \in DOMAIN target
  BY TypeHalves DEF DataTypes, WorkIsForData, Busy
<1>1. CASE PathActions
  <2>1. UNCHANGED <<relayData, streams>>
    BY <1>1, PathActionsKeepData
  <2>2. \A d \in DOMAIN target : Disturbed(target[d]) => Disturbed(target[d])'
    BY <1>0, <1>1, PathsDisturb
  <2>3. ASSUME NEW t \in Target PROVE Disturbed(t)' \/ RestingOffset(t)'
    <3>1. CASE RestingOffset(t)
      BY <2>1, <3>1 DEF RestingOffset, NoFrames, EndsAt, Busy, To
    <3>2. CASE ~RestingOffset(t)
      <4>1. Disturbed(t) /\ \E d \in DOMAIN target : target[d] = t
        BY <3>2, UnsentRests DEF OffsetsAgree
      <4> QED
        BY <2>1, <2>2, <4>1 DEF Disturbed
    <3> QED
      BY <3>1, <3>2
  <2>4. ASSUME NEW j \in Jobs, Busy(j)' PROVE Disturbed(To(j))' \/ OffsetOfJob(j)'
    <3>1. Busy(j) /\ j[1] \in DOMAIN target /\ To(j)' = To(j)
      BY <1>0, <2>1, <2>4 DEF Busy, To
    <3>2. CASE OffsetOfJob(j)
      BY <2>1, <3>2 DEF OffsetOfJob, EndsAt, NoFrames, To
    <3>3. CASE Disturbed(To(j))
      BY <2>1, <2>2, <3>1, <3>3 DEF To, Disturbed
    <3> QED
      BY <3>1, <3>2, <3>3 DEF OffsetsAgree
  <2> QED
    BY <2>3, <2>4 DEF OffsetsAgree
\* Data that is sent or arrives gives no goroutine more to do for a stream than it had.
<1>2. ASSUME UNCHANGED <<readOffset, streams, clientPaths>>, \A k \in Jobs : Busy(k)' <=> Busy(k),
             \A k \in Jobs : Busy(k) => job'[k] = job[k] /\ To(k)' = To(k)
      PROVE  OffsetsAgree'
  <2>1. \A t : (NoFrames(t)' <=> NoFrames(t)) /\ \A e : EndsAt(t, e)' <=> EndsAt(t, e)
    BY <1>2 DEF NoFrames, EndsAt
  <2>2. \A t : Disturbed(t)' <=> Disturbed(t)
    BY <1>2 DEF Disturbed
  <2>3. ASSUME NEW t \in Target, RestingOffset(t) PROVE RestingOffset(t)'
    BY <1>2, <2>1, <2>3 DEF RestingOffset
  <2>4. ASSUME NEW j \in Jobs, Busy(j)' PROVE Disturbed(To(j))' \/ OffsetOfJob(j)'
    <3>1. Busy(j) /\ To(j)' = To(j) /\ job'[j] = job[j] /\ UNCHANGED <<readOffset, offset, placed>>
      BY <1>2, <2>4
    <3>2. CASE OffsetOfJob(j)
      BY <3>1, <3>2 DEF OffsetOfJob, EndsAt, NoFrames
    <3>3. CASE Disturbed(To(j))
      BY <1>2, <3>1, <3>3 DEF Disturbed
    <3> QED
      BY <3>1, <3>2, <3>3 DEF OffsetsAgree
  <2> QED
    BY <2>2, <2>3, <2>4 DEF OffsetsAgree
<1>3. ASSUME NEW a \in Callers, NEW s \in Streams, NEW d \in Data, SendRawData(a, s, d) PROVE OffsetsAgree'
  <2>1. UNCHANGED <<job, readOffset, streams, clientPaths>>
    BY <1>3 DEF SendRawData, client
  <2>2. \A k \in Jobs : (Busy(k)' <=> Busy(k)) /\ (Busy(k) => job'[k] = job[k] /\ To(k)' = To(k))
    BY <1>3, <2>1, TargetsStay DEF Busy
  <2> QED
    BY <1>2, <2>1, <2>2
<1>4. ASSUME NEW d \in Data, ReceiveRelayData(d) PROVE OffsetsAgree'
  <2>1. /\ UNCHANGED <<target, readOffset, streams, clientPaths>>
        /\ \A k \in Jobs : job[k] # "none" => job'[k] = job[k]
        /\ \A k \in Jobs : job'[k] \in {job[k], "find"}
    BY <1>0, <1>4, FreshJob
  <2>2. \A k \in Jobs : (Busy(k)' <=> Busy(k)) /\ (Busy(k) => job'[k] = job[k] /\ To(k)' = To(k))
    BY <2>1 DEF Busy, To
  <2> QED
    BY <1>2, <2>1, <2>2
<1>5. ASSUME NEW j \in Jobs, HandleRelayDataFrame(j) PROVE OffsetsAgree'
  <2>1. /\ \A t \in Target \ {To(j)} : Disturbed(t)' \/ RestingOffset(t)'
        /\ \A k \in Jobs \ {j} : Busy(k)' => Disturbed(To(k))' \/ OffsetOfJob(k)'
    BY <1>5, OthersUndisturbed
  <2>2. PICK t \in Target : t = To(j) /\ t = To(j)'
    BY <1>0, <1>5, OneJobMoves
  <2>3. Disturbed(t)' \/ (RestingOffset(t)' /\ (Busy(j)' => OffsetOfJob(j)'))
    <3>1. Disturbed(t)' <=> Disturbed(To(j))'
      BY <2>2 DEF Disturbed
    <3>2. RestingOffset(To(j))' => RestingOffset(t)'
      BY <2>2 DEF RestingOffset, NoFrames, EndsAt
    <3> QED
      BY <1>5, <3>1, <3>2, OwnOffsetStep
  <2>4. Disturbed(t)' => Disturbed(To(j))'
    BY <2>2 DEF Disturbed
  <2> QED
    BY <2>1, <2>2, <2>3, <2>4 DEF OffsetsAgree
<1>6. CASE StreamActions
  <2>1. /\ UNCHANGED <<target, job, readOffset, placed, overlapped>>
        /\ clientPaths' \subseteq clientPaths /\ shut \subseteq shut'
        /\ \A t \in Target : offset'[t] = offset[t] \/ Disturbed(t)'
    BY <1>0, <1>6, StreamActionsLose DEF Lost, Disturbed
  <2>2. \A t \in Target : Disturbed(t) => Disturbed(t)'
    BY <2>1 DEF Disturbed
  <2>3. ASSUME NEW t \in Target, RestingOffset(t) PROVE Disturbed(t)' \/ RestingOffset(t)'
    <3>1. CASE offset'[t] = offset[t]
      BY <2>1, <2>3, <3>1 DEF RestingOffset, NoFrames, EndsAt, Busy, To
    <3> QED
      BY <2>1, <3>1
  <2>4. ASSUME NEW j \in Jobs, Busy(j)' PROVE Disturbed(To(j))' \/ OffsetOfJob(j)'
    <3>1. Busy(j) /\ To(j)' = To(j) /\ To(j) \in Target
      BY <1>0, <2>1, <2>4 DEF Busy, To
    <3>2. PICK t \in Target : t = To(j)
      BY <3>1
    <3>3. Disturbed(t)' => Disturbed(To(j))'
      BY <3>1, <3>2 DEF Disturbed
    <3>4. CASE Disturbed(t)'
      BY <3>3, <3>4
    <3>5. CASE OffsetOfJob(j) /\ offset'[t] = offset[t]
      BY <2>1, <3>1, <3>2, <3>5 DEF OffsetOfJob, EndsAt, NoFrames
    <3>6. Disturbed(t) \/ OffsetOfJob(j)
      BY <3>1, <3>2 DEF OffsetsAgree
    <3> QED
      BY <2>1, <2>2, <3>4, <3>5, <3>6
  <2> QED
    BY <2>2, <2>3, <2>4 DEF OffsetsAgree
<1> QED
  BY <1>1, <1>3, <1>4, <1>5, <1>6, NextSorted

\* Frames placed while their stream is undisturbed follow on each other.
LEMMA FollowStep ==
    Types /\ WorkIsForData /\ OffsetsAgree /\ FramesFollow /\ [Next]_vars => FramesFollow'
<1> SUFFICES ASSUME Types, WorkIsForData, OffsetsAgree, FramesFollow, [Next]_vars PROVE FramesFollow'
  OBVIOUS
<1> USE DEF relayData, streams, table
<1>0. PathTypes /\ DataTypes /\ \A i \in DOMAIN placed : \E d \in DOMAIN target : placed[i].to = target[d]
  BY TypeHalves DEF WorkIsForData
<1>1. ASSUME UNCHANGED placed, \A d \in DOMAIN target : Disturbed(target[d]) => Disturbed(target[d])',
             \A d \in DOMAIN target : target'[d] = target[d]
      PROVE  FramesFollow'
  <2>1. ASSUME NEW i \in DOMAIN placed PROVE Disturbed(placed[i].to)' \/ FollowsOn(i)'
    <3>1. PICK d \in DOMAIN target : placed[i].to = target[d]
      BY <1>0
    <3>2. Disturbed(placed[i].to) => Disturbed(placed[i].to)'
      BY <1>1, <3>1 DEF Disturbed
    <3>3. FollowsOn(i) => FollowsOn(i)'
      BY <1>1 DEF FollowsOn, Before
    <3> QED
      BY <3>2, <3>3 DEF FramesFollow
  <2> QED
    BY <1>1, <2>1 DEF FramesFollow
<1>2. CASE PathActions
  BY <1>0, <1>1, <1>2, PathActionsKeepData, PathsDisturb
<1>3. ASSUME NEW a \in Callers, NEW s \in Streams, NEW d \in Data, SendRawData(a, s, d) PROVE FramesFollow'
  <2>1. UNCHANGED <<streams, clientPaths>> /\ \A e \in DOMAIN target : target'[e] = target[e]
    BY <1>3 DEF SendRawData, client
  <2> QED
    BY <1>1, <2>1 DEF Disturbed
<1>4. ASSUME NEW d \in Data, ReceiveRelayData(d) PROVE FramesFollow'
  BY <1>0, <1>1, <1>4, FreshJob DEF Disturbed
<1>5. ASSUME NEW j \in Jobs, HandleRelayDataFrame(j) PROVE FramesFollow'
  <2>1. /\ UNCHANGED <<target, shut, clientPaths>>
        /\ j[1] \in DOMAIN target /\ j[1] \in Data /\ To(j) \in Target
    BY <1>0, <1>5, OneJobMoves
  <2>2. overlapped \subseteq overlapped'
    BY <1>5 DEF HandleRelayDataFrame, FindPath, OpenStream, LookAgain, PutStream, JoinStream, ReadWriteOffset,
                IncrementWriteOffset, SubmitData
  <2>3. CASE UNCHANGED placed
    BY <1>1, <2>1, <2>2, <2>3 DEF Disturbed
  <2>4. CASE ~UNCHANGED placed
    <3>1. /\ job[j] = "submit" /\ Placing(FrameOf(j)) /\ UNCHANGED overlapped
      BY <1>0, <1>5, <2>1, <2>4, Submissions
    <3>2. PICK f \in Frame : f = FrameOf(j)
      BY <1>0, <2>1 DEF FrameOf, Frame, DataTypes
    <3>3. PICK last : last = Len(placed) + 1
      OBVIOUS
    <3>4. Disturbed(f.to) \/ EndsAt(f.to, f.offset)
      <4>1. Disturbed(To(j)) \/ OffsetOfJob(j)
        BY <3>1 DEF OffsetsAgree, Busy
      <4> QED
        BY <3>1, <3>2, <4>1 DEF OffsetOfJob, FrameOf
    <3>5. Disturbed(f.to)' \/ FollowsOn(last)'
      <4>1. Disturbed(f.to) => Disturbed(f.to)'
        BY <2>1, <3>1 DEF Disturbed
      <4>2. EndsAt(f.to, f.offset) => FollowsOn(last)'
        BY <3>1, <3>2, <3>3, FrameFollows
      <4> QED
        BY <3>4, <4>1, <4>2
    <3>6. ASSUME NEW i \in DOMAIN placed PROVE Disturbed(placed[i].to)' \/ FollowsOn(i)'
      <4>1. FollowsOn(i) => FollowsOn(i)'
        BY <3>1, EarlierFollow
      <4>2. placed'[i] = placed[i]
        BY <3>1 DEF Placing
      <4>3. Disturbed(placed[i].to) => Disturbed(placed[i].to)'
        BY <2>1, <3>1, <4>2 DEF Disturbed
      <4> QED
        BY <4>1, <4>3 DEF FramesFollow
    <3>7. /\ \A i \in DOMAIN placed' : i \in DOMAIN placed \/ i = last
          /\ placed'[last] = f
      BY <3>1, <3>2, <3>3 DEF Placing
    <3>8. Disturbed(f.to)' => Disturbed(placed[last].to)'
      BY <3>7 DEF Disturbed
    <3> QED
      BY <3>5, <3>6, <3>7, <3>8 DEF FramesFollow
  <2> QED
    BY <2>3, <2>4
<1>6. CASE StreamActions
  <2>1. UNCHANGED <<placed, target, overlapped>> /\ clientPaths' \subseteq clientPaths /\ shut \subseteq shut'
    BY <1>0, <1>6, StreamActionsLose
  <2> QED
    BY <1>1, <2>1 DEF Disturbed
<1> QED
  BY <1>2, <1>3, <1>4, <1>5, <1>6, NextSorted

-----------------------------------------------------------------------------
(***************************************************************************)
(* Data dealt with and frames submitted                                    *)
(***************************************************************************)

\* What was lost stays lost: path numbers do not come back.
LEMMA LostStays ==
    ASSUME Types, WorkIsForData, [Next]_vars, NEW k \in Jobs, job[k] # "none"
    PROVE  To(k)' = To(k) /\ To(k) \in Target /\ (Lost(To(k)) => Lost(To(k))')
<1> USE DEF relayData, streams, table, client
<1>0. /\ PathTypes /\ DataTypes /\ nextPathID \in Nat
      /\ k[1] \in DOMAIN target /\ To(k) \in Target /\ To(k).path \in Nat /\ To(k).path <= nextPathID
  <2>1. PathTypes /\ DataTypes
    BY TypeHalves
  <2>2. nextPathID \in Nat
    BY <2>1, RelayConstants DEF PathTypes
  <2>3. k[1] \in DOMAIN target /\ To(k) \in Target /\ To(k).path <= nextPathID
    BY <2>1 DEF WorkIsForData, DataTypes, To
  <2> QED
    BY <2>1, <2>2, <2>3, RelayConstants DEF Target, RelayPaths
<1>1. ASSUME To(k)' = To(k), shut \subseteq shut', \A p \in clientPaths' : p \in clientPaths \/ p > nextPathID
      PROVE  To(k)' = To(k) /\ To(k) \in Target /\ (Lost(To(k)) => Lost(To(k))')
  BY <1>0, <1>1 DEF Lost
<1>2. CASE PathActions
  <2>1. UNCHANGED <<target, shut>>
    BY <1>2, PathActionsKeepData
  <2> QED
    BY <1>0, <1>1, <1>2, <2>1, PathNumbers DEF To
<1>3. ASSUME NEW a \in Callers, NEW s \in Streams, NEW d \in Data, SendRawData(a, s, d)
      PROVE  To(k)' = To(k) /\ UNCHANGED <<shut, clientPaths>>
  BY <1>3, TargetsStay DEF SendRawData
<1>4. ASSUME NEW d \in Data, ReceiveRelayData(d) PROVE To(k)' = To(k) /\ UNCHANGED <<shut, clientPaths>>
  BY <1>0, <1>4, FreshJob DEF To
<1>5. ASSUME NEW j \in Jobs, HandleRelayDataFrame(j) PROVE To(k)' = To(k) /\ UNCHANGED <<shut, clientPaths>>
  BY <1>0, <1>5, OneJobMoves
<1>6. CASE StreamActions
  BY <1>0, <1>1, <1>6, StreamActionsLose DEF To
<1> QED
  BY <1>1, <1>2, <1>3, <1>4, <1>5, <1>6, NextSorted

\* A goroutine closes no stream.
LEMMA JobsKeepOpen ==
    ASSUME DataTypes, WorkIsForData, NEW j \in Jobs, HandleRelayDataFrame(j), NEW t \in Target, offset[t] # Closed
    PROVE  offset'[t] # Closed
<1> USE DEF streams, table
<1>1. /\ To(j) \in Target /\ j[1] \in Nat /\ offset \in [Target -> Nat \cup {Closed}]
      /\ \A u \in Target \ {To(j)} : offset'[u] = offset[u]
  BY RelayConstants, OneJobMoves DEF DataTypes
<1>2. \A n \in Nat : n # Closed
  BY DEF Closed
<1>3. CASE t = To(j)
  <2>1. offset'[t] \in {offset[t], 0, offset[t] + j[1]}
    BY <1>1, <1>3 DEF HandleRelayDataFrame, FindPath, OpenStream, LookAgain, PutStream, JoinStream,
                      ReadWriteOffset, IncrementWriteOffset, SubmitData
  <2>2. offset[t] \in Nat /\ offset[t] + j[1] \in Nat
    BY <1>1
  <2> QED
    BY <1>2, <2>1, <2>2
<1> QED
  BY <1>1, <1>3

\* Who looks a third time finds the stream open, unless it was lost meanwhile.
LEMMA AgainStep == Types /\ WorkIsForData /\ AgainIsOpen /\ [Next]_vars => AgainIsOpen'
<1> SUFFICES ASSUME Types, WorkIsForData, AgainIsOpen, [Next]_vars, NEW k \in Jobs, job'[k] = "again",
                    ~Lost(To(k))'
             PROVE  offset'[To(k)'] # Closed
  BY DEF AgainIsOpen, At, Lost
<1> USE DEF relayData, streams, table
<1>0. PathTypes /\ DataTypes
  BY TypeHalves
\* It was open, and nothing has closed it.
<1>1. ASSUME job[k] = "again", \A t \in Target : offset[t] # Closed => offset'[t] # Closed \/ Lost(t)'
      PROVE  offset'[To(k)'] # Closed
  <2>1. To(k)' = To(k) /\ To(k) \in Target /\ ~Lost(To(k))
    BY <1>1, LostStays DEF Lost
  <2>2. PICK t \in Target : t = To(k)
    BY <2>1
  <2>3. ~Lost(t)'
    BY <2>1, <2>2 DEF Lost
  <2>4. offset[t] # Closed
    BY <1>1, <2>1, <2>2 DEF AgainIsOpen, At, Lost
  <2> QED
    BY <1>1, <2>1, <2>2, <2>3, <2>4
<1>2. CASE PathActions
  BY <1>1, <1>2, PathActionsKeepData
<1>3. ASSUME NEW a \in Callers, NEW s \in Streams, NEW d \in Data, SendRawData(a, s, d)
      PROVE  offset'[To(k)'] # Closed
  BY <1>1, <1>3 DEF SendRawData
<1>4. ASSUME NEW d \in Data, ReceiveRelayData(d) PROVE offset'[To(k)'] # Closed
  BY <1>0, <1>1, <1>4, FreshJob
<1>5. ASSUME NEW j \in Jobs, HandleRelayDataFrame(j) PROVE offset'[To(k)'] # Closed
  <2>1. CASE job[k] = "again"
    BY <1>0, <1>1, <1>5, <2>1, JobsKeepOpen
  <2>2. CASE job[k] # "again"
    <3>1. k = j /\ To(j)' = To(j)
      BY <1>0, <1>5, <2>2, OneJobMoves
    <3>2. OpenStream(j)
      BY <1>0, <1>5, <2>2, <3>1
         DEF HandleRelayDataFrame, FindPath, LookAgain, PutStream, JoinStream, ReadWriteOffset,
             IncrementWriteOffset, SubmitData, GoTo, DataTypes
    <3> QED
      BY <1>0, <3>1, <3>2 DEF OpenStream, GoTo, DataTypes
  <2> QED
    BY <2>1, <2>2
<1>6. CASE StreamActions
  BY <1>0, <1>1, <1>6, StreamActionsLose
<1> QED
  BY <1>2, <1>3, <1>4, <1>5, <1>6, NextSorted

\* The frame of the goroutine k was submitted.
HasFrame(k) == \E i \in DOMAIN placed : placed[i].data = k[1] /\ placed[i].to = To(k)

\* Who is done has submitted its frame, unless the stream was lost.
LEMMA SubmittedStep == Types /\ WorkIsForData /\ AgainIsOpen /\ RelayedIsSubmitted /\ [Next]_vars => RelayedIsSubmitted'
<1> SUFFICES ASSUME Types, WorkIsForData, AgainIsOpen, RelayedIsSubmitted, [Next]_vars,
                    NEW k \in Jobs, job'[k] = "done", ~Lost(To(k))'
             PROVE  HasFrame(k)'
  BY DEF RelayedIsSubmitted, HasFrame, At, Lost
<1> USE DEF relayData, streams, table
<1>0. PathTypes /\ DataTypes
  BY TypeHalves
\* Its frame stays where it is.
<1>1. ASSUME job[k] = "done", \A i \in DOMAIN placed : i \in DOMAIN placed' /\ placed'[i] = placed[i]
      PROVE  HasFrame(k)'
  <2>1. To(k)' = To(k) /\ ~Lost(To(k))
    BY <1>1, LostStays
  <2>2. HasFrame(k)
    BY <1>1, <2>1 DEF RelayedIsSubmitted, HasFrame, At, Lost
  <2> QED
    BY <1>1, <2>1, <2>2 DEF HasFrame
<1>2. CASE PathActions
  BY <1>1, <1>2, PathActionsKeepData
<1>3. ASSUME NEW a \in Callers, NEW s \in Streams, NEW d \in Data, SendRawData(a, s, d) PROVE HasFrame(k)'
  BY <1>1, <1>3 DEF SendRawData
<1>4. ASSUME NEW d \in Data, ReceiveRelayData(d) PROVE HasFrame(k)'
  BY <1>0, <1>1, <1>4, FreshJob
<1>5. ASSUME NEW j \in Jobs, HandleRelayDataFrame(j) PROVE HasFrame(k)'
  <2>1. /\ \A i \in Jobs \ {j} : job'[i] = job[i]
        /\ UNCHANGED clientPaths /\ To(j)' = To(j) /\ To(j) \in Target /\ j[1] \in Data /\ job[j] \in AtWork
    BY <1>0, <1>5, OneJobMoves
  <2>2. CASE job[k] = "done"
    <3>1. UNCHANGED placed \/ Placing(FrameOf(j))
      BY <1>0, <1>5, <2>1, Submissions
    <3>2. \A i \in DOMAIN placed : i \in DOMAIN placed' /\ placed'[i] = placed[i]
      BY <3>1 DEF Placing
    <3> QED
      BY <1>1, <2>2, <3>2
  <2>3. CASE job[k] # "done"
    <3>1. k = j /\ ~Lost(To(j)) /\ To(j).path \in clientPaths
      <4>1. k = j
        BY <2>1, <2>3
      <4>2. job[j] # "none"
        BY <2>1 DEF AtWork
      <4>3. ~Lost(To(j))
        BY <4>1, <4>2, LostStays
      <4> QED
        BY <4>1, <4>3 DEF Lost
    <3>2. CASE FindPath(j)
      <4>1. GoTo(j, "open") \/ GoTo(j, "offset")
        BY <3>1, <3>2 DEF FindPath
      <4>2. job'[j] # "done"
        BY <1>0, <4>1 DEF GoTo, DataTypes
      <4> QED
        BY <3>1, <4>2
    <3>3. CASE LookAgain(j)
      <4>1. offset[To(j)] # Closed
        BY <3>1, <3>3 DEF LookAgain, AgainIsOpen, Lost
      <4>2. job'[j] # "done"
        BY <1>0, <3>3, <4>1 DEF LookAgain, GoTo, DataTypes
      <4> QED
        BY <3>1, <4>2
    <3>4. CASE SubmitData(j)
      <4>1. PICK f \in Frame : f = FrameOf(j)
        BY <1>0, <2>1 DEF FrameOf, Frame, DataTypes
      <4>2. placed' = Append(placed, f) /\ placed \in Seq(Frame)
        BY <1>0, <3>1, <3>4, <4>1 DEF SubmitData, FrameOf, DataTypes
      <4>3. Placing(f)
        BY <4>1, <4>2, AppendProperties, LenProperties DEF Placing
      <4>4. PICK last : last = Len(placed) + 1
        OBVIOUS
      <4>5. last \in DOMAIN placed' /\ placed'[last] = f
        BY <4>3, <4>4 DEF Placing
      <4>6. placed'[last].data = j[1] /\ placed'[last].to = To(j)
        BY <4>1, <4>5 DEF FrameOf
      <4> QED
        BY <2>1, <3>1, <4>5, <4>6 DEF HasFrame
    <3>5. CASE OpenStream(j) \/ PutStream(j) \/ JoinStream(j) \/ ReadWriteOffset(j) \/ IncrementWriteOffset(j)
      <4>1. job'[j] # "done"
        BY <1>0, <3>5 DEF OpenStream, PutStream, JoinStream, ReadWriteOffset, IncrementWriteOffset, GoTo, DataTypes
      <4> QED
        BY <3>1, <4>1
    <3> QED
      BY <1>5, <3>2, <3>3, <3>4, <3>5 DEF HandleRelayDataFrame
  <2> QED
    BY <2>2, <2>3
<1>6. CASE StreamActions
  BY <1>0, <1>1, <1>6, StreamActionsLose
<1> QED
  BY <1>2, <1>3, <1>4, <1>5, <1>6, NextSorted

-----------------------------------------------------------------------------
(***************************************************************************)
(* Theorems                                                                *)
(***************************************************************************)

\* Every reachable state satisfies the invariant.
THEOREM RelayInvariant == Spec => []RelayInv
<1>1. RelayInv /\ [Next]_vars => RelayInv'
  <2> SUFFICES ASSUME RelayInv, [Next]_vars PROVE RelayInv'
    OBVIOUS
  <2>1. Types' /\ AnswersAreReal' /\ RelayIsReal'
    <3>1. PathTypes /\ DataTypes /\ WorkIsForData /\ AnswersAreReal /\ RelayIsReal
      BY TypeHalves DEF RelayInv
    <3>2. PathTypes'
      BY <3>1, PathTypeStep
    <3>3. DataTypes'
      BY DataTypeStep DEF RelayInv
    <3>4. Types'
      BY <3>2, <3>3, TypeHalves, PTL
    <3>5. AnswersAreReal' /\ RelayIsReal'
      BY <3>1, RealStep
    <3> QED
      BY <3>4, <3>5
  <2>2. WorkIsForData' /\ OpenIsJoined' /\ OverlapIsSeen'
    BY WorkStep, JoinedStep, OverlapStep DEF RelayInv
  <2>3. OffsetsAgree' /\ FramesFollow' /\ AgainIsOpen' /\ RelayedIsSubmitted'
    BY <2>2, OffsetsStep, FollowStep, AgainStep, SubmittedStep DEF RelayInv
  <2> QED
    BY <2>1, <2>2, <2>3 DEF RelayInv
<1> QED
  BY InitRelay, <1>1, PTL DEF Spec

\* Every variable has the shape the source gives it.
THEOREM TypeCorrect == Spec => []TypeOK
<1>1. RelayInv => TypeOK
  BY DEF RelayInv, Types
<1> QED
  BY RelayInvariant, <1>1, PTL

\* However many calls of AddRelay cross, whichever answers reach the wrong call: a returned relay names a
\* path that was opened to its address, and is the one of the table.
THEOREM RelayIsRealHolds == Spec => []RelayIsReal
<1>1. RelayInv => RelayIsReal
  BY DEF RelayInv
<1> QED
  BY RelayInvariant, <1>1, PTL

\* However the client's opening and closing of streams and the relaying of data interleave: a relay path
\* that has a stream of the stream manager open is known to it, or about to be, unless the path had opened
\* the stream before the client created it.
THEOREM OpenIsJoinedHolds == Spec => []OpenIsJoined
<1>1. RelayInv => OpenIsJoined
  BY DEF RelayInv
<1> QED
  BY RelayInvariant, <1>1, PTL

\* For any data items and any number of copies, the frames of a stream that is not disturbed follow on
\* each other: the write offset read by a goroutine is where the frames before its own end.
THEOREM FramesFollowHolds == Spec => []FramesFollow
<1>1. RelayInv => FramesFollow
  BY DEF RelayInv
<1> QED
  BY RelayInvariant, <1>1, PTL

\* Data that a goroutine has dealt with was submitted where it belongs, unless the relay path was lost or
\* the stream closed on it meanwhile.
THEOREM RelayedIsSubmittedHolds == Spec => []RelayedIsSubmitted
<1>1. RelayInv => RelayedIsSubmitted
  BY DEF RelayInv
<1> QED
  BY RelayInvariant, <1>1, PTL

=============================================================================
