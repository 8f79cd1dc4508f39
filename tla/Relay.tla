------------------------------- MODULE Relay -------------------------------
(***************************************************************************)
(* Relays: a server asks its client to dial another server, and sends data *)
(* to that server through the client (internal/transport/path_manager.go,  *)
(* relay.go and the relay frames of path.go).                              *)
(*                                                                         *)
(*   server: AddRelay  -- AddPath --> client: OpenPath                     *)
(*   server: AddRelay <-- AddPathResp -- client                            *)
(*   server: SendRawData -- RelayData --> client -- StreamFrame --> relay  *)
(*                                                                         *)
(* Callers are concurrent calls of AddRelay; caller a asks for an address  *)
(* of its own, which the model calls a.  All frames travel on the primary  *)
(* path.  A frame that has been submitted arrives in any order with the    *)
(* others, several times or never: the packer retransmits, and             *)
(* SendRawData submits again what a failed write has left pending.  Every  *)
(* frame that arrives gets a goroutine.                                    *)
(*                                                                         *)
(* Data item d has d bytes; the application sends it once.                 *)
(***************************************************************************)
EXTENDS Integers, Sequences

CONSTANTS
    Callers,    \* calls of AddRelay; also the addresses they ask for
    Streams,    \* numbers of streams of the client that data may be relayed on
    MaxPath,    \* bound: the last path the client opens (path 1 is the primary one)
    Data,       \* what is relayed: items, named by their sizes
    MaxControl, \* bound: how often a frame about a path arrives
    MaxCopies,  \* bound: how often a frame with data arrives
    Nobody

ASSUME RelayConstants ==
    /\ Streams \subseteq Nat \ {0}
    /\ MaxPath \in Nat \ {0} /\ Data \subseteq Nat \ {0} /\ MaxControl \in Nat \ {0} /\ MaxCopies \in Nat \ {0}
    /\ Nobody \notin Callers

RelayPaths == 2 .. MaxPath
Response == [address : Callers, path : RelayPaths]
Target == [path : RelayPaths, stream : Streams]
Jobs == Data \X (1 .. MaxCopies)
Closed == -1    \* the offset of a stream that is not open on a path
None == [address |-> Nobody]

VARIABLES
    primaryUp,     \* the primary path works
    caller,        \* AddRelay: where the call is
    respChannel,   \* server: addPathRespChannel, named by the call that made it
    channel,       \* the response in each call's channel (buffer of one)
    relay,         \* the relay each call has returned
    relays,        \* server: pm.relays, as the set of what it holds
    asked,         \* copies of each caller's AddPath frame under way
    answers,       \* copies of each AddPathResp frame under way
    answering,     \* goroutines of handleAddPathResp that have loaded the channel
    opening,       \* goroutines of the client that open a path, by address
    nextPathID,    \* client: pm.nextPathID
    dialled,       \* client: the address of each path it has opened
    clientPaths,   \* client: pm.paths without the primary one
    target,        \* where each data item was sent; what is not in it was not sent
    copies,        \* copies of each RelayData frame under way
    job,           \* handleRelayDataFrame: where each goroutine is
    offset,        \* client: path.streams, the write offset of each open stream
    readOffset,    \* the offset a goroutine has read
    managed,       \* client: the streams of the stream manager
    joined,        \* client: the relay paths added to each of these streams
    placed,        \* stream frames submitted on the relay paths, in order
    created,       \* history: streams the client has created
    early,         \* history: open on a relay path before the client created the stream
    shut,          \* history: closed on a relay path by CloseStream
    overlapped     \* history: streams for which two goroutines were at work at once

server == <<caller, respChannel, channel, relay, relays>>
answerFrames == <<asked, answers, answering>>
client == <<opening, nextPathID, dialled, clientPaths>>
relayData == <<target, copies, job, readOffset>>
table == <<managed, created, early>>
streams == <<offset, table, joined, placed, shut, overlapped>>
vars == <<primaryUp, server, answerFrames, client, relayData, streams>>

Init ==
    /\ primaryUp = TRUE
    /\ caller = [a \in Callers |-> "idle"]
    /\ respChannel = Nobody
    /\ channel = [a \in Callers |-> None] /\ relay = [a \in Callers |-> None]
    /\ relays = {}
    /\ asked = [a \in Callers |-> 0] /\ answers = [r \in Response |-> 0] /\ answering = {}
    /\ opening = [a \in Callers |-> 0] /\ nextPathID = 1
    /\ dialled = <<>> /\ clientPaths = {}
    /\ target = <<>> /\ copies = [d \in Data |-> 0]
    /\ job = [j \in Jobs |-> "none"] /\ readOffset = [j \in Jobs |-> 0]
    /\ offset = [t \in Target |-> Closed]
    /\ managed = {} /\ joined = {} /\ placed = <<>>
    /\ created = {} /\ early = {} /\ shut = {} /\ overlapped = {}

(***************************************************************************)
(* The server: AddRelay                                                    *)
(***************************************************************************)

\* The primary path is looked up, and the call's channel made.
FindPrimary(a) ==
    /\ caller[a] = "idle"
    /\ caller' = [caller EXCEPT ![a] = IF primaryUp THEN "register" ELSE "failed"]
    /\ UNCHANGED <<primaryUp, respChannel, channel, relay, relays, answerFrames, client, relayData, streams>>

\* registerAddPathRespHandler: the channel of another call is replaced.
RegisterHandler(a) ==
    /\ caller[a] = "register"
    /\ caller' = [caller EXCEPT ![a] = "submit"]
    /\ respChannel' = a
    /\ UNCHANGED <<primaryUp, channel, relay, relays, answerFrames, client, relayData, streams>>

\* SubmitFrame; its error is ignored.
SubmitAddPath(a) ==
    /\ caller[a] = "submit"
    /\ caller' = [caller EXCEPT ![a] = "wait"]
    /\ asked' = [asked EXCEPT ![a] = MaxControl]
    /\ UNCHANGED <<primaryUp, respChannel, channel, relay, relays, answers, answering, client, relayData,
                   streams>>

\* Mutant: the relay gets the address asked for.
TakeOwnAddress(a) ==
    /\ caller[a] = "wait" /\ channel[a] # None
    /\ caller' = [caller EXCEPT ![a] = "returned"]
    /\ channel' = [channel EXCEPT ![a] = None]
    /\ LET r == [channel[a] EXCEPT !.address = a]
       IN  /\ relay' = [relay EXCEPT ![a] = r]
           /\ relays' = {q \in relays : q.path # r.path} \cup {r}
    /\ UNCHANGED <<primaryUp, respChannel, answerFrames, client, relayData, streams>>

\* The response makes the relay, whichever call it answers.
TakeResponse(a) ==
    /\ caller[a] = "wait" /\ channel[a] # None
    /\ caller' = [caller EXCEPT ![a] = "returned"]
    /\ channel' = [channel EXCEPT ![a] = None]
    /\ LET r == channel[a]
       IN  /\ relay' = [relay EXCEPT ![a] = r]
           /\ relays' = {q \in relays : q.path # r.path} \cup {r}
    /\ UNCHANGED <<primaryUp, respChannel, answerFrames, client, relayData, streams>>

\* Ten seconds are over: whatever channel is registered goes.
TimeOut(a) ==
    /\ caller[a] = "wait"
    /\ caller' = [caller EXCEPT ![a] = "failed"]
    /\ respChannel' = Nobody
    /\ UNCHANGED <<primaryUp, channel, relay, relays, answerFrames, client, relayData, streams>>

\* handleAddPathResp loads the channel under the lock, ...
ReceiveAddPathResp(r) ==
    /\ primaryUp /\ answers[r] > 0
    /\ answers' = [answers EXCEPT ![r] = @ - 1]
    /\ answering' = IF respChannel = Nobody THEN answering
                    ELSE answering \cup {[response |-> r, to |-> respChannel]}
    /\ UNCHANGED <<primaryUp, server, asked, client, relayData, streams>>

\* ... and sends without it; a full channel drops the response.
ForwardResponse(g) ==
    /\ g \in answering
    /\ answering' = answering \ {g}
    /\ channel' = [channel EXCEPT ![g.to] = IF @ = None THEN g.response ELSE @]
    /\ UNCHANGED <<primaryUp, caller, respChannel, relay, relays, asked, answers, client, relayData, streams>>

(***************************************************************************)
(* The client opens paths                                                  *)
(***************************************************************************)

ReceiveAddPath(a) ==
    /\ primaryUp /\ asked[a] > 0
    /\ asked' = [asked EXCEPT ![a] = @ - 1]
    /\ opening' = [opening EXCEPT ![a] = @ + 1]
    /\ UNCHANGED <<primaryUp, server, answers, answering, nextPathID, dialled, clientPaths, relayData, streams>>

\* OpenPath, and the response with the path it has returned.
OpenPath(a) ==
    /\ opening[a] > 0 /\ nextPathID < MaxPath
    /\ opening' = [opening EXCEPT ![a] = @ - 1]
    /\ LET p == nextPathID + 1
       IN  /\ nextPathID' = p
           /\ dialled' = [q \in DOMAIN dialled \cup {p} |-> IF q = p THEN a ELSE dialled[q]]
           /\ clientPaths' = clientPaths \cup {p}
           /\ answers' = [answers EXCEPT ![[address |-> a, path |-> p]] = MaxControl]
    /\ UNCHANGED <<primaryUp, server, asked, answering, relayData, streams>>

\* The dial fails, or NewPath does and a path number is used up.
OpenPathFails(a) ==
    /\ opening[a] > 0
    /\ opening' = [opening EXCEPT ![a] = @ - 1]
    /\ nextPathID' \in {nextPathID, nextPathID + 1} \cap (1 .. MaxPath)
    /\ UNCHANGED <<primaryUp, server, answerFrames, dialled, clientPaths, relayData, streams>>

\* A path of the client fails and leaves its table.
LosePath(p) ==
    /\ p \in clientPaths
    /\ clientPaths' = clientPaths \ {p}
    /\ UNCHANGED <<primaryUp, server, answerFrames, opening, nextPathID, dialled, relayData, streams>>

\* The session closes a path, which forgets its streams.
ClosePath(p) ==
    /\ p \in clientPaths
    /\ clientPaths' = clientPaths \ {p}
    /\ offset' = [t \in Target |-> IF t.path = p THEN Closed ELSE offset[t]]
    /\ UNCHANGED <<primaryUp, server, answerFrames, opening, nextPathID, dialled, relayData, table, joined,
                   placed, shut, overlapped>>

\* The primary path fails or is closed.
LosePrimary ==
    /\ primaryUp
    /\ primaryUp' = FALSE
    /\ UNCHANGED <<server, answerFrames, client, relayData, streams>>

(***************************************************************************)
(* Relayed data                                                            *)
(***************************************************************************)

\* The relay stays active for ever; a frame that no attempt has submitted is not sent.
SendRawData(a, s, d) ==
    /\ relay[a] # None /\ d \notin DOMAIN target
    /\ target' = [e \in DOMAIN target \cup {d} |->
                    IF e = d THEN [path |-> relay[a].path, stream |-> s] ELSE target[e]]
    /\ \E n \in 1 .. MaxCopies : copies' = [copies EXCEPT ![d] = n]
    /\ UNCHANGED <<primaryUp, server, answerFrames, client, job, readOffset, streams>>

ReceiveRelayData(d) ==
    /\ primaryUp /\ copies[d] > 0
    /\ copies' = [copies EXCEPT ![d] = @ - 1]
    /\ job' = [job EXCEPT ![<<d, copies[d]>>] = "find"]
    /\ UNCHANGED <<primaryUp, server, answerFrames, client, target, readOffset, streams>>

At(j, pc) == job[j] = pc
GoTo(j, pc) == job' = [job EXCEPT ![j] = pc]
To(j) == target[j[1]]
Busy(j) == job[j] \in {"open", "create", "again", "join", "offset", "advance", "submit"}

\* GetPath and HasStream.
FindPath(j) ==
    /\ At(j, "find")
    /\ \/ /\ To(j).path \notin clientPaths
          /\ GoTo(j, "done")
          /\ UNCHANGED overlapped
       \/ /\ To(j).path \in clientPaths
          /\ GoTo(j, IF offset[To(j)] # Closed THEN "offset" ELSE "open")
          /\ overlapped' = IF \E k \in Jobs \ {j} : Busy(k) /\ To(k) = To(j)
                           THEN overlapped \cup {To(j)} ELSE overlapped
    /\ UNCHANGED <<primaryUp, server, answerFrames, client, target, copies, readOffset, offset, table,
                   joined, placed, shut>>

\* Mutant: who finds that the stream has been opened meanwhile gives up.
OpenOrDrop(j) ==
    /\ At(j, "open")
    /\ GoTo(j, IF offset[To(j)] # Closed THEN "done" ELSE "create")
    /\ UNCHANGED <<primaryUp, server, answerFrames, client, target, copies, readOffset, streams>>

\* OpenStream looks for the stream as well.
OpenStream(j) ==
    /\ At(j, "open")
    /\ GoTo(j, IF offset[To(j)] # Closed THEN "again" ELSE "create")
    /\ UNCHANGED <<primaryUp, server, answerFrames, client, target, copies, readOffset, streams>>

\* After its error, a third look: a stream that has been opened meanwhile is as good as a new
\* one; when it is gone by now, the data is dropped.
LookAgain(j) ==
    /\ At(j, "again")
    /\ GoTo(j, IF offset[To(j)] # Closed THEN "join" ELSE "done")
    /\ UNCHANGED <<primaryUp, server, answerFrames, client, target, copies, readOffset, streams>>

\* Mutant: the new stream is not registered with the stream manager.
PutOnly(j) ==
    /\ At(j, "create")
    /\ offset' = [offset EXCEPT ![To(j)] = 0]
    /\ GoTo(j, "offset")
    /\ UNCHANGED <<primaryUp, server, answerFrames, client, target, copies, readOffset, table, joined, placed,
                   shut, overlapped>>

\* The entry is made in a lock hold of its own, also over another one.
PutStream(j) ==
    /\ At(j, "create")
    /\ offset' = [offset EXCEPT ![To(j)] = 0]
    /\ GoTo(j, "join")
    /\ UNCHANGED <<primaryUp, server, answerFrames, client, target, copies, readOffset, table, joined, placed,
                   shut, overlapped>>

\* AddPathToStream; that the manager does not know the stream is only logged.
JoinStream(j) ==
    /\ At(j, "join")
    /\ joined' = IF To(j).stream \in managed THEN joined \cup {To(j)} ELSE joined
    /\ GoTo(j, "offset")
    /\ UNCHANGED <<primaryUp, server, answerFrames, client, target, copies, readOffset, offset, table, placed,
                   shut, overlapped>>

\* WriteOffsetForStream, 0 for a stream that is not open.
ReadWriteOffset(j) ==
    /\ At(j, "offset")
    /\ readOffset' = [readOffset EXCEPT ![j] = IF offset[To(j)] = Closed THEN 0 ELSE offset[To(j)]]
    /\ GoTo(j, "advance")
    /\ UNCHANGED <<primaryUp, server, answerFrames, client, target, copies, streams>>

\* Mutant: every frame moves the offset by one.
IncrementByOne(j) ==
    /\ At(j, "advance")
    /\ offset' = [offset EXCEPT ![To(j)] = IF @ = Closed THEN Closed ELSE @ + 1]
    /\ GoTo(j, "submit")
    /\ UNCHANGED <<primaryUp, server, answerFrames, client, target, copies, readOffset, table, joined, placed,
                   shut, overlapped>>

\* IncrementWriteOffsetForStream.
IncrementWriteOffset(j) ==
    /\ At(j, "advance")
    /\ offset' = [offset EXCEPT ![To(j)] = IF @ = Closed THEN Closed ELSE @ + j[1]]
    /\ GoTo(j, "submit")
    /\ UNCHANGED <<primaryUp, server, answerFrames, client, target, copies, readOffset, table, joined, placed,
                   shut, overlapped>>

\* SubmitFrame fails on a path that is gone; the error is only logged.
SubmitData(j) ==
    /\ At(j, "submit")
    /\ placed' = IF To(j).path \in clientPaths
                 THEN Append(placed, [to |-> To(j), offset |-> readOffset[j], data |-> j[1]]) ELSE placed
    /\ readOffset' = [readOffset EXCEPT ![j] = 0]
    /\ GoTo(j, "done")
    /\ UNCHANGED <<primaryUp, server, answerFrames, client, target, copies, offset, table, joined, shut,
                   overlapped>>

(***************************************************************************)
(* The client's streams                                                    *)
(***************************************************************************)

\* AcceptStream and OpenStreamSync take the next number; data may have been relayed on it.
CreateStream(s) ==
    /\ s \notin created /\ \A r \in Streams : r < s => r \in created
    /\ managed' = managed \cup {s} /\ created' = created \cup {s}
    /\ early' = early \cup {t \in Target : t.stream = s /\ offset[t] # Closed}
    /\ UNCHANGED <<primaryUp, server, answerFrames, client, relayData, offset, joined, placed, shut, overlapped>>

RelayPathsOf(s) == {t \in joined : t.stream = s}

CloseOn(targets) ==
    /\ offset' = [t \in Target |-> IF t \in targets THEN Closed ELSE offset[t]]
    /\ shut' = shut \cup targets

\* The paths of a stream are visited in any order.  The first that does not know the stream
\* ends the call: the paths visited before have closed it, and it stays with the manager.
\* A path that the session has closed is one, the primary one too.
CloseStream(s) ==
    /\ s \in managed
    /\ \/ /\ \A t \in RelayPathsOf(s) : offset[t] # Closed
          /\ CloseOn(RelayPathsOf(s))
          /\ managed' = managed \ {s} /\ joined' = joined \ RelayPathsOf(s)
       \/ /\ ~primaryUp \/ \E t \in RelayPathsOf(s) : offset[t] = Closed
          /\ \E visited \in SUBSET {t \in RelayPathsOf(s) : offset[t] # Closed} : CloseOn(visited)
          /\ UNCHANGED <<managed, joined>>
    /\ UNCHANGED <<primaryUp, server, answerFrames, client, relayData, created, early, placed, overlapped>>

(***************************************************************************)
(* The specification                                                       *)
(***************************************************************************)

AddRelay(a) ==
    FindPrimary(a) \/ RegisterHandler(a) \/ SubmitAddPath(a) \/ TakeResponse(a) \/ TimeOut(a)
Receive ==
    \/ \E r \in Response : ReceiveAddPathResp(r)
    \/ \E a \in Callers : ReceiveAddPath(a)
    \/ \E d \in Data : ReceiveRelayData(d)
HandleRelayDataFrame(j) ==
    \/ FindPath(j) \/ OpenStream(j) \/ LookAgain(j) \/ PutStream(j) \/ JoinStream(j)
    \/ ReadWriteOffset(j) \/ IncrementWriteOffset(j) \/ SubmitData(j)

Next ==
    \/ \E a \in Callers : AddRelay(a) \/ OpenPath(a) \/ OpenPathFails(a)
    \/ Receive
    \/ \E g \in answering : ForwardResponse(g)
    \/ \E a \in Callers, s \in Streams, d \in Data : SendRawData(a, s, d)
    \/ \E j \in Jobs : HandleRelayDataFrame(j)
    \/ \E p \in RelayPaths : LosePath(p) \/ ClosePath(p)
    \/ LosePrimary
    \/ \E s \in Streams : CreateStream(s) \/ CloseStream(s)

Spec == Init /\ [][Next]_vars

(***************************************************************************)
(* Properties                                                              *)
(***************************************************************************)

TypeOK ==
    /\ primaryUp \in BOOLEAN
    /\ caller \in [Callers -> {"idle", "register", "submit", "wait", "returned", "failed"}]
    /\ respChannel \in Callers \cup {Nobody}
    /\ channel \in [Callers -> Response \cup {None}] /\ relay \in [Callers -> Response \cup {None}]
    /\ relays \subseteq Response
    /\ asked \in [Callers -> 0 .. MaxControl] /\ answers \in [Response -> 0 .. MaxControl]
    /\ answering \subseteq [response : Response, to : Callers]
    /\ opening \in [Callers -> 0 .. MaxControl]
    /\ nextPathID \in 1 .. MaxPath /\ clientPaths \subseteq RelayPaths
    /\ DOMAIN dialled \subseteq 2 .. nextPathID /\ \A p \in DOMAIN dialled : dialled[p] \in Callers
    /\ DOMAIN target \subseteq Data /\ \A d \in DOMAIN target : target[d] \in Target
    /\ copies \in [Data -> 0 .. MaxCopies]
    /\ job \in [Jobs -> {"none", "find", "open", "create", "again", "join", "offset", "advance", "submit", "done"}]
    /\ readOffset \in [Jobs -> Nat] /\ offset \in [Target -> Nat \cup {Closed}]
    /\ managed \subseteq created /\ created \subseteq Streams
    /\ joined \subseteq Target /\ early \subseteq Target /\ shut \subseteq Target /\ overlapped \subseteq Target
    /\ \A i \in DOMAIN placed : placed[i] \in [to : Target, offset : Nat, data : Data]

\* However calls, answers and timeouts cross: a relay that was returned names a path the
\* client has opened to exactly the relay's address, and the server keeps it in its table
\* (path_manager.go:203-216).
RelayIsReal ==
    \A a \in Callers : relay[a] # None =>
        /\ relay[a].path \in DOMAIN dialled /\ dialled[relay[a].path] = relay[a].address
        /\ relay[a] \in relays

\* The stream manager knows the relay paths that have one of its streams open, or a goroutine
\* is about to tell it, however creating, opening, joining and closing the stream on several
\* paths, and closes that fail half way, interleave: a relay path that is not joined keeps the
\* stream when it is closed (path.go:733).  Excepted are the paths that had opened the stream
\* before the client created it: README, section 7.
OpenIsJoined ==
    \A t \in Target \ early :
        \/ offset[t] = Closed \/ t.stream \notin managed \/ t \in joined
        \/ \E j \in Jobs : At(j, "join") /\ To(j) = t

Before(i) == {k \in 1 .. i - 1 : placed[k].to = placed[i].to}

\* A frame starts where the one before it for the same stream and path ends, the first at 0.
FollowsOn(i) ==
    \/ Before(i) = {} /\ placed[i].offset = 0
    \/ \E k \in Before(i) :
         /\ \A m \in Before(i) : m <= k
         /\ placed[i].offset = placed[k].offset + placed[k].data

\* Two goroutines have worked on the stream at once, its path is lost, or it was closed there.
Disturbed(t) == t \in overlapped \/ t.path \notin clientPaths \/ t \in shut

\* The frames a stream's relayed data is cut into follow on each other without gap or
\* overlap, as long as one goroutine at a time works on the stream, its path lasts and it is
\* not closed (path.go:740-745).
FramesFollow == \A i \in DOMAIN placed : Disturbed(placed[i].to) \/ FollowsOn(i)

\* A RelayData frame that a goroutine has dealt with was submitted for its stream on the relay's
\* path, also when several goroutines find the stream closed and open it at once, unless that
\* path was lost or the stream closed on it (path.go:722-729).
RelayedIsSubmitted ==
    \A j \in Jobs : At(j, "done") /\ To(j).path \in clientPaths /\ To(j) \notin shut =>
        \E i \in DOMAIN placed : placed[i].data = j[1] /\ placed[i].to = To(j)

\* The write offset of a stream that stays open never goes back (path.go:490 puts a new
\* entry over one that was made meanwhile).
\* Not kept: README, section 7.
OffsetGrows == [][\A t \in Target : offset'[t] # Closed => offset'[t] >= offset[t]]_vars

=============================================================================
