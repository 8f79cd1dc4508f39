------------------------------ MODULE Sessions ------------------------------
(***************************************************************************)
(* The life of a session: it is made by the listener's Accept or by        *)
(* DialAddr, gets and loses paths, and is closed by whoever comes first    *)
(* (server.go, client.go, listener.go, internal/transport/                 *)
(* path_manager.go).                                                       *)
(*                                                                         *)
(* One session; Init chooses whether it is a server's or a client's.       *)
(* Sessions share nothing but the listener's registry, where each has an   *)
(* entry of its own.  The goroutines:                                      *)
(*   main      Accept (server) or DialAddr (client)                        *)
(*   adder     opens a path for an AddPath frame (client)                  *)
(*   failure   a path's closePathDueToFatalError, in HandlePathFailure     *)
(*   listener  listener.Close                                              *)
(*   Closers   the callers of close                                        *)
(* A step takes one lock, or goes from one lock to the next.  OpenPath and *)
(* AcceptPath hold pm.mu while they dial and make the path, CloseAllPaths  *)
(* while it closes them.  CloseWithError of QUIC returns no error, so      *)
(* CloseAllPaths does not either.  A write that fails without a fatal      *)
(* error never returns (module PathLink); a close that needs the lock it   *)
(* holds, or its goroutine, does not return either.                        *)
(***************************************************************************)
EXTENDS Naturals, FiniteSets

CONSTANTS
    Roles,      \* what the session may be: "server", "client"
    MaxPaths,   \* bound: paths a client opens
    Retries     \* reconnectAttempts (3 in the source)

ASSUME SessionConstants ==
    /\ Roles \subseteq {"server", "client"}
    /\ MaxPaths \in Nat \ {0} /\ Retries \in Nat

PathIDs == 1 .. MaxPaths
NoPath == 0

\* The callers of close: main when it fails, the application, the goroutine left by
\* HandlePathFailure, by RemoveSession and by the listener's shutdown.
Closers == {"main", "app", "failure", "removal", "shutdown"}

VARIABLES
    role,
    sessState,     \* ServerSession.state, ClientSession.state
    once,          \* closeOnce: "no", "running", "done"
    step,          \* where the goroutine inside closeOnce is
    closer,        \* the goroutines that call close
    main, tries,   \* Accept or DialAddr, and the attempts it has made
    made,          \* the path OpenPath or AcceptPath has returned to main
    adder,
    failure,       \* HandlePathFailure for each path
    pmMu,          \* pm.mu: who holds it over several steps
    paths,         \* pm.paths
    primary,       \* pm.primaryPathID
    nextPathID,    \* pm.nextPathID
    path,          \* each path: "none", "open", "failed", "closed"
    packerClosed,  \* the packer (and the multiplexer) have been closed
    registry,      \* which of the registry's two maps hold the session
    listener,
    late,          \* history: paths put in the table after CloseAllPaths
    enrolled,      \* history: the session was registered before close began
    drained,       \* history: the session was registered when the shutdown began
    crashed        \* RegisterPath of a closed packer has panicked

closing == <<once, step, closer>>
manager == <<pmMu, paths, primary, nextPathID, path, failure>>
registration == <<registry, listener, enrolled, drained>>
vars == <<role, sessState, closing, main, tries, made, adder, manager, packerClosed, registration, late, crashed>>

Init ==
    /\ role \in Roles
    /\ sessState = IF role = "server" THEN "initializing" ELSE "connecting"
    /\ once = "no" /\ step = "none"
    /\ closer = [c \in Closers |-> "none"]
    /\ main = "start" /\ tries = 0 /\ made = NoPath
    /\ adder = "idle"
    /\ failure = [p \in PathIDs |-> "none"]
    /\ pmMu = "free" /\ paths = {} /\ primary = NoPath /\ nextPathID = 0
    /\ path = [p \in PathIDs |-> "none"]
    /\ packerClosed = FALSE
    /\ registry = {} /\ listener = "open"
    /\ late = {} /\ enrolled = FALSE /\ drained = FALSE
    /\ crashed = FALSE

\* A goroutine is left behind that calls close; one more waits like one that waits already.
Spawn(c) == closer' = [closer EXCEPT ![c] = IF @ \in {"none", "done"} THEN "call" ELSE @]

\* The connection of path p ends.
Ends(p) == IF path[p] = "open" THEN [path EXCEPT ![p] = "failed"] ELSE path
Fails(p) == IF path[p] = "open" THEN [failure EXCEPT ![p] = "remove"] ELSE failure

(***************************************************************************)
(* The path manager: OpenPath and AcceptPath                               *)
(***************************************************************************)

\* g is main or adder; the lock is kept while the connection and the path are made.
LockForPath(g) == pmMu = "free" /\ pmMu' = g

\* NewPath registers the path with the packer, which panics when that has been closed; the
\* path goes into the table before the lock is given up.
PathMade(g) ==
    LET p == nextPathID + 1
    IN  /\ pmMu = g /\ p \in PathIDs
        /\ pmMu' = "free"
        /\ nextPathID' = p
        /\ IF packerClosed
           THEN /\ crashed' = TRUE
                /\ UNCHANGED <<paths, path, late>>
           ELSE /\ paths' = paths \cup {p}
                /\ path' = [path EXCEPT ![p] = "open"]
                /\ late' = IF step \in {"none", "paths"} THEN late ELSE late \cup {p}
                /\ UNCHANGED crashed
        /\ UNCHANGED <<primary, failure>>

\* The dial or all attempts of NewPath fail.
PathNotMade(g) ==
    /\ pmMu = g
    /\ pmMu' = "free"
    /\ nextPathID' \in {nextPathID, nextPathID + 1} \cap (PathIDs \cup {0})
    /\ UNCHANGED <<paths, primary, path, failure, late, crashed>>

(***************************************************************************)
(* main: listener.Accept with NewServerSession, or DialAddr with Connect   *)
(***************************************************************************)

\* Accept fails once the listener is shut; an Accept that has its connection goes on.
BeginSession ==
    /\ main = "start"
    /\ role = "server" => listener = "open"
    /\ LockForPath("main")
    /\ main' = "making"
    /\ tries' = tries + 1
    /\ UNCHANGED <<role, sessState, closing, made, adder, paths, primary, nextPathID, path, failure, packerClosed,
                   registration, late, crashed>>

GotPath ==
    /\ main = "making"
    /\ PathMade("main")
    /\ made' = nextPathID'
    /\ main' = "primary"
    /\ UNCHANGED <<role, sessState, closing, tries, adder, packerClosed, registration>>

\* initializePrimaryPath or establishConnection has failed: the server's session is closed,
\* the client tries again until it has no attempts left or its context ends.
GiveUpOrRetry ==
    IF role = "client" /\ tries <= Retries
    THEN main' \in {"start", "failing"} /\ UNCHANGED sessState
    ELSE /\ main' = "failing"
         /\ IF role = "client" THEN sessState' = "closed" ELSE UNCHANGED sessState

NoPathMade ==
    /\ main = "making"
    /\ PathNotMade("main")
    /\ GiveUpOrRetry
    /\ UNCHANGED <<role, closing, tries, made, adder, packerClosed, registration>>

\* SetPrimaryPath of the path main was given, which may have been removed; another path may
\* have been added since.
SetPrimaryPath ==
    /\ main = "primary" /\ pmMu = "free"
    /\ primary' = IF made \in paths THEN made ELSE primary
    /\ main' = "verify"
    /\ UNCHANGED <<role, sessState, closing, tries, made, adder, pmMu, paths, nextPathID, path, failure, packerClosed,
                   registration, late, crashed>>

\* GetPrimaryPath.
VerifyPrimary ==
    /\ main = "verify" /\ pmMu = "free"
    /\ IF primary \in paths THEN main' = "activate" /\ UNCHANGED sessState ELSE GiveUpOrRetry
    /\ UNCHANGED <<role, closing, tries, made, adder, manager, packerClosed, registration, late, crashed>>

Activate ==
    /\ main = "activate"
    /\ sessState' = "active"
    /\ main' = IF role = "server" THEN "register" ELSE "returned"
    /\ UNCHANGED <<role, closing, tries, made, adder, manager, packerClosed, registration, late, crashed>>

\* registry.Add: two maps, one after the other.
Register ==
    /\ main = "register"
    /\ registry' = registry \cup {"sessions"}
    /\ main' = "connection"
    /\ UNCHANGED <<role, sessState, closing, tries, made, adder, manager, packerClosed, listener, enrolled, drained,
                   late, crashed>>

RegisterConnection ==
    /\ main = "connection"
    /\ registry' = registry \cup {"connections"}
    /\ enrolled' = (once = "no")
    /\ main' = "returned"
    /\ UNCHANGED <<role, sessState, closing, tries, made, adder, manager, packerClosed, listener, drained, late, crashed>>

\* The caller of the failed part closes the session and returns an error.
MainCloses ==
    /\ main = "failing"
    /\ Spawn("main")
    /\ main' = "failed"
    /\ UNCHANGED <<role, sessState, once, step, tries, made, adder, manager, packerClosed, registration, late, crashed>>

(***************************************************************************)
(* An AddPath frame (path.go, handleOtherControlFrames; client only)       *)
(***************************************************************************)

ReceiveAddPath ==
    /\ role = "client" /\ adder = "idle"
    /\ ~packerClosed /\ \E p \in PathIDs : path[p] = "open"
    /\ nextPathID < MaxPaths
    /\ adder' = "lock"
    /\ UNCHANGED <<role, sessState, closing, main, tries, made, manager, packerClosed, registration, late, crashed>>

AdderLocks ==
    /\ adder = "lock"
    /\ LockForPath("adder")
    /\ adder' = "making"
    /\ UNCHANGED <<role, sessState, closing, main, tries, made, paths, primary, nextPathID, path, failure, packerClosed,
                   registration, late, crashed>>

AdderEnds ==
    /\ adder = "making"
    /\ PathMade("adder") \/ PathNotMade("adder")
    /\ adder' = "idle"
    /\ UNCHANGED <<role, sessState, closing, main, tries, made, packerClosed, registration>>

(***************************************************************************)
(* Paths fail: closePathDueToFatalError and HandlePathFailure              *)
(***************************************************************************)

LosePath(p) ==
    /\ path[p] = "open"
    /\ path' = Ends(p) /\ failure' = Fails(p)
    /\ UNCHANGED <<role, sessState, closing, main, tries, made, adder, pmMu, paths, primary, nextPathID, packerClosed,
                   registration, late, crashed>>

\* Each goroutine of the path that meets the error reports it.
ReportAgain(p) ==
    /\ path[p] \in {"failed", "closed"} /\ failure[p] \in {"none", "done"}
    /\ failure' = [failure EXCEPT ![p] = "remove"]
    /\ UNCHANGED <<role, sessState, closing, main, tries, made, adder, pmMu, paths, primary, nextPathID, path,
                   packerClosed, registration, late, crashed>>

\* Mutant: no new primary path is chosen.
RemoveOnly(p) ==
    /\ failure[p] = "remove" /\ pmMu = "free"
    /\ paths' = paths \ {p}
    /\ failure' = [failure EXCEPT ![p] = "count"]
    /\ UNCHANGED <<role, sessState, closing, main, tries, made, adder, pmMu, primary, nextPathID, path, packerClosed,
                   registration, late, crashed>>

\* RemovePath: any other path becomes the primary one.
RemovePath(p) ==
    /\ failure[p] = "remove" /\ pmMu = "free"
    /\ paths' = paths \ {p}
    /\ primary' \in IF primary # p THEN {primary}
                    ELSE IF paths \ {p} = {} THEN {NoPath} ELSE paths \ {p}
    /\ failure' = [failure EXCEPT ![p] = "count"]
    /\ UNCHANGED <<role, sessState, closing, main, tries, made, adder, pmMu, nextPathID, path, packerClosed,
                   registration, late, crashed>>

\* Mutant: the last path is not missed.
CountTwo(p) ==
    /\ failure[p] = "count" /\ pmMu = "free"
    /\ IF Cardinality(paths) = 1 THEN Spawn("failure") ELSE UNCHANGED closer
    /\ failure' = [failure EXCEPT ![p] = "done"]
    /\ UNCHANGED <<role, sessState, once, step, main, tries, made, adder, pmMu, paths, primary, nextPathID, path,
                   packerClosed, registration, late, crashed>>

\* GetActivePathIDs, in a lock hold of its own; without paths the session is closed.
CountPaths(p) ==
    /\ failure[p] = "count" /\ pmMu = "free"
    /\ IF paths = {} THEN Spawn("failure") ELSE UNCHANGED closer
    /\ failure' = [failure EXCEPT ![p] = "done"]
    /\ UNCHANGED <<role, sessState, once, step, main, tries, made, adder, pmMu, paths, primary, nextPathID, path,
                   packerClosed, registration, late, crashed>>

(***************************************************************************)
(* close                                                                   *)
(***************************************************************************)

\* The application closes the session it was given.
AppCloses ==
    /\ main = "returned" /\ closer["app"] = "none"
    /\ Spawn("app")
    /\ UNCHANGED <<role, sessState, once, step, main, tries, made, adder, manager, packerClosed, registration, late,
                   crashed>>

\* closeOnce lets one in, ...
EnterClose(c) ==
    /\ closer[c] = "call" /\ once = "no"
    /\ once' = "running" /\ step' = "paths"
    /\ closer' = [closer EXCEPT ![c] = "inside"]
    /\ sessState' = "closing"
    /\ UNCHANGED <<role, main, tries, made, adder, manager, packerClosed, registration, late, crashed>>

\* ... and the others return when it has finished.  On a server the goroutine of
\* HandlePathFailure goes on to RemoveSession.
AfterClose(c) == IF role = "server" /\ c = "failure" THEN "notify" ELSE "done"

SkipClose(c) ==
    /\ closer[c] = "call" /\ once = "done"
    /\ closer' = [closer EXCEPT ![c] = AfterClose(c)]
    /\ UNCHANGED <<role, sessState, once, step, main, tries, made, adder, manager, packerClosed, registration, late,
                   crashed>>

LockPaths ==
    /\ step = "paths" /\ pmMu = "free"
    /\ pmMu' = "close"
    /\ step' = "closing"
    /\ UNCHANGED <<role, sessState, once, closer, main, tries, made, adder, paths, primary, nextPathID, path, failure,
                   packerClosed, registration, late, crashed>>

\* Mutant: a path that has failed before ends the loop.
StopAtFailed(p) ==
    /\ step = "closing" /\ p \in paths
    /\ paths' = IF path[p] = "failed" THEN {} ELSE paths \ {p}
    /\ path' = IF path[p] = "open" THEN [path EXCEPT ![p] = "closed"] ELSE path
    /\ failure' = Fails(p)
    /\ UNCHANGED <<role, sessState, closing, main, tries, made, adder, pmMu, primary, nextPathID, packerClosed,
                   registration, late, crashed>>

\* Path.Close; a failed path has been closed.  The end of the connection comes back as an
\* error of the reader, that is, as a path failure.
ClosePath(p) ==
    /\ step = "closing" /\ p \in paths
    /\ paths' = paths \ {p}
    /\ path' = IF path[p] = "open" THEN [path EXCEPT ![p] = "closed"] ELSE path
    /\ failure' = Fails(p)
    /\ UNCHANGED <<role, sessState, closing, main, tries, made, adder, pmMu, primary, nextPathID, packerClosed,
                   registration, late, crashed>>

\* Path.Close never comes back: it waits for the stream's lock, on which a writer has locked itself
\* out (module PathLink), and pm.mu is not given up.  A failed path is closed without that lock.
CloseHangs(p) ==
    /\ step = "closing" /\ p \in paths /\ path[p] = "open"
    /\ step' = "locked"
    /\ UNCHANGED <<role, sessState, once, closer, main, tries, made, adder, manager, packerClosed, registration,
                   late, crashed>>

UnlockPaths ==
    /\ step = "closing" /\ paths = {}
    /\ pmMu' = "free"
    /\ step' = "components"
    /\ UNCHANGED <<role, sessState, once, closer, main, tries, made, adder, paths, primary, nextPathID, path, failure,
                   packerClosed, registration, late, crashed>>

\* multiplexer.Close, which has a time limit, and packer.Close; a server's connection has gone
\* with its path.
CloseComponents ==
    /\ step = "components"
    /\ packerClosed' = TRUE
    /\ step' = IF role = "server" THEN "notify" ELSE "final"
    /\ UNCHANGED <<role, sessState, once, closer, main, tries, made, adder, manager, registration,
                   late, crashed>>

\* packer.Close waits without a limit for its goroutines, which may be locked out in WriteStream on
\* any path there has been.
PackerHangs ==
    /\ step = "components" /\ \E p \in PathIDs : path[p] # "none"
    /\ step' = "waiting"
    /\ UNCHANGED <<role, sessState, once, closer, main, tries, made, adder, manager, packerClosed, registration,
                   late, crashed>>

\* RemoveSession: both maps, the connection, and a goroutine that closes the session if it
\* was there.
Unregistered ==
    /\ registry' = {}
    /\ path' = IF "connections" \in registry THEN Ends(1) ELSE path
    /\ failure' = IF "connections" \in registry THEN Fails(1) ELSE failure

\* Mutant: close does not tell the listener.
NotToldListener ==
    /\ step = "notify"
    /\ step' = "final"
    /\ UNCHANGED <<role, sessState, once, closer, main, tries, made, adder, manager, packerClosed, registration,
                   late, crashed>>

\* Mutant: RemoveSession waits for the session to close.
RemoveAndWait ==
    /\ step = "notify"
    /\ Unregistered
    /\ step' = IF "sessions" \in registry THEN "notify" ELSE "final"
    /\ "sessions" \in registry => once = "done"
    /\ UNCHANGED <<role, sessState, once, closer, main, tries, made, adder, pmMu, paths, primary, nextPathID,
                   packerClosed, listener, enrolled, drained, late, crashed>>

NotifyListener ==
    /\ step = "notify"
    /\ Unregistered
    /\ IF "sessions" \in registry THEN Spawn("removal") ELSE UNCHANGED closer
    /\ step' = "final"
    /\ UNCHANGED <<role, sessState, once, main, tries, made, adder, pmMu, paths, primary, nextPathID, packerClosed,
                   listener, enrolled, drained, late, crashed>>

FinishClose ==
    /\ step = "final"
    /\ sessState' = "closed"
    /\ once' = "done" /\ step' = "end"
    /\ closer' = [c \in Closers |-> IF closer[c] = "inside" THEN AfterClose(c) ELSE closer[c]]
    /\ UNCHANGED <<role, main, tries, made, adder, manager, packerClosed, registration, late, crashed>>

\* closeSessionAndNotifyListener: once more.
NotifyAgain ==
    /\ closer["failure"] = "notify"
    /\ Unregistered
    /\ closer' = [closer EXCEPT !["failure"] = "done",
                                !["removal"] = IF "sessions" \in registry /\ @ \in {"none", "done"}
                                               THEN "call" ELSE @]
    /\ UNCHANGED <<role, sessState, once, step, main, tries, made, adder, pmMu, paths, primary, nextPathID, packerClosed,
                   listener, enrolled, drained, late, crashed>>

(***************************************************************************)
(* listener.Close                                                          *)
(***************************************************************************)

BeginShutdown ==
    /\ role = "server" /\ listener = "open"
    /\ listener' = "draining"
    /\ drained' = ("sessions" \in registry)
    /\ IF "sessions" \in registry THEN Spawn("shutdown") ELSE UNCHANGED closer
    /\ UNCHANGED <<role, sessState, once, step, main, tries, made, adder, manager, packerClosed, registry, enrolled,
                   late, crashed>>

Drained ==
    /\ listener = "draining" /\ "sessions" \notin registry
    /\ listener' = "closed"
    /\ UNCHANGED <<role, sessState, closing, main, tries, made, adder, manager, packerClosed, registry, enrolled,
                   drained, late, crashed>>

\* Mutant: the sessions stay in the registry.
ForceConnections ==
    /\ listener = "draining" /\ "sessions" \in registry
    /\ path' = Ends(1) /\ failure' = Fails(1)
    /\ listener' = "closed"
    /\ UNCHANGED <<role, sessState, closing, main, tries, made, adder, pmMu, paths, primary, nextPathID, packerClosed,
                   registry, enrolled, drained, late, crashed>>

\* The two seconds are over: forceCloseAllConnections.
ForceClose ==
    /\ listener = "draining" /\ "sessions" \in registry
    /\ path' = IF "connections" \in registry THEN Ends(1) ELSE path
    /\ failure' = IF "connections" \in registry THEN Fails(1) ELSE failure
    /\ registry' = {}
    /\ listener' = "closed"
    /\ UNCHANGED <<role, sessState, closing, main, tries, made, adder, pmMu, paths, primary, nextPathID, packerClosed,
                   enrolled, drained, late, crashed>>

(***************************************************************************)
(* The specification                                                       *)
(***************************************************************************)

MainStep ==
    \/ GotPath \/ NoPathMade \/ SetPrimaryPath \/ VerifyPrimary \/ Activate
    \/ Register \/ RegisterConnection \/ MainCloses

AdderStep == AdderLocks \/ AdderEnds
FailureStep == \E p \in PathIDs : RemovePath(p) \/ CountPaths(p)
CloseStep ==
    \/ LockPaths \/ UnlockPaths \/ CloseComponents \/ NotifyListener \/ FinishClose
    \/ \E p \in PathIDs : ClosePath(p)
CloserStep == NotifyAgain \/ \E c \in Closers : EnterClose(c) \/ SkipClose(c)
ShutdownStep == Drained \/ ForceClose

Next ==
    /\ ~crashed
    /\ \/ BeginSession \/ MainStep
       \/ ReceiveAddPath \/ AdderStep
       \/ FailureStep \/ \E p \in PathIDs : LosePath(p) \/ ReportAgain(p)
       \/ AppCloses \/ CloserStep \/ CloseStep
       \/ PackerHangs \/ \E p \in PathIDs : CloseHangs(p)
       \/ BeginShutdown \/ ShutdownStep

Spec == Init /\ [][Next]_vars

\* Goroutines run, and a dial or NewPath ends with success or failure (they have timeouts);
\* who waits for pm.mu again and again gets it.  Nothing obliges paths to fail, frames to
\* come or the application to close.
FairSpec ==
    /\ Spec
    /\ SF_vars(~crashed /\ MainStep) /\ SF_vars(~crashed /\ AdderStep)
    /\ WF_vars(~crashed /\ main = "start" /\ tries > 0 /\ BeginSession)
    /\ \A p \in PathIDs : SF_vars(~crashed /\ RemovePath(p)) /\ SF_vars(~crashed /\ CountPaths(p))
    /\ SF_vars(~crashed /\ CloseStep)
    /\ WF_vars(~crashed /\ NotifyAgain)
    /\ \A c \in Closers : WF_vars(~crashed /\ (EnterClose(c) \/ SkipClose(c)))

(***************************************************************************)
(* Properties                                                              *)
(***************************************************************************)

TypeOK ==
    /\ role \in Roles
    /\ sessState \in {"initializing", "connecting", "active", "closing", "closed"}
    /\ once \in {"no", "running", "done"}
    /\ step \in {"none", "paths", "closing", "locked", "components", "waiting", "notify", "final", "end"}
    /\ closer \in [Closers -> {"none", "call", "inside", "notify", "done"}]
    /\ main \in {"start", "making", "primary", "verify", "activate", "register", "connection", "failing",
                 "returned", "failed"}
    /\ tries \in 0 .. Retries + 1 /\ made \in PathIDs \cup {NoPath}
    /\ adder \in {"idle", "lock", "making"}
    /\ failure \in [PathIDs -> {"none", "remove", "count", "done"}]
    /\ pmMu \in {"free", "main", "adder", "close"}
    /\ paths \subseteq PathIDs /\ primary \in PathIDs \cup {NoPath} /\ nextPathID \in PathIDs \cup {0}
    /\ path \in [PathIDs -> {"none", "open", "failed", "closed"}]
    /\ packerClosed \in BOOLEAN /\ crashed \in BOOLEAN
    /\ registry \subseteq {"sessions", "connections"} /\ listener \in {"open", "draining", "closed"}
    /\ late \subseteq PathIDs /\ enrolled \in BOOLEAN /\ drained \in BOOLEAN

\* As long as the session is not closed its primary path is in the table, whichever path
\* fails (path_manager.go:122-146).
PrimaryIsKnown == once = "no" => primary \in paths \cup {NoPath}

\* When close has finished, no path is open that the table held when CloseAllPaths ran, a
\* failed path among them or not (path_manager.go:148-170).
CloseReachesPaths == once = "done" => \A p \in PathIDs \ late : path[p] # "open"

\* A session that was registered before it began to close is not in the registry when it has
\* been closed (listener.go:184, server.go:448).
ClosedIsUnregistered == once = "done" /\ enrolled => registry = {}

\* After the listener's Close the registry has no session left that it held when the
\* shutdown began (listener.go:296-358).
ShutdownDrains == listener = "closed" /\ drained => "sessions" \notin registry

\* Close is locked out behind a writer that never returns, in Path.Close or in Packer.Close.
CloseIsLockedOut == step \in {"locked", "waiting"}

\* Everyone who calls close returns, unless a writer that is stuck locks the close out: the
\* goroutines close starts call close themselves, and the paths it closes report failures that
\* need its lock.
CloseReturns ==
    \A c \in Closers : closer[c] = "call" ~> (closer[c] = "done" \/ crashed \/ CloseIsLockedOut)

NoLivePath == \A p \in PathIDs : path[p] # "open"

\* A session that has lost its paths for good is closed (server.go:319, client.go:396), unless a
\* stuck writer locks the close out.
LostSessionCloses ==
    (<>[](NoLivePath /\ main \in {"returned", "failed"})) =>
        <>(once = "done" \/ crashed \/ CloseIsLockedOut)

\* server.go:452, "Set final state": a closed session is not active.
\* Not kept: README, section 7.
ClosedIsFinal == once = "done" => sessState = "closed"

=============================================================================
