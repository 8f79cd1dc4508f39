---------------------------- MODULE SessionsProof ----------------------------
(***************************************************************************)
(* Proofs about the life of a session, server's or client's, for any       *)
(* number of paths and of attempts to connect.                             *)
(***************************************************************************)
EXTENDS Sessions, TLAPS

\* A client that begins to connect has an attempt left; a server has just one to make.
Types == TypeOK /\ (main = "start" => tries <= Retries)

\* closeOnce, the place of the goroutine inside it and the lock it holds while it closes the paths.
CloseAgrees ==
    /\ once = "no" <=> step = "none"
    /\ once = "done" <=> step = "end"
    /\ step \in {"closing", "locked"} <=> pmMu = "close"

\* The states of a path: numbers not given out have no path, and no failure is reported of a path
\* that has not ended.
PathsAgree ==
    \A p \in PathIDs :
        /\ p > nextPathID => path[p] = "none"
        /\ failure[p] # "none" => path[p] \in {"failed", "closed"}

\* Until CloseAllPaths has run every open path is in the table; from then on no path is
\* open but those that were made afterwards.
OpenAreListed ==
    \A p \in PathIDs \ late : path[p] = "open" => p \in paths /\ step \in {"none", "paths", "closing", "locked"}

\* The registry knows a session from Register on; one that was registered before its close began
\* has been removed when the close comes to its last step.
RegistryAgrees ==
    /\ main \in {"register", "connection"} => role = "server"
    /\ "sessions" \in registry \/ drained => main \in {"connection", "returned"}
    /\ enrolled => role = "server" /\ main = "returned"
    /\ enrolled /\ step \in {"final", "end"} => registry = {}

\* The inductive invariant.
SessionInv ==
    /\ Types /\ CloseAgrees /\ PathsAgree /\ OpenAreListed /\ PrimaryIsKnown /\ RegistryAgrees
    /\ ShutdownDrains

\* The initial state satisfies the invariant.
LEMMA InitSession == Init => SessionInv
<1> SUFFICES ASSUME Init PROVE SessionInv
  OBVIOUS
<1>1. Types
  <2> USE SessionConstants DEF Init
  <2>1. /\ role \in Roles /\ sessState \in {"initializing", "connecting"} /\ once = "no" /\ step = "none"
        /\ closer \in [Closers -> {"none", "call", "inside", "notify", "done"}]
        /\ main = "start" /\ adder = "idle" /\ pmMu = "free" /\ listener = "open"
    OBVIOUS
  <2>2. /\ failure \in [PathIDs -> {"none", "remove", "count", "done"}]
        /\ path \in [PathIDs -> {"none", "open", "failed", "closed"}]
    OBVIOUS
  <2>3. tries \in 0 .. Retries + 1 /\ tries <= Retries
    OBVIOUS
  <2>4. /\ paths \subseteq PathIDs /\ primary \in PathIDs \cup {NoPath} /\ nextPathID \in PathIDs \cup {0}
        /\ packerClosed \in BOOLEAN /\ crashed \in BOOLEAN /\ registry \subseteq {"sessions", "connections"}
        /\ late \subseteq PathIDs /\ enrolled \in BOOLEAN /\ drained \in BOOLEAN
    OBVIOUS
  <2> QED
    BY <2>1, <2>2, <2>3, <2>4 DEF Types, TypeOK
<1>2. CloseAgrees
  BY DEF Init, CloseAgrees
<1>3. PathsAgree /\ OpenAreListed
  BY DEF Init, PathsAgree, OpenAreListed
<1>4. PrimaryIsKnown /\ RegistryAgrees /\ ShutdownDrains
  BY DEF Init, PrimaryIsKnown, RegistryAgrees, ShutdownDrains
<1> QED
  BY <1>1, <1>2, <1>3, <1>4 DEF SessionInv

-----------------------------------------------------------------------------
(***************************************************************************)
(* Types                                                                   *)
(***************************************************************************)

\* Steps keep the types.
LEMMA TypeStep == Types /\ [Next]_vars => Types'
<1> SUFFICES ASSUME Types, [Next]_vars PROVE Types'
  OBVIOUS
<1> USE SessionConstants DEF Types, TypeOK, closing, manager, registration, PathIDs, NoPath
<1>1. CASE BeginSession
  BY <1>1 DEF BeginSession, LockForPath
<1>2. ASSUME NEW g \in {"main", "adder"}, PathMade(g)
      PROVE  /\ pmMu' = "free" /\ paths' \subseteq PathIDs /\ nextPathID' \in PathIDs
             /\ path' \in [PathIDs -> {"none", "open", "failed", "closed"}]
             /\ late' \subseteq PathIDs /\ crashed' \in BOOLEAN /\ UNCHANGED <<primary, failure>>
  BY <1>2 DEF PathMade
<1>3. CASE GotPath
  BY <1>2, <1>3 DEF GotPath
<1>4. ASSUME GiveUpOrRetry, UNCHANGED tries
      PROVE  /\ main' \in {"start", "failing"} /\ sessState' \in {sessState, "closed"}
             /\ main' = "start" => tries' <= Retries
  BY <1>4 DEF GiveUpOrRetry
<1>5. CASE NoPathMade
  BY <1>4, <1>5 DEF NoPathMade, PathNotMade
<1>6. CASE SetPrimaryPath
  BY <1>6 DEF SetPrimaryPath
<1>7. CASE VerifyPrimary
  BY <1>4, <1>7 DEF VerifyPrimary
<1>8a. CASE Activate
  BY <1>8a DEF Activate
<1>8b. CASE Register
  BY <1>8b DEF Register
<1>8c. CASE RegisterConnection
  BY <1>8c DEF RegisterConnection
<1>9. ASSUME NEW c \in Closers, Spawn(c)
      PROVE  closer' \in [Closers -> {"none", "call", "inside", "notify", "done"}]
  BY <1>9 DEF Spawn
<1>10. CASE MainCloses
  BY <1>9, <1>10 DEF MainCloses, Closers
<1>11a. CASE ReceiveAddPath
  BY <1>11a DEF ReceiveAddPath
<1>11b. CASE AdderLocks
  BY <1>11b DEF AdderLocks, LockForPath
<1>12a. CASE AdderEnds /\ PathMade("adder")
  BY <1>2, <1>12a DEF AdderEnds
<1>12b. CASE AdderEnds /\ PathNotMade("adder")
  BY <1>12b DEF AdderEnds, PathNotMade
<1>13. ASSUME NEW p \in PathIDs
       PROVE  /\ Ends(p) \in [PathIDs -> {"none", "open", "failed", "closed"}]
              /\ Fails(p) \in [PathIDs -> {"none", "remove", "count", "done"}]
  BY DEF Ends, Fails
<1>14. ASSUME NEW p \in PathIDs, LosePath(p) PROVE Types'
  BY <1>13, <1>14 DEF LosePath
<1>15a. ASSUME NEW p \in PathIDs, ReportAgain(p) PROVE Types'
  BY <1>15a DEF ReportAgain
<1>15b. ASSUME NEW p \in PathIDs, RemovePath(p) PROVE Types'
  BY <1>15b DEF RemovePath
<1>16. ASSUME NEW p \in PathIDs, CountPaths(p) PROVE Types'
  <2>1. closer' \in [Closers -> {"none", "call", "inside", "notify", "done"}]
    BY <1>9, <1>16 DEF CountPaths, Closers
  <2> QED
    BY <1>16, <2>1 DEF CountPaths
<1>17. CASE AppCloses
  BY <1>9, <1>17 DEF AppCloses, Closers
<1>18a. ASSUME NEW c \in Closers, EnterClose(c) PROVE Types'
  BY <1>18a DEF EnterClose
<1>18b. ASSUME NEW c \in Closers, SkipClose(c) PROVE Types'
  BY <1>18b DEF SkipClose, AfterClose
<1>19a. CASE LockPaths
  BY <1>19a DEF LockPaths
<1>19b. CASE UnlockPaths
  BY <1>19b DEF UnlockPaths
<1>19c. CASE CloseComponents
  BY <1>19c DEF CloseComponents
<1>19d. CASE PackerHangs
  BY <1>19d DEF PackerHangs
<1>20. ASSUME NEW p \in PathIDs, ClosePath(p) PROVE Types'
  BY <1>13, <1>20 DEF ClosePath
<1>20b. ASSUME NEW p \in PathIDs, CloseHangs(p) PROVE Types'
  BY <1>20b DEF CloseHangs
<1>21. ASSUME Unregistered
       PROVE  /\ path' \in [PathIDs -> {"none", "open", "failed", "closed"}]
              /\ failure' \in [PathIDs -> {"none", "remove", "count", "done"}]
              /\ registry' = {}
  BY <1>13, <1>21 DEF Unregistered
<1>22. CASE NotifyListener
  <2>1. closer' \in [Closers -> {"none", "call", "inside", "notify", "done"}]
    BY <1>9, <1>22 DEF NotifyListener, Closers
  <2> QED
    BY <1>21, <1>22, <2>1 DEF NotifyListener
<1>23. CASE FinishClose
  BY <1>23 DEF FinishClose, AfterClose
<1>24. CASE NotifyAgain
  <2>1. closer' \in [Closers -> {"none", "call", "inside", "notify", "done"}]
    BY <1>24 DEF NotifyAgain
  <2> QED
    BY <1>21, <1>24, <2>1 DEF NotifyAgain
<1>25. CASE BeginShutdown
  <2>1. closer' \in [Closers -> {"none", "call", "inside", "notify", "done"}]
    BY <1>9, <1>25 DEF BeginShutdown, Closers
  <2> QED
    BY <1>25, <2>1 DEF BeginShutdown
<1>26a. CASE Drained
  BY <1>26a DEF Drained
<1>26b. CASE ForceClose
  <2>1. 1 \in PathIDs
    OBVIOUS
  <2> QED
    BY <1>13, <1>26b, <2>1 DEF ForceClose
<1>27. CASE UNCHANGED vars
  BY <1>27 DEF vars
<1> QED
  BY <1>1, <1>3, <1>5, <1>6, <1>7, <1>8a, <1>8b, <1>8c, <1>10, <1>11a, <1>11b, <1>12a, <1>12b, <1>14, <1>15a,
     <1>15b, <1>16, <1>17, <1>18a, <1>18b, <1>19a, <1>19b, <1>19c, <1>19d, <1>20, <1>20b, <1>22, <1>23, <1>24, <1>25, <1>26a,
     <1>26b, <1>27
     DEF Next, MainStep, AdderStep, AdderEnds, FailureStep, CloseStep, CloserStep, ShutdownStep

-----------------------------------------------------------------------------
(***************************************************************************)
(* closeOnce and the path table                                            *)
(***************************************************************************)

\* Only the goroutine inside closeOnce moves it on, and holds the lock while it closes paths.
LEMMA CloseAgreesStep == CloseAgrees /\ [Next]_vars => CloseAgrees'
<1> SUFFICES ASSUME CloseAgrees, [Next]_vars PROVE CloseAgrees'
  OBVIOUS
<1> USE DEF CloseAgrees, closing, manager, registration
<1>1. CASE BeginSession
  BY <1>1 DEF BeginSession, LockForPath
<1>2. ASSUME NEW g \in {"main", "adder"}, PathMade(g) \/ PathNotMade(g), UNCHANGED <<once, step>>
      PROVE  CloseAgrees'
  BY <1>2 DEF PathMade, PathNotMade
<1>3. CASE GotPath \/ NoPathMade
  BY <1>2, <1>3 DEF GotPath, NoPathMade
<1>4. CASE AdderEnds
  BY <1>2, <1>4 DEF AdderEnds
<1>5. CASE AdderLocks
  BY <1>5 DEF AdderLocks, LockForPath
<1>6. ASSUME UNCHANGED <<once, step, pmMu>> PROVE CloseAgrees'
  BY <1>6
<1>7. CASE SetPrimaryPath \/ VerifyPrimary \/ Activate \/ Register \/ RegisterConnection \/ MainCloses
  BY <1>6, <1>7 DEF SetPrimaryPath, VerifyPrimary, Activate, Register, RegisterConnection, MainCloses
<1>8. CASE ReceiveAddPath \/ AppCloses \/ BeginShutdown \/ ShutdownStep \/ NotifyAgain
  BY <1>6, <1>8 DEF ReceiveAddPath, AppCloses, BeginShutdown, ShutdownStep, Drained, ForceClose, NotifyAgain
<1>9. ASSUME NEW p \in PathIDs, LosePath(p) \/ ReportAgain(p) \/ RemovePath(p) \/ CountPaths(p) \/ ClosePath(p)
      PROVE  CloseAgrees'
  BY <1>6, <1>9 DEF LosePath, ReportAgain, RemovePath, CountPaths, ClosePath
<1>10. ASSUME NEW c \in Closers, EnterClose(c) \/ SkipClose(c) PROVE CloseAgrees'
  BY <1>10 DEF EnterClose, SkipClose
<1>11. CASE LockPaths \/ UnlockPaths \/ \E p \in PathIDs : CloseHangs(p)
  BY <1>11 DEF LockPaths, UnlockPaths, CloseHangs
<1>12. CASE CloseComponents \/ PackerHangs \/ NotifyListener \/ FinishClose
  BY <1>12 DEF CloseComponents, PackerHangs, NotifyListener, FinishClose
<1>13. CASE UNCHANGED vars
  BY <1>13 DEF vars
<1> QED
  BY <1>1, <1>3, <1>4, <1>5, <1>7, <1>8, <1>9, <1>10, <1>11, <1>12, <1>13
     DEF Next, MainStep, AdderStep, FailureStep, CloseStep, CloserStep

\* Numbers are given out in order, and a failure is reported of a path that has ended.
LEMMA PathsAgreeStep == Types /\ PathsAgree /\ [Next]_vars => PathsAgree'
<1> SUFFICES ASSUME Types, PathsAgree, [Next]_vars PROVE PathsAgree'
  OBVIOUS
<1> USE DEF closing, manager, registration
<1>0. /\ nextPathID \in Nat /\ PathIDs \subseteq Nat
      /\ path \in [PathIDs -> {"none", "open", "failed", "closed"}]
      /\ failure \in [PathIDs -> {"none", "remove", "count", "done"}]
  BY SessionConstants DEF Types, TypeOK, PathIDs
<1>1. ASSUME UNCHANGED <<nextPathID, path, failure>> PROVE PathsAgree'
  BY <1>1 DEF PathsAgree
<1>2. ASSUME NEW g \in {"main", "adder"}, PathMade(g) \/ PathNotMade(g) PROVE PathsAgree'
  <2>1. CASE UNCHANGED <<path, failure>> /\ nextPathID' \in {nextPathID, nextPathID + 1}
    BY <1>0, <2>1 DEF PathsAgree
  <2>2. CASE /\ nextPathID' = nextPathID + 1 /\ nextPathID' \in PathIDs
             /\ path' = [path EXCEPT ![nextPathID'] = "open"] /\ UNCHANGED failure
    BY <1>0, <2>2 DEF PathsAgree
  <2> QED
    BY <1>2, <2>1, <2>2 DEF PathMade, PathNotMade
<1>3. CASE GotPath \/ NoPathMade
  BY <1>2, <1>3 DEF GotPath, NoPathMade
<1>4. CASE AdderEnds
  BY <1>2, <1>4 DEF AdderEnds
<1>5. CASE BeginSession \/ ReceiveAddPath \/ AdderLocks
  BY <1>1, <1>5 DEF BeginSession, ReceiveAddPath, AdderLocks
<1>6. CASE SetPrimaryPath \/ VerifyPrimary \/ Activate \/ Register \/ RegisterConnection \/ MainCloses
  BY <1>1, <1>6 DEF SetPrimaryPath, VerifyPrimary, Activate, Register, RegisterConnection, MainCloses
<1>7. ASSUME NEW p \in PathIDs, UNCHANGED nextPathID, NEW ended \in {"failed", "closed"},
             path' = IF path[p] = "open" THEN [path EXCEPT ![p] = ended] ELSE path,
             failure' = Fails(p)
      PROVE  PathsAgree'
  BY <1>0, <1>7 DEF PathsAgree, Fails
<1>8. ASSUME NEW p \in PathIDs, LosePath(p) \/ ClosePath(p) PROVE PathsAgree'
  BY <1>7, <1>8 DEF LosePath, ClosePath, Ends
<1>9. ASSUME NEW p \in PathIDs, ReportAgain(p) \/ RemovePath(p) \/ CountPaths(p) PROVE PathsAgree'
  <2>1. UNCHANGED <<nextPathID, path>>
    BY <1>9 DEF ReportAgain, RemovePath, CountPaths
  <2>2. PICK f \in {"remove", "count", "done"} : failure' = [failure EXCEPT ![p] = f]
    BY <1>9 DEF ReportAgain, RemovePath, CountPaths
  <2>3. path[p] \in {"failed", "closed"}
    BY <1>9 DEF PathsAgree, ReportAgain, RemovePath, CountPaths
  <2> QED
    BY <1>0, <2>1, <2>2, <2>3 DEF PathsAgree
<1>10. CASE NotifyListener \/ NotifyAgain \/ ForceClose
  <2>1. /\ UNCHANGED nextPathID
        /\ \/ UNCHANGED <<path, failure>>
           \/ path' = Ends(1) /\ failure' = Fails(1)
    BY <1>10 DEF NotifyListener, NotifyAgain, ForceClose, Unregistered
  <2>2. 1 \in PathIDs
    BY SessionConstants DEF PathIDs
  <2> QED
    BY <1>1, <1>7, <2>1, <2>2 DEF Ends
<1>11. CASE AppCloses \/ BeginShutdown \/ Drained
  BY <1>1, <1>11 DEF AppCloses, BeginShutdown, Drained
<1>12. ASSUME NEW c \in Closers, EnterClose(c) \/ SkipClose(c) PROVE PathsAgree'
  BY <1>1, <1>12 DEF EnterClose, SkipClose
<1>13. CASE \/ LockPaths \/ UnlockPaths \/ CloseComponents \/ PackerHangs \/ FinishClose
            \/ \E p \in PathIDs : CloseHangs(p)
  BY <1>1, <1>13 DEF LockPaths, UnlockPaths, CloseComponents, PackerHangs, FinishClose, CloseHangs
<1>14. CASE UNCHANGED vars
  BY <1>1, <1>14 DEF vars
<1> QED
  BY <1>3, <1>4, <1>5, <1>6, <1>8, <1>9, <1>10, <1>11, <1>12, <1>13, <1>14
     DEF Next, MainStep, AdderStep, FailureStep, CloseStep, CloserStep, ShutdownStep

\* A path that is open and was not made too late stays in the table until CloseAllPaths takes it out
\* and closes it; no step of the path manager loses one.
LEMMA OpenAreListedStep ==
    Types /\ CloseAgrees /\ PathsAgree /\ OpenAreListed /\ [Next]_vars => OpenAreListed'
<1> SUFFICES ASSUME Types, CloseAgrees, PathsAgree, OpenAreListed, [Next]_vars PROVE OpenAreListed'
  OBVIOUS
<1> USE DEF closing, manager, registration
<1>0. /\ path \in [PathIDs -> {"none", "open", "failed", "closed"}]
      /\ nextPathID \in Nat /\ paths \subseteq PathIDs /\ late \subseteq PathIDs
  BY SessionConstants DEF Types, TypeOK, PathIDs
\* Ends of connections and closes take paths from the open ones.
<1>1. ASSUME UNCHANGED <<paths, step, late>>, \A p \in PathIDs : path'[p] = "open" => path[p] = "open"
      PROVE  OpenAreListed'
  BY <1>1 DEF OpenAreListed
<1>2. ASSUME UNCHANGED <<paths, step, late, path>> PROVE OpenAreListed'
  BY <1>1, <1>2
<1>3. ASSUME NEW p \in PathIDs, path' = Ends(p) PROVE \A q \in PathIDs : path'[q] = "open" => path[q] = "open"
  BY <1>0, <1>3 DEF Ends
<1>4. ASSUME NEW g \in {"main", "adder"}, PathMade(g) \/ PathNotMade(g), UNCHANGED step PROVE OpenAreListed'
  <2>1. CASE UNCHANGED <<paths, path, late>>
    BY <1>2, <1>4, <2>1
  <2>2. CASE /\ paths' = paths \cup {nextPathID + 1} /\ path' = [path EXCEPT ![nextPathID + 1] = "open"]
             /\ late' = IF step \in {"none", "paths"} THEN late ELSE late \cup {nextPathID + 1}
    <3>1. \A q \in PathIDs : path'[q] = "open" => path[q] = "open" \/ q = nextPathID + 1
      BY <1>0, <2>2
    <3>2. late \subseteq late' /\ paths \subseteq paths'
      BY <2>2
    <3>3. nextPathID + 1 \in late' \/ step \in {"none", "paths"}
      BY <2>2
    <3> QED
      BY <1>4, <2>2, <3>1, <3>2, <3>3 DEF OpenAreListed
  <2> QED
    BY <1>4, <2>1, <2>2 DEF PathMade, PathNotMade
<1>5. CASE GotPath \/ NoPathMade
  BY <1>4, <1>5 DEF GotPath, NoPathMade
<1>6. CASE AdderEnds
  BY <1>4, <1>6 DEF AdderEnds
<1>7. CASE BeginSession \/ ReceiveAddPath \/ AdderLocks
  BY <1>2, <1>7 DEF BeginSession, ReceiveAddPath, AdderLocks
<1>8. CASE SetPrimaryPath \/ VerifyPrimary \/ Activate \/ Register \/ RegisterConnection \/ MainCloses
  BY <1>2, <1>8 DEF SetPrimaryPath, VerifyPrimary, Activate, Register, RegisterConnection, MainCloses
<1>9. ASSUME NEW p \in PathIDs, LosePath(p) PROVE OpenAreListed'
  BY <1>1, <1>3, <1>9 DEF LosePath
<1>10. ASSUME NEW p \in PathIDs, ReportAgain(p) \/ CountPaths(p) PROVE OpenAreListed'
  BY <1>2, <1>10 DEF ReportAgain, CountPaths
<1>11. ASSUME NEW p \in PathIDs, RemovePath(p) PROVE OpenAreListed'
  <2>1. path[p] # "open" /\ paths' = paths \ {p} /\ UNCHANGED <<path, step, late>>
    BY <1>11 DEF RemovePath, PathsAgree
  <2> QED
    BY <2>1 DEF OpenAreListed
<1>12. ASSUME NEW p \in PathIDs, ClosePath(p) PROVE OpenAreListed'
  <2>1. /\ step = "closing" /\ paths' = paths \ {p} /\ UNCHANGED <<step, late>>
        /\ path' = IF path[p] = "open" THEN [path EXCEPT ![p] = "closed"] ELSE path
    BY <1>12 DEF ClosePath
  <2>2. \A q \in PathIDs : path'[q] = "open" => q # p /\ path[q] = "open"
    BY <1>0, <2>1
  <2> QED
    BY <2>1, <2>2 DEF OpenAreListed
<1>13. CASE NotifyAgain \/ ForceClose
  <2>1. 1 \in PathIDs
    BY SessionConstants DEF PathIDs
  <2>2. UNCHANGED <<paths, step, late>> /\ path' \in {path, Ends(1)}
    BY <1>13 DEF NotifyAgain, ForceClose, Unregistered
  <2> QED
    BY <1>1, <1>2, <1>3, <2>1, <2>2
<1>14. CASE AppCloses \/ BeginShutdown \/ Drained
  BY <1>2, <1>14 DEF AppCloses, BeginShutdown, Drained
<1>15. ASSUME NEW c \in Closers, SkipClose(c) PROVE OpenAreListed'
  BY <1>2, <1>15 DEF SkipClose
<1>16. ASSUME NEW c \in Closers, EnterClose(c) PROVE OpenAreListed'
  BY <1>16 DEF EnterClose, OpenAreListed
<1>17. CASE LockPaths \/ \E p \in PathIDs : CloseHangs(p)
  BY <1>17 DEF LockPaths, CloseHangs, OpenAreListed
<1>18. CASE UnlockPaths
  BY <1>18 DEF UnlockPaths, OpenAreListed
<1>19. ASSUME step \notin {"none", "paths", "closing", "locked"}, UNCHANGED late,
              \A p \in PathIDs : path'[p] = "open" => path[p] = "open"
       PROVE  OpenAreListed'
  BY <1>19 DEF OpenAreListed
<1>20. CASE CloseComponents \/ PackerHangs \/ FinishClose
  BY <1>19, <1>20 DEF CloseComponents, PackerHangs, FinishClose
<1>21. CASE NotifyListener
  <2>1. 1 \in PathIDs
    BY SessionConstants DEF PathIDs
  <2>2. step = "notify" /\ UNCHANGED late /\ path' \in {path, Ends(1)}
    BY <1>21 DEF NotifyListener, Unregistered
  <2> QED
    BY <1>3, <1>19, <2>1, <2>2
<1>22. CASE UNCHANGED vars
  BY <1>2, <1>22 DEF vars
<1> QED
  BY <1>5, <1>6, <1>7, <1>8, <1>9, <1>10, <1>11, <1>12, <1>13, <1>14, <1>15, <1>16, <1>17, <1>18, <1>20,
     <1>21, <1>22
     DEF Next, MainStep, AdderStep, FailureStep, CloseStep, CloserStep, ShutdownStep

\* While nobody has entered close, whoever takes a path out of the table chooses another primary one.
LEMMA PrimaryStep == CloseAgrees /\ PrimaryIsKnown /\ [Next]_vars => PrimaryIsKnown'
<1> SUFFICES ASSUME CloseAgrees, PrimaryIsKnown, [Next]_vars, once' = "no" PROVE primary' \in paths' \cup {NoPath}
  BY DEF PrimaryIsKnown
<1> USE DEF closing, manager, registration
<1>1. ASSUME UNCHANGED <<once, primary>>, paths \subseteq paths' PROVE primary' \in paths' \cup {NoPath}
  BY <1>1 DEF PrimaryIsKnown
<1>2. ASSUME NEW g \in {"main", "adder"}, PathMade(g) \/ PathNotMade(g)
      PROVE  UNCHANGED primary /\ paths \subseteq paths'
  BY <1>2 DEF PathMade, PathNotMade
<1>3. CASE GotPath \/ NoPathMade
  BY <1>1, <1>2, <1>3 DEF GotPath, NoPathMade
<1>4. CASE AdderEnds
  BY <1>1, <1>2, <1>4 DEF AdderEnds
<1>5. CASE BeginSession \/ ReceiveAddPath \/ AdderLocks
  BY <1>1, <1>5 DEF BeginSession, ReceiveAddPath, AdderLocks
<1>6. CASE SetPrimaryPath
  BY <1>6 DEF SetPrimaryPath, PrimaryIsKnown
<1>7. CASE VerifyPrimary \/ Activate \/ Register \/ RegisterConnection \/ MainCloses
  BY <1>1, <1>7 DEF VerifyPrimary, Activate, Register, RegisterConnection, MainCloses
<1>8. ASSUME NEW p \in PathIDs, LosePath(p) \/ ReportAgain(p) \/ CountPaths(p) PROVE primary' \in paths' \cup {NoPath}
  BY <1>1, <1>8 DEF LosePath, ReportAgain, CountPaths
<1>9. ASSUME NEW p \in PathIDs, RemovePath(p) PROVE primary' \in paths' \cup {NoPath}
  BY <1>9 DEF RemovePath, PrimaryIsKnown
<1>10. ASSUME NEW p \in PathIDs, ClosePath(p) PROVE FALSE
  BY <1>10 DEF ClosePath, CloseAgrees
<1>11. CASE \/ LockPaths \/ UnlockPaths \/ CloseComponents \/ PackerHangs \/ NotifyListener \/ FinishClose
            \/ \E p \in PathIDs : CloseHangs(p)
  BY <1>11 DEF LockPaths, UnlockPaths, CloseComponents, PackerHangs, NotifyListener, FinishClose, CloseHangs,
               CloseAgrees
<1>12. CASE NotifyAgain \/ AppCloses \/ BeginShutdown \/ ShutdownStep
  BY <1>1, <1>12 DEF NotifyAgain, AppCloses, BeginShutdown, ShutdownStep, Drained, ForceClose
<1>13. ASSUME NEW c \in Closers, EnterClose(c) \/ SkipClose(c) PROVE primary' \in paths' \cup {NoPath}
  BY <1>1, <1>13 DEF EnterClose, SkipClose
<1>14. CASE UNCHANGED vars
  BY <1>1, <1>14 DEF vars
<1> QED
  BY <1>3, <1>4, <1>5, <1>6, <1>7, <1>8, <1>9, <1>10, <1>11, <1>12, <1>13, <1>14
     DEF Next, MainStep, AdderStep, FailureStep, CloseStep, CloserStep

-----------------------------------------------------------------------------
(***************************************************************************)
(* The registry                                                            *)
(***************************************************************************)

\* What the registry holds of a session agrees with the place of its Accept and of its close, and an
\* ended shutdown has left nothing.
LEMMA RegistryStep ==
    CloseAgrees /\ RegistryAgrees /\ ShutdownDrains /\ [Next]_vars => RegistryAgrees' /\ ShutdownDrains'
<1> SUFFICES ASSUME CloseAgrees, RegistryAgrees, ShutdownDrains, [Next]_vars
             PROVE  RegistryAgrees' /\ ShutdownDrains'
  OBVIOUS
<1> USE DEF RegistryAgrees, ShutdownDrains, closing, manager, registration
\* Steps that move neither Accept nor the close on.
<1>1. ASSUME UNCHANGED <<role, main, registry, listener, enrolled, drained>>,
             step' \in {"final", "end"} => step \in {"final", "end"}
      PROVE  RegistryAgrees' /\ ShutdownDrains'
  BY <1>1
\* Accept, before it registers the session.
<1>2. ASSUME UNCHANGED <<role, step, registration>>,
             main \in {"start", "making", "primary", "verify", "failing"},
             main' \in {"start", "making", "primary", "verify", "activate", "failing", "failed"}
      PROVE  RegistryAgrees' /\ ShutdownDrains'
  BY <1>2
<1>3. CASE BeginSession
  BY <1>2, <1>3 DEF BeginSession
<1>4. CASE GotPath
  BY <1>2, <1>4 DEF GotPath
<1>5. CASE NoPathMade
  BY <1>2, <1>5 DEF NoPathMade, GiveUpOrRetry
<1>6. CASE SetPrimaryPath
  BY <1>2, <1>6 DEF SetPrimaryPath
<1>7. CASE VerifyPrimary
  BY <1>2, <1>7 DEF VerifyPrimary, GiveUpOrRetry
<1>8. CASE Activate
  BY <1>8 DEF Activate
<1>9. CASE Register
  BY <1>9 DEF Register
<1>10. CASE RegisterConnection
  BY <1>10 DEF RegisterConnection, CloseAgrees
<1>11. CASE MainCloses
  BY <1>2, <1>11 DEF MainCloses
<1>12. CASE ReceiveAddPath \/ AdderStep \/ FailureStep \/ AppCloses
  BY <1>1, <1>12 DEF ReceiveAddPath, AdderStep, AdderLocks, AdderEnds, FailureStep, RemovePath, CountPaths, AppCloses
<1>13. ASSUME NEW p \in PathIDs, LosePath(p) \/ ReportAgain(p) \/ ClosePath(p) \/ CloseHangs(p)
       PROVE  RegistryAgrees' /\ ShutdownDrains'
  BY <1>1, <1>13 DEF LosePath, ReportAgain, ClosePath, CloseHangs
<1>14. ASSUME NEW c \in Closers, EnterClose(c) \/ SkipClose(c) PROVE RegistryAgrees' /\ ShutdownDrains'
  BY <1>1, <1>14 DEF EnterClose, SkipClose
<1>15. CASE LockPaths \/ UnlockPaths \/ FinishClose
  BY <1>1, <1>15 DEF LockPaths, UnlockPaths, FinishClose
<1>16. CASE CloseComponents \/ PackerHangs
  BY <1>16 DEF CloseComponents, PackerHangs
<1>17. CASE NotifyListener
  BY <1>17 DEF NotifyListener, Unregistered
<1>18. CASE NotifyAgain
  BY <1>18 DEF NotifyAgain, Unregistered
<1>19. CASE BeginShutdown
  BY <1>19 DEF BeginShutdown
<1>20. CASE ShutdownStep
  BY <1>20 DEF ShutdownStep, Drained, ForceClose
<1>21. CASE UNCHANGED vars
  BY <1>1, <1>21 DEF vars
<1> QED
  BY <1>3, <1>4, <1>5, <1>6, <1>7, <1>8, <1>9, <1>10, <1>11, <1>12, <1>13, <1>14, <1>15, <1>16, <1>17, <1>18,
     <1>19, <1>20, <1>21
     DEF Next, MainStep, FailureStep, CloseStep, CloserStep

-----------------------------------------------------------------------------
(***************************************************************************)
(* Theorems                                                                *)
(***************************************************************************)

\* Every reachable state satisfies the invariant.
THEOREM SessionInvariant == Spec => []SessionInv
<1>1. SessionInv /\ [Next]_vars => SessionInv'
  BY TypeStep, CloseAgreesStep, PathsAgreeStep, OpenAreListedStep, PrimaryStep, RegistryStep DEF SessionInv
<1> QED
  BY InitSession, <1>1, PTL DEF Spec

\* Every variable has the shape the source gives it; no client makes more attempts than it may.
THEOREM TypeCorrect == Spec => []TypeOK
<1>1. SessionInv => TypeOK
  BY DEF SessionInv, Types
<1> QED
  BY SessionInvariant, <1>1, PTL

\* Whichever paths fail, and in whatever order their goroutines report it, the primary path of a session
\* that is not closed is one of the table.
THEOREM PrimaryIsKnownHolds == Spec => []PrimaryIsKnown
<1>1. SessionInv => PrimaryIsKnown
  BY DEF SessionInv
<1> QED
  BY SessionInvariant, <1>1, PTL

\* A finished close has left no path open that was made before it came to the paths.
THEOREM CloseReachesPathsHolds == Spec => []CloseReachesPaths
<1>1. SessionInv => CloseReachesPaths
  BY DEF SessionInv, CloseAgrees, OpenAreListed, CloseReachesPaths
<1> QED
  BY SessionInvariant, <1>1, PTL

\* A finished close has taken the session out of both maps of the registry, unless it began before the
\* session was in them.
THEOREM ClosedIsUnregisteredHolds == Spec => []ClosedIsUnregistered
<1>1. SessionInv => ClosedIsUnregistered
  BY DEF SessionInv, CloseAgrees, RegistryAgrees, ClosedIsUnregistered
<1> QED
  BY SessionInvariant, <1>1, PTL

\* A listener that has shut down has lost every session it had registered.
THEOREM ShutdownDrainsHolds == Spec => []ShutdownDrains
<1>1. SessionInv => ShutdownDrains
  BY DEF SessionInv
<1> QED
  BY SessionInvariant, <1>1, PTL

=============================================================================
