--------------------------- MODULE PathLinkProof ---------------------------
(***************************************************************************)
(* Proofs about one path, for any number of writers and any limit on       *)
(* recoveries.                                                             *)
(***************************************************************************)
EXTENDS PathLink, TLAPS, FiniteSetTheorems

Recovering == {"old", "reopen", "install"}
Active == {"read", "recover", "old", "reopen", "install"}

\* Who recovers the stream holds recoveryMu.
OneRecovers == \A g \in Goroutines : pc[g] \in Recovering => recoveryMu = g

\* A writer keeps transportStreamMu from its write to its return; since the recovery asks for
\* that lock, it gets no further than "old".
WriterHolds ==
    \A w \in Writers :
        /\ pc[w] \in {"idle", "lock", "write", "recover", "old"}
        /\ pc[w] \in {"write", "recover", "old"} => streamMu = w

ReaderPlaces ==
    \A k \in Streams : pc[k] \in {"none", "read", "eof", "done", "recover", "old", "reopen", "install"}

\* Nothing runs before NewPath has a stream.
NothingEarly ==
    /\ newPath = "opening" => /\ streams = 0
                              /\ \A g \in Goroutines : pc[g] \in {"idle", "none"}
    /\ state = "ready" => newPath = "returned"

\* A stream that has not been made has no reader; one that has been made and is not
\* installed has none either.
NotMade ==
    /\ \A k \in Streams : k > streams => pc[k] = "none"
    /\ \A g \in Goroutines : pc[g] = "install" => streams \in Streams /\ pc[streams] = "none"

\* The attempt that pays for a stream is counted before the stream is made.
Paid ==
    /\ attempts <= MaxRecovery /\ streams <= attempts + 1
    /\ \A g \in Goroutines : pc[g] \in {"old", "reopen"} => streams <= attempts

\* One reader at a time reads, or recovers the stream it has read.
OneActive == \A j, k \in Streams : pc[j] \in Active /\ pc[k] \in Active => j = k

LinkInv ==
    TypeOK /\ OneRecovers /\ WriterHolds /\ ReaderPlaces /\ NothingEarly /\ NotMade /\ Paid /\ OneActive

\* The places of writers and readers.
PCs == {"idle", "none", "lock", "write", "read", "eof", "done", "recover", "old", "reopen", "install"}

\* The initial state satisfies the invariant.
LEMMA InitLink == Init => LinkInv
<1> SUFFICES ASSUME Init PROVE LinkInv
  OBVIOUS
<1> USE LinkConstants DEF Init
<1>0. closed \in BOOLEAN /\ fatalError \in BOOLEAN /\ registered \in BOOLEAN /\ reported \in BOOLEAN /\ crashed \in BOOLEAN
  OBVIOUS
<1>1. TypeOK
  BY <1>0 DEF TypeOK, Goroutines, Streams, NoStream
<1>2. OneRecovers /\ WriterHolds /\ ReaderPlaces
  BY DEF OneRecovers, WriterHolds, ReaderPlaces, Recovering, Goroutines, Streams
<1>3. NothingEarly /\ NotMade
  BY DEF NothingEarly, NotMade, Goroutines, Streams
<1>4. Paid /\ OneActive
  BY DEF Paid, OneActive, Active, Goroutines, Streams
<1> QED
  BY <1>1, <1>2, <1>3, <1>4 DEF LinkInv

\* What Leave does to the place of a goroutine and to transportStreamMu.
LEMMA LeaveType ==
    ASSUME TypeOK, NEW g \in Goroutines, Leave(g)
    PROVE  /\ pc' = [pc EXCEPT ![g] = IF g \in Writers THEN "idle" ELSE "done"]
           /\ pc' \in [Goroutines -> PCs]
           /\ streamMu' = IF g \in Writers THEN NoOne ELSE streamMu
           /\ streamMu' \in Writers \cup {NoOne}
<1>1. pc' = [pc EXCEPT ![g] = IF g \in Writers THEN "idle" ELSE "done"]
  BY DEF Leave, Goto
<1>2. streamMu' = IF g \in Writers THEN NoOne ELSE streamMu
  BY DEF Leave
<1> QED
  BY <1>1, <1>2 DEF TypeOK, PCs

\* Steps keep the types.
LEMMA TypeStep == LinkInv /\ [Next]_vars => TypeOK'
<1> SUFFICES ASSUME LinkInv, [Next]_vars PROVE TypeOK'
  OBVIOUS
<1> USE LinkConstants DEF LinkInv, TypeOK, Goroutines, Streams, NoStream
<1>1. ASSUME NEW class \in {"fatal", "other"}, LoseConnection(class) PROVE TypeOK'
  BY <1>1 DEF LoseConnection, link, flags, locks, ends
<1>2. ASSUME ResetStream PROVE TypeOK'
  BY <1>2 DEF ResetStream, link, flags, locks, ends
<1>3. ASSUME StartPath PROVE TypeOK'
  BY <1>3 DEF StartPath, Goto, link, flags, locks, ends
<1>4. ASSUME GiveUpPath PROVE TypeOK'
  BY <1>4 DEF GiveUpPath, link, flags, locks, ends
<1>5. ASSUME StoreReady PROVE TypeOK'
  BY <1>5 DEF StoreReady, link, flags, locks, ends
<1>6. ASSUME NEW w \in Writers, BeginWrite(w) PROVE TypeOK'
  BY <1>6 DEF BeginWrite, Goto, link, flags, locks, ends
<1>7. ASSUME NEW w \in Writers, LockStream(w) PROVE TypeOK'
  BY <1>7 DEF LockStream, Goto, link, flags, locks, ends
<1>8. ASSUME NEW w \in Writers, WriteSucceeds(w) PROVE TypeOK'
  <2>1. pc' \in [Goroutines -> PCs] /\ streamMu' \in Writers \cup {NoOne}
    BY <1>8, LeaveType DEF WriteSucceeds, PCs, link, flags, locks, ends
  <2> QED
    BY <1>8, <2>1 DEF WriteSucceeds, PCs, link, flags, locks, ends
<1>9. ASSUME NEW w \in Writers, WriteFails(w) PROVE TypeOK'
  <2>1. pc' \in [Goroutines -> PCs] /\ streamMu' \in Writers \cup {NoOne}
    BY <1>9, LeaveType DEF WriteFails, FatalError, TryRecover, Goto, PCs, link, flags, locks, ends
  <2>2. fatalError' \in BOOLEAN
    BY <1>9 DEF WriteFails, FatalError, TryRecover, Goto, link, flags, locks, ends
  <2>3. failer' \in [Goroutines \cup {Monitor} -> {"none", "watch", "mark", "test", "end", "report", "done"}]
    BY <1>9 DEF WriteFails, FatalError, TryRecover, Goto, link, flags, locks, ends
  <2>4. closed' \in BOOLEAN /\ registered' \in BOOLEAN /\ reported' \in BOOLEAN /\ crashed' \in BOOLEAN
    BY <1>9 DEF WriteFails, FatalError, TryRecover, Goto, link, flags, locks, ends
  <2>5. attempts' \in Nat /\ streams' \in 0 .. MaxRecovery + 1 /\ recoveryMu' \in Goroutines \cup {NoOne}
    BY <1>9 DEF WriteFails, FatalError, TryRecover, Goto, link, flags, locks, ends
  <2>6. UNCHANGED <<conn, reset, ended, state, transportStream, newPath, closer>>
    BY <1>9 DEF WriteFails, FatalError, TryRecover, Goto, link, flags, locks, ends
  <2> QED
    BY <2>1, <2>2, <2>3, <2>4, <2>5, <2>6 DEF PCs
<1>10. ASSUME NEW k \in Streams, ReadFails(k) PROVE TypeOK'
  <2>1. pc' \in [Goroutines -> PCs] /\ streamMu' \in Writers \cup {NoOne}
    BY <1>10, LeaveType DEF ReadFails, FatalError, TryRecover, Goto, PCs, link, flags, locks, ends
  <2>2. fatalError' \in BOOLEAN
    BY <1>10 DEF ReadFails, FatalError, TryRecover, Goto, link, flags, locks, ends
  <2>3. failer' \in [Goroutines \cup {Monitor} -> {"none", "watch", "mark", "test", "end", "report", "done"}]
    BY <1>10 DEF ReadFails, FatalError, TryRecover, Goto, link, flags, locks, ends
  <2>4. closed' \in BOOLEAN /\ registered' \in BOOLEAN /\ reported' \in BOOLEAN /\ crashed' \in BOOLEAN
    BY <1>10 DEF ReadFails, FatalError, TryRecover, Goto, link, flags, locks, ends
  <2>5. attempts' \in Nat /\ streams' \in 0 .. MaxRecovery + 1 /\ recoveryMu' \in Goroutines \cup {NoOne}
    BY <1>10 DEF ReadFails, FatalError, TryRecover, Goto, link, flags, locks, ends
  <2>6. UNCHANGED <<conn, reset, ended, state, transportStream, newPath, closer>>
    BY <1>10 DEF ReadFails, FatalError, TryRecover, Goto, link, flags, locks, ends
  <2> QED
    BY <2>1, <2>2, <2>3, <2>4, <2>5, <2>6 DEF PCs
<1>11. ASSUME NEW k \in Streams, ReaderEnds(k) PROVE TypeOK'
  BY <1>11 DEF ReaderEnds, Goto, link, flags, locks, ends
<1>12. ASSUME NEW g \in Goroutines, LockRecovery(g) PROVE TypeOK'
  <2>1. pc' \in [Goroutines -> PCs] /\ streamMu' \in Writers \cup {NoOne}
    BY <1>12, LeaveType DEF LockRecovery, Goto, PCs, link, flags, locks, ends
  <2>2. fatalError' \in BOOLEAN
    BY <1>12 DEF LockRecovery, Goto, link, flags, locks, ends
  <2>3. failer' \in [Goroutines \cup {Monitor} -> {"none", "watch", "mark", "test", "end", "report", "done"}]
    BY <1>12 DEF LockRecovery, Goto, link, flags, locks, ends
  <2>4. closed' \in BOOLEAN /\ registered' \in BOOLEAN /\ reported' \in BOOLEAN /\ crashed' \in BOOLEAN
    BY <1>12 DEF LockRecovery, Goto, link, flags, locks, ends
  <2>5. attempts' \in Nat /\ streams' \in 0 .. MaxRecovery + 1 /\ recoveryMu' \in Goroutines \cup {NoOne}
    BY <1>12 DEF LockRecovery, Goto, link, flags, locks, ends
  <2>6. UNCHANGED <<conn, reset, ended, state, transportStream, newPath, closer>>
    BY <1>12 DEF LockRecovery, Goto, link, flags, locks, ends
  <2> QED
    BY <2>1, <2>2, <2>3, <2>4, <2>5, <2>6 DEF PCs
<1>13. ASSUME NEW g \in Goroutines, CloseOld(g) PROVE TypeOK'
  BY <1>13 DEF CloseOld, Goto, link, flags, locks, ends
<1>14. ASSUME NEW g \in Goroutines, Reopen(g) PROVE TypeOK'
  <2>1. pc' \in [Goroutines -> PCs] /\ streamMu' \in Writers \cup {NoOne}
    BY <1>14, LeaveType DEF Reopen, Goto, PCs, link, flags, locks, ends
  <2>2. fatalError' \in BOOLEAN
    BY <1>14 DEF Reopen, Goto, link, flags, locks, ends
  <2>3. failer' \in [Goroutines \cup {Monitor} -> {"none", "watch", "mark", "test", "end", "report", "done"}]
    BY <1>14 DEF Reopen, Goto, link, flags, locks, ends
  <2>4. closed' \in BOOLEAN /\ registered' \in BOOLEAN /\ reported' \in BOOLEAN /\ crashed' \in BOOLEAN
    BY <1>14 DEF Reopen, Goto, link, flags, locks, ends
  <2>5. attempts' \in Nat /\ streams' \in 0 .. MaxRecovery + 1 /\ recoveryMu' \in Goroutines \cup {NoOne}
    BY <1>14 DEF Reopen, Goto, link, flags, locks, ends, Paid
  <2>6. UNCHANGED <<conn, reset, ended, state, transportStream, newPath, closer>>
    BY <1>14 DEF Reopen, Goto, link, flags, locks, ends
  <2> QED
    BY <2>1, <2>2, <2>3, <2>4, <2>5, <2>6 DEF PCs
<1>15. ASSUME NEW g \in Goroutines, Install(g) PROVE TypeOK'
  <2>1. pc' \in [Goroutines -> PCs]
    BY <1>15 DEF Install, PCs
  <2>2. transportStream' \in Streams
    BY <1>15 DEF Install, NotMade
  <2> QED
    BY <1>15, <2>1, <2>2 DEF Install, PCs, link, flags, locks, ends
<1>16. ASSUME NoticeLoss PROVE TypeOK'
  BY <1>16 DEF NoticeLoss, link, flags, locks, ends
<1>17. ASSUME NEW g \in Goroutines \cup {Monitor}, MarkFailed(g) PROVE TypeOK'
  BY <1>17 DEF MarkFailed, link, flags, locks, ends
<1>18. ASSUME NEW g \in Goroutines \cup {Monitor}, TestStream(g) PROVE TypeOK'
  BY <1>18 DEF TestStream, link, flags, locks, ends
<1>19. ASSUME NEW g \in Goroutines \cup {Monitor}, EndStream(g) PROVE TypeOK'
  <2>1. crashed' \in BOOLEAN
    BY <1>19 DEF EndStream
  <2>2. ended' \subseteq Streams
    BY <1>19 DEF EndStream
  <2>3. failer' \in [Goroutines \cup {Monitor} -> {"none", "watch", "mark", "test", "end", "report", "done"}]
    BY <1>19 DEF EndStream
  <2> QED
    BY <1>19, <2>1, <2>2, <2>3 DEF EndStream, link, flags, locks, ends
<1>20. ASSUME NEW g \in Goroutines \cup {Monitor}, ReportFailure(g) PROVE TypeOK'
  BY <1>20 DEF ReportFailure, link, flags, locks, ends
<1>21. ASSUME BeginClose PROVE TypeOK'
  BY <1>21 DEF BeginClose, link, flags, locks, ends
<1>22. ASSUME StoreClosed PROVE TypeOK'
  BY <1>22 DEF StoreClosed, link, flags, locks, ends
<1>23. ASSUME DropStream PROVE TypeOK'
  BY <1>23 DEF DropStream, link, flags, locks, ends
<1>24. ASSUME Unregister PROVE TypeOK'
  <2>1. registered' \in BOOLEAN
    BY <1>24 DEF Unregister
  <2> QED
    BY <1>24, <2>1 DEF Unregister, link, flags, locks, ends
<1>25. ASSUME CloseConnection PROVE TypeOK'
  BY <1>25 DEF CloseConnection, link, flags, locks, ends
<1>26. CASE UNCHANGED vars
  BY <1>26 DEF vars, link, flags, locks, ends
<1> QED
  BY <1>1, <1>2, <1>3, <1>4, <1>5, <1>6, <1>7, <1>8, <1>9, <1>10, <1>11, <1>12, <1>13, <1>14, <1>15, <1>16, <1>17, <1>18, <1>19, <1>20, <1>21, <1>22, <1>23, <1>24, <1>25, <1>26
     DEF Next, Quic, WriterStep, ReaderFails, RecoveryStep, FailerStep, CloserStep

\* What the core of the invariant is about: it changes in few actions only.
Core == <<pc, streamMu, recoveryMu, streams, attempts>>
CoreInv == OneRecovers /\ WriterHolds /\ ReaderPlaces /\ NotMade /\ Paid /\ OneActive

CoreStep ==
    \/ StartPath
    \/ \E w \in Writers : BeginWrite(w) \/ LockStream(w) \/ WriteSucceeds(w) \/ WriteFails(w)
    \/ \E k \in Streams : ReadFails(k) \/ ReaderEnds(k)
    \/ \E g \in Goroutines : LockRecovery(g) \/ CloseOld(g) \/ Reopen(g) \/ Install(g)

\* Every step is one of those, or leaves the five variables alone.
LEMMA StepKinds == [Next]_vars => CoreStep \/ UNCHANGED Core
<1> SUFFICES ASSUME [Next]_vars, ~CoreStep PROVE UNCHANGED Core
  OBVIOUS
<1> USE DEF Core, link, flags, locks, ends
<1>1. CASE Quic \/ GiveUpPath \/ StoreReady
  BY <1>1 DEF Quic, LoseConnection, ResetStream, GiveUpPath, StoreReady
<1>2. CASE NoticeLoss \/ BeginClose \/ CloserStep
  BY <1>2 DEF NoticeLoss, BeginClose, CloserStep, StoreClosed, DropStream, Unregister, CloseConnection
<1>3. CASE \E g \in Goroutines \cup {Monitor} : FailerStep(g)
  BY <1>3 DEF FailerStep, MarkFailed, TestStream, EndStream, ReportFailure
<1>4. CASE UNCHANGED vars
  BY <1>4 DEF vars
<1> QED
  BY <1>1, <1>2, <1>3, <1>4 DEF Next, CoreStep, WriterStep, ReaderFails, RecoveryStep

\* Steps keep the core of the invariant: the places of the goroutines fit the locks they hold,
\* every stream made is paid for, and one reader at a time is active.
LEMMA CoreSteps == LinkInv /\ [Next]_vars => CoreInv'
<1> SUFFICES ASSUME LinkInv, CoreStep \/ UNCHANGED Core PROVE CoreInv'
  BY StepKinds
<1> USE LinkConstants DEF LinkInv, CoreInv, OneRecovers, WriterHolds, ReaderPlaces, NotMade, Paid, OneActive, Recovering, Active, Goroutines, Streams
<1>0. pc \in [Goroutines -> PCs] /\ attempts \in Nat /\ streams \in 0 .. MaxRecovery + 1
  BY DEF TypeOK, PCs
<1>1. ASSUME StartPath PROVE CoreInv'
  BY <1>0, <1>1 DEF StartPath, Goto, NothingEarly, link, flags, locks, ends
<1>2. ASSUME NEW w \in Writers, BeginWrite(w) PROVE CoreInv'
  BY <1>0, <1>2 DEF BeginWrite, Goto, link, flags, locks, ends
<1>3. ASSUME NEW w \in Writers, LockStream(w) PROVE CoreInv'
  BY <1>0, <1>3 DEF LockStream, Goto, link, flags, locks, ends
<1>4. ASSUME NEW w \in Writers, WriteSucceeds(w) PROVE CoreInv'
  BY <1>0, <1>4, LeaveType DEF WriteSucceeds, link, flags, locks, ends
<1>5. ASSUME NEW w \in Writers, WriteFails(w) PROVE CoreInv'
  BY <1>0, <1>5, LeaveType DEF WriteFails, FatalError, TryRecover, Goto, link, flags, locks, ends
<1>6. ASSUME NEW k \in Streams, ReadFails(k) PROVE CoreInv'
  BY <1>0, <1>6, LeaveType DEF ReadFails, FatalError, TryRecover, Goto, link, flags, locks, ends
<1>7. ASSUME NEW k \in Streams, ReaderEnds(k) PROVE CoreInv'
  BY <1>0, <1>7 DEF ReaderEnds, Goto, link, flags, locks, ends
<1>8. ASSUME NEW g \in Goroutines, LockRecovery(g) PROVE CoreInv'
  BY <1>0, <1>8, LeaveType DEF LockRecovery, Goto, link, flags, locks, ends
<1>9. ASSUME NEW g \in Goroutines, CloseOld(g) PROVE CoreInv'
  BY <1>0, <1>9 DEF CloseOld, Goto, link, flags, locks, ends
<1>10. ASSUME NEW g \in Goroutines, Reopen(g) PROVE CoreInv'
  BY <1>0, <1>10, LeaveType DEF Reopen, Goto, link, flags, locks, ends
<1>11. ASSUME NEW g \in Goroutines, Install(g) PROVE CoreInv'
  BY <1>0, <1>11 DEF Install, link, flags, locks, ends
<1>12. CASE UNCHANGED Core
  BY <1>12 DEF Core
<1> QED
  BY <1>1, <1>2, <1>3, <1>4, <1>5, <1>6, <1>7, <1>8, <1>9, <1>10, <1>11, <1>12 DEF CoreStep

\* Steps keep NothingEarly: until NewPath has a stream no goroutine leaves its first place.
LEMMA EarlySteps == LinkInv /\ [Next]_vars => NothingEarly'
<1> SUFFICES ASSUME LinkInv, [Next]_vars PROVE NothingEarly'
  OBVIOUS
<1> USE LinkConstants DEF LinkInv, NothingEarly, Goroutines, Streams
<1>0. pc \in [Goroutines -> PCs] /\ closed \in BOOLEAN
  BY DEF TypeOK, PCs
<1>1. CASE Quic
  BY <1>1 DEF Quic, LoseConnection, ResetStream, link, flags, locks, ends
<1>2. CASE StartPath \/ GiveUpPath \/ StoreReady
  BY <1>2 DEF StartPath, GiveUpPath, StoreReady, link, flags, locks, ends
<1>3. ASSUME NEW w \in Writers, BeginWrite(w) \/ LockStream(w) \/ WriterStep(w)
      PROVE  NothingEarly'
  <2>1. newPath # "opening" /\ UNCHANGED <<newPath, state>>
    BY <1>0, <1>3 DEF BeginWrite, LockStream, WriterStep, WriteSucceeds, WriteFails, link, flags, locks, ends
  <2> QED
    BY <2>1
<1>4. ASSUME NEW k \in Streams, ReadFails(k) \/ ReaderEnds(k) PROVE NothingEarly'
  <2>1. newPath # "opening" /\ UNCHANGED <<newPath, state>>
    BY <1>0, <1>4 DEF ReadFails, ReaderEnds, link, flags, locks, ends
  <2> QED
    BY <2>1
<1>5. ASSUME NEW g \in Goroutines, LockRecovery(g) \/ RecoveryStep(g) PROVE NothingEarly'
  <2>1. newPath # "opening" /\ UNCHANGED <<newPath, state>>
    BY <1>0, <1>5 DEF LockRecovery, RecoveryStep, CloseOld, Reopen, Install, link, flags, locks, ends
  <2> QED
    BY <2>1
<1>6. CASE NoticeLoss \/ BeginClose \/ CloserStep
  BY <1>6 DEF NoticeLoss, BeginClose, CloserStep, StoreClosed, DropStream, Unregister, CloseConnection,
              link, flags, locks, ends
<1>7. ASSUME NEW g \in Goroutines \cup {Monitor}, FailerStep(g) PROVE NothingEarly'
  BY <1>7 DEF FailerStep, MarkFailed, TestStream, EndStream, ReportFailure, link, flags, locks, ends
<1>8. CASE UNCHANGED vars
  BY <1>8 DEF vars, link, flags, locks, ends
<1> QED
  BY <1>1, <1>2, <1>3, <1>4, <1>5, <1>6, <1>7, <1>8 DEF Next, ReaderFails

\* The invariant holds in every behaviour of a path (path.go, reader.go): locks and places of
\* writers, readers and recoveries agree, and every stream is paid for.
THEOREM LinkInvariant == Spec => []LinkInv
<1>1. LinkInv /\ [Next]_vars => LinkInv'
  BY TypeStep, CoreSteps, EarlySteps DEF LinkInv, CoreInv
<1> QED
  BY <1>1, InitLink, PTL DEF Spec

\* The variables of a path keep their types, whatever order its goroutines run in; among
\* others, a recovery never makes more streams than the limit allows for.
THEOREM LinkTypeCorrect == Spec => []TypeOK
<1>1. LinkInv => TypeOK
  BY DEF LinkInv
<1> QED
  BY <1>1, LinkInvariant, PTL

\* tryRecoverTransportStream looks at the attempts with recoveryMu held: a path makes at most one
\* stream, and one more for each attempt it has counted, however many goroutines ask at once.
THEOREM RecoveriesCountedHolds == Spec => []RecoveriesCounted
<1>1. LinkInv => RecoveriesCounted
  BY DEF LinkInv, Paid, RecoveriesCounted, TypeOK
<1> QED
  BY <1>1, LinkInvariant, PTL

\* At most one reader goroutine of a path reads.  A recovery starts a second one only if a
\* reader asked for it: a writer waits at the old stream for the lock it holds itself.
THEOREM OneReaderReadsHolds == Spec => []OneReaderReads
<1>1. LinkInv => OneReaderReads
  <2> SUFFICES ASSUME LinkInv PROVE OneReaderReads
    OBVIOUS
  <2> DEFINE Reading == {k \in Streams : pc[k] = "read"}
  <2>1. \A j, k \in Reading : j = k
    BY DEF LinkInv, OneActive, Active
  <2>2. Cardinality(Reading) <= 1
    <3>1. CASE Reading = {}
      BY <3>1, FS_EmptySet
    <3>2. CASE Reading # {}
      <4>1. PICK k \in Reading : TRUE
        BY <3>2
      <4>2. Reading = {k}
        BY <4>1, <2>1
      <4>3. Cardinality({k}) = 1
        BY FS_Singleton
      <4> QED
        BY <4>2, <4>3
    <3> QED
      BY <3>1, <3>2
  <2> QED
    BY <2>2 DEF OneReaderReads
<1> QED
  BY <1>1, LinkInvariant, PTL

=============================================================================
