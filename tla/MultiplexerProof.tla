-------------------------- MODULE MultiplexerProof --------------------------
(***************************************************************************)
(* Proofs about the receiving side of a session, for any paths, reader     *)
(* goroutines, packet numbers, streams, threshold and queue capacity.      *)
(***************************************************************************)
EXTENDS Multiplexer, TLAPS, FiniteSetTheorems, WellFoundedInduction, SequenceTheorems

-----------------------------------------------------------------------------
(***************************************************************************)
(* Induction over numbers, as the existence of least elements              *)
(***************************************************************************)

\* A set of natural numbers that is not empty has a least element.
LEMMA LeastNatural ==
    ASSUME NEW T \in SUBSET Nat, T # {}
    PROVE  \E m \in T : \A k \in T : m <= k
<1> DEFINE Below == {0 .. n : n \in T}
<1>1. Below \subseteq FiniteSubsetsOf(Nat) /\ Below # {}
  <2>1. \A n \in T : 0 .. n \in SUBSET Nat /\ IsFiniteSet(0 .. n)
    BY FS_Interval
  <2> QED
    BY <2>1 DEF FiniteSubsetsOf
<1>2. \E x \in Below : \A y \in Below : <<y, x>> \notin StrictSubsetOrdering(Nat)
  <2> HIDE DEF Below
  <2> QED
    BY <1>1, FS_StrictSubsetOrderingWellFounded, WFMin
<1>3. PICK m \in T : \A k \in T : <<0 .. k, 0 .. m>> \notin StrictSubsetOrdering(Nat)
  BY <1>2
<1>4. ASSUME NEW k \in T, k < m PROVE FALSE
  <2>1. m \in 0 .. m /\ m \notin 0 .. k
    BY <1>4
  <2>2. /\ 0 .. k \subseteq 0 .. m /\ 0 .. k # 0 .. m
        /\ 0 .. k \in SUBSET Nat /\ 0 .. m \in SUBSET Nat
    BY <1>4, <2>1
  <2> QED
    BY <1>3, <2>2 DEF StrictSubsetOrdering
<1> QED
  BY <1>3, <1>4

-----------------------------------------------------------------------------
(***************************************************************************)
(* GetAckRanges                                                            *)
(***************************************************************************)

\* One turn of the loop over the numbers, as the recursive definition states it.
Turn(S, loop, n) ==
    IF n = 0 THEN [ranges |-> {}, start |-> Smallest(S), prev |-> Smallest(S)]
    ELSE IF n \in S \ {Smallest(S)} THEN Extended(loop[n - 1], n)
    ELSE loop[n - 1]

\* The loop is defined for every set of numbers, and obeys its definition.
LEMMA LoopedDef ==
    ASSUME NEW S
    PROVE  Looped(S) = [n \in 0 .. MaxSeq |-> Turn(S, Looped(S), n)]
<1> DEFINE Upto(k, g) == g = [n \in 0 .. k |-> Turn(S, g, n)]
           Bad == {k \in 0 .. MaxSeq : ~ \E g : Upto(k, g)}
<1>0. MaxSeq \in Nat
  BY MultiplexerConstants
<1>1. Bad = {}
  <2> SUFFICES ASSUME Bad # {} PROVE FALSE
    OBVIOUS
  <2>1. PICK m \in Bad : \A k \in Bad : m <= k
    <3> HIDE DEF Upto
    <3>1. Bad \in SUBSET Nat
      OBVIOUS
    <3> QED
      BY <3>1, LeastNatural
  <2>2. m \in Nat /\ m <= MaxSeq
    BY <1>0, <2>1
  <2>3. m # 0
    <3> DEFINE g == [n \in 0 .. 0 |-> [ranges |-> {}, start |-> Smallest(S), prev |-> Smallest(S)]]
    <3>1. g = [n \in 0 .. 0 |-> Turn(S, g, n)]
      BY DEF Turn
    <3>2. Upto(0, g)
      BY <3>1
    <3> HIDE DEF g, Upto
    <3> QED
      BY <3>2, <2>1
  <2>4. m - 1 \in 0 .. MaxSeq /\ m - 1 \notin Bad
    <3> HIDE DEF Bad
    <3> QED
      BY <1>0, <2>1, <2>2, <2>3
  <2>5. PICK g : Upto(m - 1, g)
    <3> HIDE DEF Upto
    <3> QED
      BY <2>4
  <2> DEFINE h == [n \in 0 .. m |-> IF n = m THEN Turn(S, g, m) ELSE g[n]]
  <2>6. ASSUME NEW n \in 0 .. m PROVE h[n] = Turn(S, h, n)
    <3>1. \A i \in 0 .. m - 1 : h[i] = g[i]
      BY <2>2
    <3>2. n # 0 => n - 1 \in 0 .. m - 1
      BY <2>2
    <3>3. Turn(S, h, n) = Turn(S, g, n)
      <4> HIDE DEF h, Upto
      <4> QED
        BY <3>1, <3>2 DEF Turn
    <3>4. CASE n = m
      BY <3>3, <3>4
    <3>5. CASE n # m
      <4>1. n \in 0 .. m - 1
        BY <2>2, <3>5
      <4>2. g[n] = Turn(S, g, n)
        BY <2>5, <4>1
      <4> QED
        BY <3>1, <3>3, <4>1, <4>2
    <3> QED
      BY <3>4, <3>5
  <2>7. Upto(m, h)
    <3>1. h = [n \in 0 .. m |-> h[n]]
      OBVIOUS
    <3> HIDE DEF h
    <3> QED
      BY <2>6, <3>1
  <2> HIDE DEF Upto, h
  <2> QED
    BY <2>1, <2>7
<1>2. \E g : Upto(MaxSeq, g)
  <2>1. MaxSeq \in 0 .. MaxSeq
    BY <1>0
  <2> HIDE DEF Upto
  <2> QED
    BY <1>1, <2>1
<1>3. PICK g : g = [n \in 0 .. MaxSeq |-> Turn(S, g, n)]
  BY <1>2
<1>4. Looped(S) = CHOOSE loop : loop = [n \in 0 .. MaxSeq |-> Turn(S, loop, n)]
  BY DEF Looped, Turn
<1> QED
  BY <1>3, <1>4

\* Smallest finds the least number of a set that is not empty.
LEMMA SmallestIsLeast ==
    ASSUME NEW S \in SUBSET Seqs, S # {}
    PROVE  Smallest(S) \in S /\ \A m \in S : Smallest(S) <= m
<1>1. S \in SUBSET Nat
  BY MultiplexerConstants DEF Seqs
<1>2. \E n \in S : \A m \in S : n <= m
  BY <1>1, LeastNatural
<1> QED
  BY <1>2 DEF Smallest

\* An interval of numbers of S that no number of S touches at either end.
Interval(i, S) ==
    /\ i \in AckRange
    /\ i.smallest .. i.largest \subseteq S /\ i.smallest <= i.largest
    /\ i.smallest - 1 \notin S /\ i.largest + 1 \notin S

\* The loop invariant after the numbers up to n: the range under construction lies in S, starts
\* where an interval of S starts and ends with the last number seen; the ranges are the
\* intervals before it.
LoopInv(S, acc, n) ==
    /\ acc = [ranges |-> acc.ranges, start |-> acc.start, prev |-> acc.prev]
    /\ acc.start \in S /\ acc.prev \in S /\ acc.start <= acc.prev
    /\ acc.start .. acc.prev \subseteq S /\ acc.start - 1 \notin S
    /\ \A m \in S : m <= n => m <= acc.prev
    /\ acc.prev <= n \/ acc.prev = Smallest(S)
    /\ acc.ranges = {i \in AckRange : Interval(i, S) /\ i.largest < acc.start}

\* The range under construction is the interval of its place once no number that follows touches it:
\* appending it gives all intervals up to its end.
LEMMA AppendInterval ==
    ASSUME NEW S \in SUBSET Seqs, NEW acc, NEW n \in Nat, LoopInv(S, acc, n), acc.prev + 1 \notin S
    PROVE  Appended(acc) = {i \in AckRange : Interval(i, S) /\ i.largest <= acc.prev}
<1> DEFINE new == [smallest |-> acc.start, largest |-> acc.prev]
<1>0. S \subseteq Nat /\ S \subseteq Seqs /\ Seqs \subseteq Nat
  BY MultiplexerConstants DEF Seqs
<1>1. acc.start \in Nat /\ acc.prev \in Nat /\ acc.start <= acc.prev /\ acc.start \in S
      /\ acc.prev \in S /\ acc.start - 1 \notin S /\ acc.start .. acc.prev \subseteq S
  BY <1>0 DEF LoopInv
<1>2. new \in AckRange /\ Interval(new, S) /\ new.largest = acc.prev
  BY <1>0, <1>1 DEF Interval, AckRange
<1>3. ASSUME NEW i \in AckRange, Interval(i, S), i.largest <= acc.prev, ~(i.largest < acc.start)
      PROVE  i = new
  <2>1. i.smallest \in Nat /\ i.largest \in Nat /\ i.smallest <= i.largest
    BY <1>0, <1>3 DEF AckRange, Interval
  <2>2. i.smallest >= acc.start
    <3>1. CASE i.smallest < acc.start
      <4>1. acc.start - 1 \in i.smallest .. i.largest
        BY <1>1, <1>3, <2>1, <3>1
      <4> QED
        BY <1>1, <1>3, <4>1 DEF Interval
    <3> QED
      BY <1>1, <2>1, <3>1
  <2>3. i.smallest = acc.start
    <3>1. CASE i.smallest > acc.start
      <4>1. i.smallest - 1 \in acc.start .. acc.prev
        BY <1>1, <1>3, <2>1, <3>1
      <4> QED
        BY <1>1, <1>3, <4>1 DEF Interval
    <3> QED
      BY <1>1, <2>1, <2>2, <3>1
  <2>4. i.largest = acc.prev
    <3>1. CASE i.largest < acc.prev
      <4>1. i.largest + 1 \in acc.start .. acc.prev
        BY <1>1, <1>3, <2>1, <3>1
      <4> QED
        BY <1>1, <1>3, <4>1 DEF Interval
    <3> QED
      BY <1>1, <1>3, <2>1, <3>1
  <2> QED
    BY <2>3, <2>4 DEF AckRange
<1>4. ASSUME NEW i \in AckRange, i.largest < acc.start PROVE i.largest <= acc.prev
  <2>1. i.largest \in Nat
    BY <1>0 DEF AckRange
  <2> QED
    BY <1>1, <1>4, <2>1
<1>5. acc.ranges = {i \in AckRange : Interval(i, S) /\ i.largest < acc.start}
  BY DEF LoopInv
<1>6. new.largest <= acc.prev
  BY <1>1
<1> HIDE DEF new
<1> QED
  <2>1. Appended(acc) = acc.ranges \cup {new}
    BY DEF Appended, new
  <2> QED
    BY <1>2, <1>3, <1>4, <1>5, <1>6, <2>1

\* A turn of the loop keeps its invariant.
LEMMA ExtendKeeps ==
    ASSUME NEW S \in SUBSET Seqs, NEW acc, NEW n \in Nat \ {0}, LoopInv(S, acc, n - 1),
           n \in S, n # Smallest(S)
    PROVE  LoopInv(S, Extended(acc, n), n)
<1>0. S \subseteq Nat /\ S \subseteq Seqs /\ n \in Nat
  BY MultiplexerConstants DEF Seqs
<1>1. acc.start \in Nat /\ acc.prev \in Nat /\ acc.start <= acc.prev /\ acc.start \in S
      /\ acc.prev \in S /\ acc.start - 1 \notin S /\ acc.start .. acc.prev \subseteq S
  BY <1>0 DEF LoopInv
<1>2. \A m \in S : m <= n - 1 => m <= acc.prev
  BY DEF LoopInv
<1>3. acc.prev < n
  <2>1. Smallest(S) <= n
    BY SmallestIsLeast
  <2>2. acc.prev <= n - 1 \/ acc.prev = Smallest(S)
    BY DEF LoopInv
  <2>3. CASE acc.prev <= n - 1
    BY <1>0, <1>1, <2>3
  <2>4. CASE acc.prev = Smallest(S)
    BY <1>0, <1>1, <2>1, <2>4
  <2> QED
    BY <2>2, <2>3, <2>4
<1>4. CASE n = acc.prev + 1
  <2>1. Extended(acc, n) = [ranges |-> acc.ranges, start |-> acc.start, prev |-> n]
    BY <1>4 DEF Extended, LoopInv
  <2>2. acc.start .. n \subseteq S
    BY <1>0, <1>1, <1>4
  <2>3. acc.start <= n /\ n <= n /\ \A m \in S : m <= n => m <= n
    BY <1>0, <1>1, <1>3
  <2> DEFINE new == [ranges |-> acc.ranges, start |-> acc.start, prev |-> n]
  <2>4. new.ranges = acc.ranges /\ new.start = acc.start /\ new.prev = n
    OBVIOUS
  <2>5. new = [ranges |-> new.ranges, start |-> new.start, prev |-> new.prev]
    OBVIOUS
  <2> HIDE DEF new
  <2>6. LoopInv(S, new, n)
    BY <1>1, <2>2, <2>3, <2>4, <2>5 DEF LoopInv
  <2> QED
    BY <2>1, <2>6 DEF new
<1>5. CASE n # acc.prev + 1
  <2>1. Extended(acc, n) = [ranges |-> Appended(acc), start |-> n, prev |-> n]
    BY <1>5 DEF Extended
  <2>2. n - 1 \notin S
    BY <1>0, <1>1, <1>2, <1>3, <1>5
  <2>3. acc.prev + 1 \notin S
    BY <1>0, <1>1, <1>2, <1>3, <1>5
  <2>4. Appended(acc) = {i \in AckRange : Interval(i, S) /\ i.largest <= acc.prev}
    BY <1>0, <2>3, AppendInterval
  <2>5. ASSUME NEW i \in AckRange, Interval(i, S) PROVE i.largest <= acc.prev <=> i.largest < n
    <3>1. i.largest \in Nat /\ i.largest \in S
      BY <1>0, <2>5, MultiplexerConstants DEF Interval, AckRange, Seqs
    <3>2. i.largest <= n - 1 => i.largest <= acc.prev
      BY <1>2, <3>1
    <3> QED
      BY <1>0, <1>1, <1>3, <3>1, <3>2
  <2>6. Appended(acc) = {i \in AckRange : Interval(i, S) /\ i.largest < n}
    BY <2>4, <2>5
  <2> DEFINE new == [ranges |-> Appended(acc), start |-> n, prev |-> n]
  <2>7. new.ranges = Appended(acc) /\ new.start = n /\ new.prev = n
    OBVIOUS
  <2>8. new = [ranges |-> new.ranges, start |-> new.start, prev |-> new.prev]
    OBVIOUS
  <2>9. n .. n \subseteq S /\ n <= n
    BY <1>0
  <2> HIDE DEF new
  <2>10. LoopInv(S, new, n)
    BY <2>2, <2>6, <2>7, <2>8, <2>9 DEF LoopInv
  <2> QED
    BY <2>1, <2>10 DEF new
<1> QED
  BY <1>4, <1>5

\* Every turn of the loop leaves its invariant.
LEMMA LoopInvariant ==
    ASSUME NEW S \in SUBSET Seqs, S # {}
    PROVE  \A n \in 0 .. MaxSeq : LoopInv(S, Looped(S)[n], n)
<1> DEFINE Bad == {n \in 0 .. MaxSeq : ~LoopInv(S, Looped(S)[n], n)}
<1>0. MaxSeq \in Nat /\ S \subseteq Seqs /\ Seqs \subseteq Nat \ {0}
  BY MultiplexerConstants DEF Seqs
<1>1. \A n \in 0 .. MaxSeq : Looped(S)[n] = Turn(S, Looped(S), n)
  <2>1. Looped(S) = [n \in 0 .. MaxSeq |-> Turn(S, Looped(S), n)]
    BY LoopedDef
  <2> DEFINE F == Looped(S)
  <2>2. F = [n \in 0 .. MaxSeq |-> Turn(S, F, n)]
    BY <2>1
  <2> HIDE DEF F
  <2>3. \A n \in 0 .. MaxSeq : F[n] = Turn(S, F, n)
    BY <2>2
  <2> QED
    BY <2>3 DEF F
<1>2. Smallest(S) \in S /\ \A m \in S : Smallest(S) <= m
  BY SmallestIsLeast
<1>3. Smallest(S) \in Nat \ {0}
  BY <1>0, <1>2
<1> SUFFICES ASSUME Bad # {} PROVE FALSE
  OBVIOUS
<1>4. PICK n \in Bad : \A k \in Bad : n <= k
  <2>1. Bad \in SUBSET Nat
    BY <1>0
  <2> HIDE DEF Bad
  <2> QED
    BY <2>1, LeastNatural
<1>5. n \in Nat /\ n \in 0 .. MaxSeq /\ ~LoopInv(S, Looped(S)[n], n)
  BY <1>0, <1>4
<1>6. CASE n = 0
  <2> DEFINE s == Smallest(S)
             first == [ranges |-> {}, start |-> s, prev |-> s]
  <2>1. Looped(S)[n] = first
    BY <1>1, <1>5, <1>6 DEF Turn
  <2>2. first.ranges = {} /\ first.start = s /\ first.prev = s
    OBVIOUS
  <2>3. first = [ranges |-> first.ranges, start |-> first.start, prev |-> first.prev]
    OBVIOUS
  <2>4. s .. s \subseteq S /\ s - 1 \notin S /\ s <= s
    <3> HIDE DEF s
    <3>1. s \in Nat /\ s \in S /\ \A m \in S : s <= m
      BY <1>2, <1>3 DEF s
    <3> QED
      BY <3>1
  <2>5. \A m \in S : ~(m <= 0)
    BY <1>0
  <2>6. ASSUME NEW i \in AckRange, Interval(i, S), i.largest < s PROVE FALSE
    <3>1. i.largest \in Nat /\ i.smallest \in Nat /\ i.smallest <= i.largest
      BY <1>0, <2>6 DEF Interval, AckRange
    <3>2. i.largest \in S
      BY <2>6, <3>1 DEF Interval
    <3>3. s <= i.largest /\ s \in Nat
      BY <1>2, <1>3, <3>2
    <3> QED
      BY <2>6, <3>1, <3>3
  <2>7. s \in S
    BY <1>2
  <2>8. s = Smallest(S)
    OBVIOUS
  <2> HIDE DEF first, s
  <2>9. LoopInv(S, first, 0)
    BY <2>2, <2>3, <2>4, <2>5, <2>6, <2>7, <2>8 DEF LoopInv
  <2> QED
    BY <1>5, <1>6, <2>1, <2>9
<1>7. CASE n # 0
  <2>1. n - 1 \in 0 .. MaxSeq /\ n - 1 \notin Bad /\ n - 1 \in Nat
    <3>1. n - 1 \in 0 .. MaxSeq /\ ~(n <= n - 1) /\ n - 1 \in Nat
      BY <1>0, <1>5, <1>7
    <3> HIDE DEF Bad
    <3> QED
      BY <1>4, <3>1
  <2> DEFINE acc == Looped(S)[n - 1]
  <2>2. LoopInv(S, acc, n - 1)
    BY <2>1
  <2>3. Looped(S)[n] = IF n \in S \ {Smallest(S)} THEN Extended(acc, n) ELSE acc
    BY <1>1, <1>5, <1>7 DEF Turn
  <2> HIDE DEF acc
  <2>4. CASE n \in S \ {Smallest(S)}
    <3>1. LoopInv(S, Extended(acc, n), n)
      BY <1>5, <1>7, <2>2, <2>4, ExtendKeeps
    <3> QED
      BY <1>5, <2>3, <2>4, <3>1
  <2>5. CASE n \notin S \ {Smallest(S)}
    <3>1. Looped(S)[n] = acc
      BY <2>3, <2>5
    <3>2. acc.prev \in Nat /\ Smallest(S) <= acc.prev
      BY <1>0, <1>2, <2>2 DEF LoopInv
    <3>3. \A m \in S : m <= n => m <= acc.prev
      <4> TAKE m \in S
      <4> HAVE m <= n
      <4>1. m \in Nat
        BY <1>0
      <4>2. CASE m = n
        BY <2>5, <3>2, <4>2
      <4>3. CASE m # n
        <5>1. m <= n - 1
          BY <1>5, <4>1, <4>3
        <5> QED
          BY <2>2, <5>1 DEF LoopInv
      <4> QED
        BY <4>2, <4>3
    <3>4. acc.prev <= n \/ acc.prev = Smallest(S)
      BY <1>5, <2>2, <3>2 DEF LoopInv
    <3>5. LoopInv(S, acc, n)
      BY <2>2, <3>3, <3>4 DEF LoopInv
    <3> QED
      BY <1>5, <3>1, <3>5
  <2> QED
    BY <2>4, <2>5
<1> QED
  BY <1>6, <1>7

\* GetAckRanges returns the intervals of the numbers it is given, and nothing else.
LEMMA RangesAreIntervals ==
    ASSUME NEW S \in SUBSET Seqs
    PROVE  GetAckRanges(S) = {i \in AckRange : Interval(i, S)}
<1>0. MaxSeq \in Nat /\ S \subseteq Seqs /\ Seqs = 1 .. MaxSeq /\ S \subseteq Nat
  BY MultiplexerConstants DEF Seqs
<1>1. CASE S = {}
  <2>1. ASSUME NEW i \in AckRange, Interval(i, S) PROVE FALSE
    <3>1. i.smallest \in Nat /\ i.largest \in Nat
      BY <1>0 DEF AckRange
    <3>2. i.smallest \in i.smallest .. i.largest
      BY <2>1, <3>1 DEF Interval
    <3> QED
      BY <1>1, <2>1, <3>2 DEF Interval
  <2> QED
    BY <1>1, <2>1 DEF GetAckRanges
<1>2. CASE S # {}
  <2> DEFINE acc == Looped(S)[MaxSeq]
  <2>1. LoopInv(S, acc, MaxSeq)
    BY <1>0, <1>2, LoopInvariant
  <2>2. GetAckRanges(S) = Appended(acc)
    BY <1>2 DEF GetAckRanges
  <2> HIDE DEF acc
  <2>3. acc.prev \in S /\ \A m \in S : m <= acc.prev
    BY <1>0, <2>1 DEF LoopInv
  <2>4. acc.prev + 1 \notin S
    <3>1. acc.prev \in Nat
      BY <1>0, <2>3
    <3> QED
      BY <2>3, <3>1
  <2>5. Appended(acc) = {i \in AckRange : Interval(i, S) /\ i.largest <= acc.prev}
    BY <1>0, <2>1, <2>4, AppendInterval
  <2>6. ASSUME NEW i \in AckRange, Interval(i, S) PROVE i.largest <= acc.prev
    <3>1. i.largest \in S
      BY <1>0, <2>6 DEF Interval, AckRange
    <3> QED
      BY <2>3, <3>1
  <2> QED
    BY <2>2, <2>5, <2>6
<1> QED
  BY <1>1, <1>2

\* What the ranges cover are the numbers they are computed from, none more.
LEMMA RangesCoverReceived ==
    ASSUME NEW S \in SUBSET Seqs
    PROVE  GetAckRanges(S) \subseteq AckRange /\ Covered(GetAckRanges(S)) \subseteq S
  BY RangesAreIntervals DEF Covered, Interval

-----------------------------------------------------------------------------
(***************************************************************************)
(* The invariant                                                           *)
(***************************************************************************)

\* What a goroutine keeps between two of its steps.
Locals ==
    /\ reader \in [Readers -> [pc : {"idle", "record", "urgent", "handler", "stream", "dead"},
                              seq : 0 .. MaxSeq]]
    /\ \A r \in Readers : reader[r].pc = "record" => reader[r].seq \in Seqs
    /\ worker \in [pc : {"idle", "closed?", "ranges", "path", "submit", "cleanup", "stopped",
                           "hung"},
                   pid : Paths \cup {NoPath}, ranges : SUBSET AckRange, draining : BOOLEAN]
    /\ worker.pc \notin {"idle", "stopped"} => worker.pid \in Paths
    /\ ticker \in [pc : {"idle", "send", "stopped"}, paths : SUBSET Paths]

\* The types of all variables, with what is known of the goroutines' locals.
Types == TypeOK /\ Locals

\* What is recorded for a path, or about to be acknowledged, was received on it; what is about to
\* be forgotten was acknowledged.
Bookkeeping ==
    /\ recorded \subseteq Paths \X Seqs
    /\ \A p \in Paths : \A n \in received[p] : <<p, n>> \in recorded
    /\ worker.pc \in {"path", "submit", "cleanup"} =>
         \A n \in Covered(worker.ranges) : <<worker.pid, n>> \in recorded
    /\ worker.pc = "cleanup" => \A n \in Covered(worker.ranges) : <<worker.pid, n>> \in acked

\* The inductive invariant.
MuxInv == Types /\ Bookkeeping /\ ReceivedNotForgotten /\ AckedWasReceived

\* The initial state satisfies the invariant.
LEMMA InitMux == Init => MuxInv
<1> SUFFICES ASSUME Init PROVE MuxInv
  OBVIOUS
<1> USE MultiplexerConstants DEF Init
<1>1. ackQueue \in Seq(Paths) /\ Len(ackQueue) <= QueueSize
  <2>1. <<>> \in Seq(Paths) /\ Len(<<>>) = 0
    BY EmptySeq
  <2> QED
    BY <2>1
<1>2. Types
  BY <1>1 DEF Types, TypeOK, Locals, Resting, WorkerIdle, Seqs
<1>3. Bookkeeping
  BY DEF Bookkeeping, WorkerIdle
<1> QED
  BY <1>2, <1>3 DEF MuxInv, ReceivedNotForgotten, AckedWasReceived

\* A request that finds room is appended to the queue, any other is dropped.
LEMMA EnqueuedFits ==
    ASSUME TypeOK, NEW p \in Paths
    PROVE  Enqueued(p) \in Seq(Paths) /\ Len(Enqueued(p)) <= QueueSize
<1>0. ackQueue \in Seq(Paths) /\ Len(ackQueue) <= QueueSize /\ QueueSize \in Nat
  BY MultiplexerConstants DEF TypeOK
<1>1. Len(ackQueue) \in Nat
  BY <1>0, LenProperties
<1>2. Append(ackQueue, p) \in Seq(Paths) /\ Len(Append(ackQueue, p)) = Len(ackQueue) + 1
  BY <1>0, AppendProperties
<1>3. CASE Len(ackQueue) < QueueSize
  <2>1. Enqueued(p) = Append(ackQueue, p)
    BY <1>3 DEF Enqueued
  <2>2. Len(Enqueued(p)) = Len(ackQueue) + 1
    BY <1>2, <2>1
  <2>3. Len(Enqueued(p)) <= QueueSize
    BY <1>0, <1>1, <1>3, <2>2
  <2> QED
    BY <1>2, <2>1, <2>3
<1>4. CASE ~(Len(ackQueue) < QueueSize)
  BY <1>0, <1>4 DEF Enqueued
<1> QED
  BY <1>3, <1>4

\* Steps keep the types.
LEMMA TypeStep == Types /\ [Next]_vars => Types'
<1> SUFFICES ASSUME Types, [Next]_vars PROVE Types'
  OBVIOUS
<1> USE MultiplexerConstants DEF Types, TypeOK, Locals, externalVars, history
<1>1. ASSUME NEW r \in Readers, NEW n \in Sent, PushPacket(r, n) PROVE Types'
  BY <1>1 DEF PushPacket, Seqs
<1>2. ASSUME NEW r \in Readers, RecordReceived(r) PROVE Types'
  <2>1. received' \in [Paths -> SUBSET Seqs]
    <3>1. received' = received \/ received' = [received EXCEPT ![PathOf[r]] = @ \cup {reader[r].seq}]
      BY <1>2 DEF RecordReceived
    <3>2. reader[r].seq \in Seqs
      BY <1>2 DEF RecordReceived
    <3> QED
      BY <3>1, <3>2
  <2>2. reader' \in [Readers -> [pc : {"idle", "record", "urgent", "handler", "stream", "dead"},
                                seq : 0 .. MaxSeq]]
        /\ \A q \in Readers : reader'[q].pc = "record" => reader'[q].seq \in Seqs
    <3>1. PICK pc \in {"urgent", "handler"} : reader' = [reader EXCEPT ![r].pc = pc]
      BY <1>2 DEF RecordReceived
    <3> QED
      BY <3>1
  <2>3. UNCHANGED <<ackQueue, phase, worker, ticker, externalVars>>
    BY <1>2 DEF RecordReceived
  <2> QED
    BY <2>1, <2>2, <2>3
<1>3. ASSUME NEW r \in Readers, RequestUrgent(r) PROVE Types'
  <2>1. ackQueue' \in Seq(Paths) /\ Len(ackQueue') <= QueueSize
    <3>1. ackQueue' = ackQueue \/ ackQueue' = Enqueued(PathOf[r])
      BY <1>3 DEF RequestUrgent
    <3>2. Enqueued(PathOf[r]) \in Seq(Paths) /\ Len(Enqueued(PathOf[r])) <= QueueSize
      BY EnqueuedFits
    <3> QED
      BY <3>1, <3>2
  <2>2. reader' \in [Readers -> [pc : {"idle", "record", "urgent", "handler", "stream", "dead"},
                                seq : 0 .. MaxSeq]]
        /\ \A q \in Readers : reader'[q].pc = "record" => reader'[q].seq \in Seqs
    <3>1. PICK pc \in {"dead", "handler"} : reader' = [reader EXCEPT ![r].pc = pc]
      BY <1>3 DEF RequestUrgent
    <3> QED
      BY <3>1
  <2>3. UNCHANGED <<received, phase, worker, ticker, externalVars>>
    BY <1>3 DEF RequestUrgent
  <2> QED
    BY <2>1, <2>2, <2>3
<1>4. ASSUME NEW r \in Readers, FindHandler(r) \/ FindStream(r) PROVE Types'
  <2> DEFINE Place == [pc : {"idle", "record", "urgent", "handler", "stream", "dead"},
                       seq : 0 .. MaxSeq]
  <2>1. Resting \in Place /\ Resting.pc = "idle"
    BY DEF Resting
  <2>2. [reader[r] EXCEPT !.pc = "stream"] \in Place
        /\ [reader[r] EXCEPT !.pc = "stream"].pc = "stream"
    OBVIOUS
  <2>3. PICK place \in Place : reader' = [reader EXCEPT ![r] = place] /\ place.pc # "record"
    BY <1>4, <2>1, <2>2 DEF FindHandler, FindStream
  <2>4. UNCHANGED <<received, ackQueue, phase, worker, ticker, externalVars>>
    BY <1>4 DEF FindHandler, FindStream
  <2> QED
    BY <2>3, <2>4
<1>5. CASE TakeRequest
  <2>1. ackQueue # <<>> /\ ackQueue \in Seq(Paths)
    BY <1>5 DEF TakeRequest
  <2>2. Head(ackQueue) \in Paths /\ Tail(ackQueue) \in Seq(Paths)
        /\ Len(Tail(ackQueue)) = Len(ackQueue) - 1 /\ Len(ackQueue) \in Nat
    BY <2>1, HeadTailProperties, LenProperties
  <2>3. Len(Tail(ackQueue)) <= QueueSize
    BY <2>2
  <2>4. worker' = [worker EXCEPT !.pc = "closed?", !.pid = Head(ackQueue)]
        /\ ackQueue' = Tail(ackQueue)
        /\ UNCHANGED <<received, phase, reader, ticker, externalVars>>
    BY <1>5 DEF TakeRequest
  <2> QED
    BY <2>2, <2>3, <2>4
<1>6. CASE BeginDrain
  BY <1>6 DEF BeginDrain
<1>7. CASE StopWorker
  BY <1>7 DEF StopWorker
<1>8. CASE CheckClosed
  BY <1>8 DEF CheckClosed, Done, WorkerIdle
<1>9. CASE ComputeRanges
  <2>1. worker.pid \in Paths
    BY <1>9 DEF ComputeRanges
  <2>2. GetAckRanges(received[worker.pid]) \subseteq AckRange
    BY <2>1, RangesCoverReceived
  <2>3. worker' \in [pc : {"idle", "closed?", "ranges", "path", "submit", "cleanup", "stopped",
                           "hung"},
                    pid : Paths \cup {NoPath}, ranges : SUBSET AckRange, draining : BOOLEAN]
        /\ (worker'.pc \notin {"idle", "stopped"} => worker'.pid \in Paths)
    BY <1>9, <2>1, <2>2 DEF ComputeRanges, Done, WorkerIdle
  <2> QED
    BY <1>9, <2>3 DEF ComputeRanges
<1>10. CASE LookUpPath
  BY <1>10 DEF LookUpPath, Done, WorkerIdle
<1>11. CASE SubmitAck
  <2>1. worker' \in {worker, [worker EXCEPT !.pc = "cleanup"], [worker EXCEPT !.pc = "hung"], Done}
        /\ worker.pc = "submit"
    BY <1>11 DEF SubmitAck
  <2>2. worker' \in [pc : {"idle", "closed?", "ranges", "path", "submit", "cleanup", "stopped",
                           "hung"},
                    pid : Paths \cup {NoPath}, ranges : SUBSET AckRange, draining : BOOLEAN]
        /\ (worker'.pc \notin {"idle", "stopped"} => worker'.pid \in Paths)
    BY <2>1 DEF Done, WorkerIdle
  <2> QED
    BY <1>11, <2>2 DEF SubmitAck
<1>12. CASE CleanupAcked
  <2>1. received' \in [Paths -> SUBSET Seqs]
    BY <1>12 DEF CleanupAcked, Remaining
  <2> QED
    BY <1>12, <2>1 DEF CleanupAcked, Done, WorkerIdle
<1>13. CASE Tick
  BY <1>13 DEF Tick, PathsWithNumbers
<1>14. CASE TickSend
  <2>1. PICK p \in ticker.paths :
          /\ ackQueue' = Enqueued(p)
          /\ ticker' = [pc |-> IF ticker.paths = {p} THEN "idle" ELSE "send",
                       paths |-> ticker.paths \ {p}]
    BY <1>14 DEF TickSend
  <2>2. ackQueue' \in Seq(Paths) /\ Len(ackQueue') <= QueueSize
    BY <2>1, EnqueuedFits
  <2> QED
    BY <1>14, <2>1, <2>2 DEF TickSend
<1>15. CASE StopTicker
  BY <1>15 DEF StopTicker
<1>16. CASE Closer
  BY <1>16 DEF Closer, SetClosed, CloseStopCh, ReleaseMaps
<1>17. ASSUME NEW p \in Paths, RegisterPath(p) \/ ChangeStream(p) PROVE Types'
  BY <1>17 DEF RegisterPath, ChangeStream
<1>18. ASSUME NEW s \in StreamIDs, AddStream(s) PROVE Types'
  BY <1>18 DEF AddStream
<1>19. CASE UNCHANGED vars
  BY <1>19 DEF vars
<1> QED
  BY <1>1, <1>2, <1>3, <1>4, <1>5, <1>6, <1>7, <1>8, <1>9, <1>10, <1>11, <1>12, <1>13, <1>14,
     <1>15, <1>16, <1>17, <1>18, <1>19
     DEF Next, Reader, Worker, WorkerLocal, Ticker

\* Steps keep the bookkeeping, and with it the two invariants.
LEMMA BookStep == MuxInv /\ [Next]_vars => Bookkeeping' /\ ReceivedNotForgotten' /\ AckedWasReceived'
<1> DEFINE Kept == Bookkeeping /\ ReceivedNotForgotten /\ AckedWasReceived
<1> SUFFICES ASSUME MuxInv, [Next]_vars PROVE Kept'
  OBVIOUS
<1> USE DEF MuxInv, Bookkeeping, ReceivedNotForgotten, AckedWasReceived, externalVars, history, Released
<1>0. /\ received \in [Paths -> SUBSET Seqs]
      /\ worker \in [pc : {"idle", "closed?", "ranges", "path", "submit", "cleanup", "stopped",
                           "hung"},
                    pid : Paths \cup {NoPath}, ranges : SUBSET AckRange, draining : BOOLEAN]
      /\ worker.pc \notin {"idle", "stopped"} => worker.pid \in Paths
  BY DEF Types, TypeOK, Locals
<1>1. ASSUME NEW r \in Readers, RecordReceived(r) PROVE Kept'
  <2> DEFINE p == PathOf[r]
             n == reader[r].seq
  <2>1. UNCHANGED <<worker, phase, acked>> /\ p \in Paths /\ n \in Seqs
    BY <1>1, MultiplexerConstants DEF RecordReceived, Types, Locals
  <2>2. CASE UNCHANGED <<received, recorded>>
    BY <2>1, <2>2
  <2>3. CASE received' = [received EXCEPT ![p] = @ \cup {n}] /\ recorded' = recorded \cup {<<p, n>>}
    <3>1. \A q \in Paths : received'[q] = IF q = p THEN received[p] \cup {n} ELSE received[q]
      BY <1>0, <2>3
    <3> HIDE DEF p, n
    <3>2. Bookkeeping' /\ AckedWasReceived'
      BY <2>1, <2>3, <3>1
    <3>3. ASSUME NEW k \in recorded' PROVE k[2] \in received'[k[1]] \/ k \in acked' \/ Released'
      <4>1. CASE k = <<p, n>>
        BY <2>1, <3>1, <4>1
      <4>2. CASE k \in recorded
        <5>1. received[k[1]] \subseteq received'[k[1]] \/ received'[k[1]] = received[k[1]]
          BY <1>0, <2>3
        <5> QED
          BY <2>1, <4>2, <5>1
      <4> QED
        BY <2>3, <4>1, <4>2
    <3> QED
      BY <3>2, <3>3
  <2> QED
    BY <1>1, <2>2, <2>3 DEF RecordReceived
<1>2. CASE TakeRequest
  BY <1>0, <1>2 DEF TakeRequest
<1>3. CASE BeginDrain \/ StopWorker \/ CheckClosed
  BY <1>0, <1>3 DEF BeginDrain, StopWorker, CheckClosed, Done, WorkerIdle
<1>4. CASE ComputeRanges
  <2>1. worker.pid \in Paths /\ UNCHANGED <<received, recorded, acked, phase>>
    BY <1>0, <1>4 DEF ComputeRanges
  <2>2. CASE worker' = Done
    BY <2>1, <2>2 DEF Done, WorkerIdle
  <2>3. CASE worker' = [worker EXCEPT !.pc = "path", !.ranges = GetAckRanges(received[worker.pid])]
    <3>1. /\ worker'.pc = "path" /\ worker'.pid = worker.pid
          /\ worker'.ranges = GetAckRanges(received[worker.pid])
      BY <1>0, <2>3
    <3>2. Covered(worker'.ranges) \subseteq received[worker.pid]
      BY <1>0, <2>1, <3>1, RangesCoverReceived
    <3> QED
      BY <2>1, <3>1, <3>2
  <2> QED
    BY <1>4, <2>2, <2>3 DEF ComputeRanges
<1>5. CASE LookUpPath
  BY <1>0, <1>5 DEF LookUpPath, Done, WorkerIdle
<1>6. CASE SubmitAck
  <2> DEFINE cover == {worker.pid} \X Covered(worker.ranges)
  <2>1. UNCHANGED <<received, phase, recorded>> /\ worker.pc = "submit"
    BY <1>6 DEF SubmitAck
  <2>2. \A k \in cover : k \in recorded
    BY <2>1
  <2>3. CASE worker' = [worker EXCEPT !.pc = "cleanup"] /\ acked' = acked \cup cover
    <3>1. worker'.pc = "cleanup" /\ worker'.pid = worker.pid /\ worker'.ranges = worker.ranges
      BY <1>0, <2>3
    <3>2. \A n \in Covered(worker.ranges) : <<worker.pid, n>> \in cover
      OBVIOUS
    <3> HIDE DEF cover
    <3> QED
      BY <2>1, <2>2, <2>3, <3>1, <3>2
  <2>4. CASE worker' = Done /\ acked' \in {acked, acked \cup cover}
    <3>1. worker'.pc = "idle"
      BY <2>4 DEF Done, WorkerIdle
    <3>2. acked \subseteq acked' /\ acked' \subseteq recorded
      BY <2>2, <2>4
    <3> HIDE DEF cover
    <3> QED
      BY <2>1, <3>1, <3>2
  <2>5. CASE UNCHANGED <<worker, acked>>
    BY <2>1, <2>5
  <2>6. CASE worker' = [worker EXCEPT !.pc = "hung"] /\ acked' \in {acked, acked \cup cover}
    <3>1. worker'.pc = "hung"
      BY <1>0, <2>6
    <3>2. acked \subseteq acked' /\ acked' \subseteq recorded
      BY <2>2, <2>6
    <3> HIDE DEF cover
    <3> QED
      BY <2>1, <3>1, <3>2
  <2> QED
    BY <1>6, <2>3, <2>4, <2>5, <2>6 DEF SubmitAck
<1>7. CASE CleanupAcked
  <2>1. worker.pc = "cleanup" /\ worker.pid \in Paths /\ UNCHANGED <<phase, acked, recorded>>
    BY <1>0, <1>7 DEF CleanupAcked
  <2>2. worker'.pc = "idle"
    BY <1>7 DEF CleanupAcked, Done, WorkerIdle
  <2>3. received' = [received EXCEPT ![worker.pid] = received[worker.pid] \ Covered(worker.ranges)]
    BY <1>7 DEF CleanupAcked, Remaining
  <2>4. \A p \in Paths : received'[p] \subseteq received[p]
    BY <1>0, <2>3
  <2>5. ASSUME NEW k \in recorded, ~Released PROVE k[2] \in received'[k[1]] \/ k \in acked
    <3>1. k = <<k[1], k[2]>> /\ k[1] \in Paths
      BY <2>5
    <3>2. CASE k[1] # worker.pid
      BY <1>0, <2>3, <2>5, <3>1, <3>2
    <3>3. CASE k[1] = worker.pid /\ k[2] \in Covered(worker.ranges)
      BY <2>1, <3>1, <3>3
    <3>4. CASE k[1] = worker.pid /\ k[2] \notin Covered(worker.ranges)
      BY <1>0, <2>1, <2>3, <2>5, <3>4
    <3> QED
      BY <3>2, <3>3, <3>4
  <2> QED
    BY <2>1, <2>2, <2>4, <2>5
<1>8. CASE ReleaseMaps
  <2>1. received' = [p \in Paths |-> {}] /\ Released' /\ UNCHANGED <<worker, acked, recorded>>
    BY <1>8 DEF ReleaseMaps
  <2> QED
    BY <2>1
<1> DEFINE Untouched == UNCHANGED <<received, worker, recorded, acked>> /\ Released' = Released
<1>9. CASE Untouched
  BY <1>9
<1>10. ASSUME NEW r \in Readers, \/ RequestUrgent(r) \/ FindHandler(r) \/ FindStream(r)
                                 \/ \E n \in Sent : PushPacket(r, n)
       PROVE  Untouched
  BY <1>10 DEF RequestUrgent, FindHandler, FindStream, PushPacket
<1>11. CASE Ticker \/ StopTicker
  BY <1>11 DEF Ticker, Tick, TickSend, StopTicker
<1>12. CASE SetClosed \/ CloseStopCh
  BY <1>12 DEF SetClosed, CloseStopCh
<1>13. CASE \/ \E p \in Paths : RegisterPath(p) \/ ChangeStream(p)
            \/ \E s \in StreamIDs : AddStream(s)
  BY <1>13 DEF RegisterPath, ChangeStream, AddStream
<1>14. CASE UNCHANGED vars
  BY <1>14 DEF vars
<1> QED
  BY <1>1, <1>2, <1>3, <1>4, <1>5, <1>6, <1>7, <1>8, <1>9, <1>10, <1>11, <1>12, <1>13, <1>14
     DEF Next, Reader, Worker, WorkerLocal, Closer

-----------------------------------------------------------------------------
(***************************************************************************)
(* Theorems                                                                *)
(***************************************************************************)

\* Every reachable state satisfies the invariant.
THEOREM MuxInvariant == Spec => []MuxInv
<1>1. MuxInv /\ [Next]_vars => MuxInv'
  BY TypeStep, BookStep DEF MuxInv
<1> QED
  BY InitMux, <1>1, PTL DEF Spec

\* The shapes the source gives to the state hold in every reachable state, the capacity of the
\* request queue included.
THEOREM TypeCorrect == Spec => []TypeOK
<1>1. MuxInv => TypeOK
  BY DEF MuxInv, Types
<1> QED
  BY MuxInvariant, <1>1, PTL

\* GetAckRanges is exact on every set of numbers that can be recorded, however many there are.
THEOREM RangesExactHolds == Spec => []RangesExact
<1>1. TypeOK => RangesExact
  <2> SUFFICES ASSUME NEW S \in SUBSET Seqs
               PROVE  GetAckRanges(S) = {i \in AckRange : Interval(i, S)}
    BY DEF RangesExact, Interval
  <2> QED
    BY RangesAreIntervals
<1> QED
  BY TypeCorrect, <1>1, PTL

\* No recorded number is forgotten before an ack that covers it was handed to the packer, however
\* the readers interleave with the worker's computation, submission and cleanup.
THEOREM ReceivedNotForgottenHolds == Spec => []ReceivedNotForgotten
<1>1. MuxInv => ReceivedNotForgotten
  BY DEF MuxInv
<1> QED
  BY MuxInvariant, <1>1, PTL

\* Only numbers received on a path are acknowledged on it.
THEOREM AckedWasReceivedHolds == Spec => []AckedWasReceived
<1>1. MuxInv => AckedWasReceived
  BY DEF MuxInv
<1> QED
  BY MuxInvariant, <1>1, PTL

=============================================================================
