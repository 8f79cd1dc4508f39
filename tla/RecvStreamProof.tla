-------------------------- MODULE RecvStreamProof --------------------------
(***************************************************************************)
(* Proofs about the reading half of a stream, for any length, any cut of   *)
(* the bytes into frames, any goroutines and any sizes passed to Read.     *)
(***************************************************************************)
EXTENDS RecvStream, TLAPS, SequenceTheorems

\* The bytes of the stream.
Bytes == 1 .. Length

\* s holds the bytes of the stream that follow the offset from.
Run(s, from) == s \in Seq(Bytes) /\ \A i \in 1 .. Len(s) : s[i] = from + i

\* What waits in readBuf are the bytes before expectedOffset.
ReadBufIsRun ==
    Len(readBuf) <= expectedOffset /\ Run(readBuf, expectedOffset - Len(readBuf))

\* One goroutine at a time is inside Read, the one readActive stands for.
OneReader ==
    \A t \in Readers : reader[t] # "idle" =>
        readActive /\ \A u \in Readers : reader[u] # "idle" => u = t

\* A token waits for a reader that has found nothing and may have to look again.
TokenWaits == \A t \in Readers : reader[t] = "wait" /\ readBuf # <<>> => notify

\* The inductive invariant.
RecvInv == TypeOK /\ ReadBufIsRun /\ OneReader /\ TokenWaits

-----------------------------------------------------------------------------
(***************************************************************************)
(* Runs of bytes                                                           *)
(***************************************************************************)

\* The data of a frame is the run that starts at its offset.
LEMMA DataIsRun ==
    ASSUME NEW f \in Frame
    PROVE  Run(Data(f), f.from) /\ Len(Data(f)) = f.to - f.from
<1>1. f.from \in Nat /\ f.to \in Nat /\ f.to <= Length /\ f.from < f.to
  BY RecvConstants DEF Frame, Offsets
<1>2. DEFINE d == Data(f)
<1>3. d \in [1 .. f.to - f.from -> Bytes] /\ \A i \in 1 .. f.to - f.from : d[i] = f.from + i
  BY <1>1, RecvConstants DEF Data, Bytes
<1> HIDE DEF d
<1>4. d \in Seq(Bytes) /\ Len(d) = f.to - f.from
  BY <1>1, <1>3
<1> QED
  BY <1>3, <1>4 DEF Run, d

\* Two adjacent runs make one.
LEMMA ConcatRun ==
    ASSUME NEW s, NEW t, NEW a \in Int, Run(s, a), Run(t, a + Len(s))
    PROVE  Run(s \o t, a) /\ Len(s \o t) = Len(s) + Len(t)
<1>1. s \in Seq(Bytes) /\ t \in Seq(Bytes) /\ Len(s) \in Nat /\ Len(t) \in Nat
  BY LenProperties DEF Run
<1>2. /\ s \o t \in Seq(Bytes)
      /\ Len(s \o t) = Len(s) + Len(t)
      /\ \A i \in 1 .. Len(s) + Len(t) : (s \o t)[i] = IF i <= Len(s) THEN s[i] ELSE t[i - Len(s)]
  BY <1>1, ConcatProperties
<1>3. ASSUME NEW i \in 1 .. Len(s) + Len(t) PROVE (s \o t)[i] = a + i
  <2>1. CASE i <= Len(s)
    BY <1>1, <1>2, <2>1 DEF Run
  <2>2. CASE i > Len(s)
    <3>1. i - Len(s) \in 1 .. Len(t)
      BY <1>1, <2>2
    <3>2. t[i - Len(s)] = a + Len(s) + (i - Len(s))
      BY <3>1 DEF Run
    <3> QED
      BY <1>1, <1>2, <2>2, <3>1, <3>2
  <2> QED
    BY <1>1, <2>1, <2>2
<1> QED
  BY <1>2, <1>3 DEF Run

\* A run cut in two gives two adjacent runs.
LEMMA SplitRun ==
    ASSUME NEW s, NEW a \in Int, Run(s, a), NEW n \in 0 .. Len(s)
    PROVE  /\ Run(SubSeq(s, 1, n), a) /\ Len(SubSeq(s, 1, n)) = n
           /\ Run(SubSeq(s, n + 1, Len(s)), a + n) /\ Len(SubSeq(s, n + 1, Len(s))) = Len(s) - n
<1>1. s \in Seq(Bytes) /\ Len(s) \in Nat /\ n \in Nat /\ n <= Len(s)
  BY LenProperties DEF Run
<1>2. \A i \in 1 .. Len(s) : s[i] \in Bytes /\ s[i] = a + i
  BY <1>1, ElementOfSeq DEF Run
<1>3. /\ SubSeq(s, 1, n) \in Seq(Bytes)
      /\ Len(SubSeq(s, 1, n)) = n
      /\ \A i \in 1 .. n : SubSeq(s, 1, n)[i] = s[i]
  <2>1. \A i \in 1 .. n : s[i] \in Bytes
    BY <1>1, <1>2
  <2>2. /\ SubSeq(s, 1, n) \in Seq(Bytes)
        /\ Len(SubSeq(s, 1, n)) = IF 1 <= n THEN n - 1 + 1 ELSE 0
        /\ \A i \in 1 .. n - 1 + 1 : SubSeq(s, 1, n)[i] = s[1 + i - 1]
    BY <1>1, <2>1, SubSeqProperties
  <2> QED
    BY <1>1, <2>2
<1>4. /\ SubSeq(s, n + 1, Len(s)) \in Seq(Bytes)
      /\ Len(SubSeq(s, n + 1, Len(s))) = Len(s) - n
      /\ \A i \in 1 .. Len(s) - n : SubSeq(s, n + 1, Len(s))[i] = s[n + i]
  <2>1. \A i \in n + 1 .. Len(s) : s[i] \in Bytes
    BY <1>1, <1>2
  <2>2. /\ SubSeq(s, n + 1, Len(s)) \in Seq(Bytes)
        /\ Len(SubSeq(s, n + 1, Len(s))) = IF n + 1 <= Len(s) THEN Len(s) - (n + 1) + 1 ELSE 0
        /\ \A i \in 1 .. Len(s) - (n + 1) + 1 : SubSeq(s, n + 1, Len(s))[i] = s[n + 1 + i - 1]
    BY <1>1, <2>1, SubSeqProperties
  <2> QED
    BY <1>1, <2>2
<1> QED
  BY <1>1, <1>2, <1>3, <1>4 DEF Run

\* Runs of one length from one offset are equal.
LEMMA RunIsUnique ==
    ASSUME NEW s, NEW t, NEW a \in Int, Run(s, a), Run(t, a), Len(s) = Len(t)
    PROVE  s = t
  BY SeqEqual DEF Run

\* What is buffered at an offset is empty or the run that starts there and ends within the stream.
LEMMA BufferedIsRun ==
    ASSUME TypeOK, NEW o \in Offsets
    PROVE  Run(buffered[o], o) /\ o + Len(buffered[o]) \in Offsets
<1>1. buffered[o] \in Chunks /\ o \in Nat /\ o <= Length
  BY RecvConstants DEF TypeOK, Offsets
<1>2. CASE buffered[o] = <<>>
  <2>1. buffered[o] \in Seq(Bytes) /\ Len(buffered[o]) = 0
    BY <1>2, EmptySeq
  <2> QED
    BY <1>1, <2>1 DEF Run, Offsets
<1>3. CASE buffered[o] # <<>>
  <2>1. PICK f \in Frame : buffered[o] = Data(f)
    BY <1>1, <1>3 DEF Chunks
  <2>2. Run(Data(f), f.from) /\ Len(Data(f)) = f.to - f.from
    BY DataIsRun
  <2>3. f.from \in Nat /\ f.to \in Nat /\ f.from < f.to /\ f.to <= Length
    BY RecvConstants DEF Frame, Offsets
  <2>4. 1 \in 1 .. Len(Data(f))
    BY <2>2, <2>3
  <2>5. Data(f)[1] = o + 1 /\ Data(f)[1] = f.from + 1
    BY <2>1, <2>2, <2>4 DEF TypeOK, Run
  <2>6. f.from = o
    BY <2>3, <2>5, <1>1
  <2> QED
    BY <2>1, <2>2, <2>3, <2>6 DEF Offsets
<1> QED
  BY <1>2, <1>3

-----------------------------------------------------------------------------
(***************************************************************************)
(* The invariant                                                           *)
(***************************************************************************)

\* The initial state satisfies the invariant.
LEMMA InitRecv == Init => RecvInv
<1> SUFFICES ASSUME Init PROVE RecvInv
  OBVIOUS
<1>1. <<>> \in Seq(Bytes) /\ Len(<<>>) = 0
  BY EmptySeq
<1>2. TypeOK
  <2>1. cuts \subseteq Offsets /\ expectedOffset \in Offsets
    <3>1. PICK c \in SUBSET Offsets : cuts = {0, Length} \cup c
      BY DEF Init
    <3> QED
      BY <3>1, RecvConstants DEF Init, Offsets
  <2>2. buffered \in [Offsets -> Chunks] /\ \A o \in Offsets : buffered[o] = <<>>
    BY DEF Init, Chunks
  <2> QED
    BY <1>1, <2>1, <2>2 DEF Init, TypeOK, Bytes
<1>3. ReadBufIsRun
  BY <1>1 DEF Init, ReadBufIsRun, Run
<1> QED
  BY <1>2, <1>3 DEF Init, RecvInv, OneReader, TokenWaits

\* A frame that continues the stream is appended to readBuf together with the chunk that waited
\* behind it: expectedOffset moves on by both, the place of the reader does not move.
LEMMA ContiguousFrame ==
    ASSUME TypeOK, ReadBufIsRun, NEW f \in Frames, HandleFrame(f), Contiguous(f)
    PROVE  LET next == f.from + Len(Data(f))
               after == next + Len(buffered[next])
           IN  /\ next \in Offsets /\ next > expectedOffset
               /\ after \in Offsets /\ after >= next
               /\ expectedOffset' = after
               /\ buffered' = IF buffered[next] = <<>> THEN buffered
                              ELSE [buffered EXCEPT ![after] = <<>>]
               /\ Run(readBuf', expectedOffset - Len(readBuf))
               /\ Len(readBuf') = Len(readBuf) + after - expectedOffset
<1> DEFINE next == f.from + Len(Data(f))
           after == next + Len(buffered[next])
           start == expectedOffset - Len(readBuf)
<1>0. f \in Frame /\ f.from = expectedOffset
  BY DEF Frames, Contiguous
<1>1. Run(Data(f), f.from) /\ Len(Data(f)) = f.to - f.from
  BY <1>0, DataIsRun
<1>2. f.from \in Nat /\ f.to \in Nat /\ f.from < f.to /\ f.to <= Length
  BY <1>0, RecvConstants DEF Frame, Offsets
<1>3. next = f.to /\ next \in Offsets /\ next > expectedOffset
  BY <1>0, <1>1, <1>2 DEF Offsets
<1>4. Run(buffered[next], next) /\ after \in Offsets
  BY <1>3, BufferedIsRun
<1>5. Len(buffered[next]) \in Nat /\ after >= next
  <2>1. buffered[next] \in Seq(Bytes)
    BY <1>4 DEF Run
  <2>2. Len(buffered[next]) \in Nat
    BY <2>1, LenProperties
  <2> QED
    BY <1>2, <1>3, <2>2
<1>6. /\ readBuf' = readBuf \o Data(f) \o buffered[next]
      /\ expectedOffset' = after
      /\ buffered' = IF buffered[next] = <<>> THEN buffered
                     ELSE [buffered EXCEPT ![after] = <<>>]
  <2>1. ~(f.from > expectedOffset)
    BY <1>0, <1>2
  <2> QED
    BY <2>1 DEF HandleFrame
<1>7. Len(readBuf) \in Nat /\ start \in Int /\ Run(readBuf, start) /\ start + Len(readBuf) = f.from
  <2>1. readBuf \in Seq(Bytes)
    BY DEF ReadBufIsRun, Run
  <2>2. Len(readBuf) \in Nat
    BY <2>1, LenProperties
  <2> QED
    BY <1>0, <1>2, <2>2 DEF ReadBufIsRun
<1>8. Run(readBuf \o Data(f), start) /\ Len(readBuf \o Data(f)) = Len(readBuf) + Len(Data(f))
  BY <1>1, <1>7, ConcatRun
<1>9. start + Len(readBuf \o Data(f)) = next
  BY <1>1, <1>2, <1>7, <1>8
<1>10. Run(readBuf', start) /\ Len(readBuf') = Len(readBuf) + Len(Data(f)) + Len(buffered[next])
  BY <1>4, <1>6, <1>7, <1>8, <1>9, ConcatRun
<1>11. Len(readBuf') = Len(readBuf) + after - expectedOffset
  <2>1. after = f.to + Len(buffered[next]) /\ Len(buffered[next]) \in Nat
    BY <1>3, <1>5
  <2>2. Len(readBuf') = Len(readBuf) + (f.to - f.from) + Len(buffered[next])
    BY <1>1, <1>10
  <2>3. Len(readBuf) \in Nat /\ f.from \in Nat /\ f.to \in Nat
    BY <1>2, <1>7
  <2>4. after - f.from = (f.to - f.from) + Len(buffered[next])
    BY <2>1, <2>3
  <2> HIDE DEF next, after
  <2> QED
    BY <1>0, <2>1, <2>2, <2>3, <2>4
<1> QED
  BY <1>3, <1>4, <1>5, <1>6, <1>10, <1>11

\* A turn of Read that finds data takes the next n bytes, 1 at least, and leaves the rest.
LEMMA ReadTakes ==
    ASSUME TypeOK, ReadBufIsRun, NEW t \in Readers, ReadPoll(t), readBuf # <<>>
    PROVE  \E n \in 1 .. Len(readBuf) :
               /\ Run(returned', expectedOffset - Len(readBuf)) /\ Len(returned') = n
               /\ Run(readBuf', expectedOffset - Len(readBuf) + n) /\ Len(readBuf') = Len(readBuf) - n
<1>1. readBuf \in Seq(Bytes) /\ Run(readBuf, expectedOffset - Len(readBuf))
  BY DEF ReadBufIsRun, Run
<1>2. Len(readBuf) \in Nat /\ Len(readBuf) > 0
  BY <1>1, EmptySeq
<1>3. PICK size \in ReadSizes :
        LET n == IF size < Len(readBuf) THEN size ELSE Len(readBuf)
        IN  /\ returned' = SubSeq(readBuf, 1, n)
            /\ readBuf' = SubSeq(readBuf, n + 1, Len(readBuf))
  BY DEF ReadPoll
<1> DEFINE n == IF size < Len(readBuf) THEN size ELSE Len(readBuf)
<1>4. n \in 1 .. Len(readBuf)
  BY <1>2, RecvConstants
<1>5. expectedOffset - Len(readBuf) \in Int
  BY <1>2, RecvConstants DEF TypeOK, Offsets
<1> HIDE DEF n
<1>6. /\ Run(SubSeq(readBuf, 1, n), expectedOffset - Len(readBuf))
      /\ Len(SubSeq(readBuf, 1, n)) = n
      /\ Run(SubSeq(readBuf, n + 1, Len(readBuf)), expectedOffset - Len(readBuf) + n)
      /\ Len(SubSeq(readBuf, n + 1, Len(readBuf))) = Len(readBuf) - n
  BY <1>1, <1>4, <1>5, SplitRun
<1>7. returned' = SubSeq(readBuf, 1, n) /\ readBuf' = SubSeq(readBuf, n + 1, Len(readBuf))
  BY <1>3 DEF n
<1> QED
  BY <1>4, <1>6, <1>7

\* Steps keep the types and the run of bytes in readBuf.
LEMMA RunStep == RecvInv /\ [Next]_vars => TypeOK' /\ ReadBufIsRun'
<1> SUFFICES ASSUME RecvInv, [Next]_vars PROVE TypeOK' /\ ReadBufIsRun'
  OBVIOUS
<1> USE DEF RecvInv
<1>0. readBuf \in Seq(Bytes) /\ Len(readBuf) \in Nat /\ expectedOffset \in Nat /\ expectedOffset <= Length
  <2>1. readBuf \in Seq(Bytes)
    BY DEF ReadBufIsRun, Run
  <2> QED
    BY <2>1, LenProperties, RecvConstants DEF TypeOK, Offsets
<1>1. ASSUME NEW f \in Frames, HandleFrame(f) PROVE TypeOK' /\ ReadBufIsRun'
  <2>0. f \in Frame /\ Run(Data(f), f.from) /\ f.from \in Offsets
    BY DataIsRun DEF Frames, Frame
  <2>1. handled' \subseteq Frame /\ notify' \in BOOLEAN
    BY <1>1, <2>0 DEF HandleFrame, Notify, TypeOK
  <2>2. UNCHANGED <<cuts, readActive, reader, returned>>
    BY <1>1 DEF HandleFrame
  <2>3. CASE Contiguous(f)
    <3> DEFINE next == f.from + Len(Data(f))
               after == next + Len(buffered[next])
    <3>1. /\ next \in Offsets /\ next > expectedOffset
          /\ after \in Offsets /\ after >= next
          /\ expectedOffset' = after
          /\ buffered' = IF buffered[next] = <<>> THEN buffered
                         ELSE [buffered EXCEPT ![after] = <<>>]
          /\ Run(readBuf', expectedOffset - Len(readBuf))
          /\ Len(readBuf') = Len(readBuf) + after - expectedOffset
      BY <1>1, <2>3, ContiguousFrame
    <3> HIDE DEF next, after
    <3>2. after \in Nat /\ expectedOffset' - Len(readBuf') = expectedOffset - Len(readBuf)
      BY <1>0, <3>1 DEF Offsets
    <3>3. ReadBufIsRun'
      BY <1>0, <3>1, <3>2 DEF ReadBufIsRun, Run, Offsets
    <3>4. buffered' \in [Offsets -> Chunks]
      BY <3>1 DEF TypeOK, Chunks
    <3>5. \A o \in Offsets : \A i \in 1 .. Len(buffered'[o]) : buffered'[o][i] = o + i
      <4>1. Len(<<>>) = 0
        BY EmptySeq
      <4>2. \A o \in Offsets : buffered'[o] = buffered[o] \/ buffered'[o] = <<>>
        BY <3>1 DEF TypeOK
      <4> QED
        BY <4>1, <4>2 DEF TypeOK
    <3>6. readBuf' \in Seq(1 .. Length)
      BY <3>3 DEF ReadBufIsRun, Run, Bytes
    <3> QED
      BY <2>1, <2>2, <3>1, <3>3, <3>4, <3>5, <3>6 DEF TypeOK
  <2>4. CASE f.from > expectedOffset
    <3>1. buffered' = [buffered EXCEPT ![f.from] = Data(f)] /\ UNCHANGED <<readBuf, expectedOffset>>
      <4>1. ~Contiguous(f) /\ ~(f.from < expectedOffset)
        BY <1>0, <2>0, <2>4 DEF Contiguous, Offsets
      <4> QED
        BY <1>1, <4>1 DEF HandleFrame, Stored
    <3>2. buffered' \in [Offsets -> Chunks]
      BY <2>0, <3>1 DEF TypeOK, Chunks
    <3>3. \A o \in Offsets : \A i \in 1 .. Len(buffered'[o]) : buffered'[o][i] = o + i
      BY <2>0, <3>1 DEF TypeOK, Run
    <3> QED
      BY <2>1, <2>2, <3>1, <3>2, <3>3 DEF TypeOK, ReadBufIsRun
  <2>5. CASE f.from < expectedOffset
    <3>1. UNCHANGED recvVars
      <4>1. ~Contiguous(f) /\ ~(f.from > expectedOffset)
        BY <1>0, <2>0, <2>5 DEF Contiguous, Offsets
      <4> QED
        BY <1>1, <4>1 DEF HandleFrame
    <3> QED
      BY <2>1, <2>2, <3>1 DEF TypeOK, ReadBufIsRun, recvVars
  <2> QED
    BY <1>0, <2>0, <2>3, <2>4, <2>5 DEF Contiguous, Offsets
<1>2. ASSUME NEW t \in Readers, ReadEnter(t) PROVE TypeOK' /\ ReadBufIsRun'
  BY <1>2 DEF ReadEnter, TypeOK, ReadBufIsRun, recvVars
<1>3. ASSUME NEW t \in Readers, ReadPoll(t) PROVE TypeOK' /\ ReadBufIsRun'
  <2>1. UNCHANGED <<cuts, expectedOffset, buffered, notify, readActive, handled>>
    BY <1>3 DEF ReadPoll
  <2>2. reader' \in [Readers -> {"idle", "poll", "wait", "leave"}]
    BY <1>3 DEF ReadPoll, TypeOK
  <2>3. CASE readBuf # <<>>
    <3>1. PICK n \in 1 .. Len(readBuf) :
            /\ Run(returned', expectedOffset - Len(readBuf)) /\ Len(returned') = n
            /\ Run(readBuf', expectedOffset - Len(readBuf) + n) /\ Len(readBuf') = Len(readBuf) - n
      BY <1>3, <2>3, ReadTakes
    <3>2. expectedOffset' - Len(readBuf') = expectedOffset - Len(readBuf) + n
      BY <1>0, <2>1, <3>1
    <3>3. ReadBufIsRun'
      BY <1>0, <2>1, <3>1, <3>2 DEF ReadBufIsRun
    <3> QED
      BY <2>1, <2>2, <3>1, <3>3 DEF TypeOK, Run, Bytes
  <2>4. CASE readBuf = <<>>
    <3>1. UNCHANGED <<returned, readBuf>>
      BY <1>3, <2>4 DEF ReadPoll
    <3> QED
      BY <2>1, <2>2, <3>1 DEF TypeOK, ReadBufIsRun
  <2> QED
    BY <2>3, <2>4
<1>4. ASSUME NEW t \in Readers, ReadWake(t) PROVE TypeOK' /\ ReadBufIsRun'
  BY <1>4 DEF ReadWake, TypeOK, ReadBufIsRun, recvVars
<1>5. ASSUME NEW t \in Readers, ReadLeave(t) PROVE TypeOK' /\ ReadBufIsRun'
  BY <1>5 DEF ReadLeave, TypeOK, ReadBufIsRun, recvVars
<1>6. ASSUME NEW offset \in Offsets, SetReadOffset(offset) PROVE TypeOK' /\ ReadBufIsRun'
  <2>1. <<>> \in Seq(Bytes) /\ Len(<<>>) = 0 /\ offset \in Nat
    BY EmptySeq, RecvConstants DEF Offsets
  <2>2. ReadBufIsRun'
    BY <1>6, <2>1 DEF SetReadOffset, ReadBufIsRun, Run
  <2>3. buffered' \in [Offsets -> Chunks] /\ \A o \in Offsets : buffered'[o] = <<>>
    BY <1>6 DEF SetReadOffset, Chunks
  <2> QED
    BY <1>6, <2>1, <2>2, <2>3 DEF SetReadOffset, TypeOK, Bytes
<1>7. CASE UNCHANGED vars
  BY <1>7 DEF vars, recvVars, TypeOK, ReadBufIsRun
<1> QED
  BY <1>1, <1>2, <1>3, <1>4, <1>5, <1>6, <1>7 DEF Next, Reading

\* Steps keep one goroutine inside Read, and the token while that one waits for data.
LEMMA WaitStep == RecvInv /\ [Next]_vars => OneReader' /\ TokenWaits'
<1> SUFFICES ASSUME RecvInv, [Next]_vars PROVE OneReader' /\ TokenWaits'
  OBVIOUS
<1> USE DEF RecvInv, OneReader, TokenWaits
<1>0. reader \in [Readers -> {"idle", "poll", "wait", "leave"}]
  BY DEF TypeOK
<1>1. ASSUME NEW f \in Frames, HandleFrame(f) PROVE OneReader' /\ TokenWaits'
  <2>1. notify' = TRUE /\ UNCHANGED <<readActive, reader>>
    BY <1>1 DEF HandleFrame, Notify
  <2> QED
    BY <2>1
<1>2. ASSUME NEW t \in Readers, ReadEnter(t) PROVE OneReader' /\ TokenWaits'
  BY <1>0, <1>2 DEF ReadEnter, recvVars
<1>3. ASSUME NEW t \in Readers, ReadPoll(t) PROVE OneReader' /\ TokenWaits'
  <2>1. UNCHANGED <<notify, readActive>> /\ reader[t] = "poll"
    BY <1>3 DEF ReadPoll
  <2>2. CASE readBuf = <<>>
    <3>1. reader' = [reader EXCEPT ![t] = "wait"] /\ UNCHANGED readBuf
      BY <1>3, <2>2 DEF ReadPoll
    <3> QED
      BY <1>0, <2>1, <2>2, <3>1
  <2>3. CASE readBuf # <<>>
    <3>1. reader' = [reader EXCEPT ![t] = "leave"]
      BY <1>3, <2>3 DEF ReadPoll
    <3> QED
      BY <1>0, <2>1, <3>1
  <2> QED
    BY <2>2, <2>3
<1>4. ASSUME NEW t \in Readers, ReadWake(t) PROVE OneReader' /\ TokenWaits'
  BY <1>0, <1>4 DEF ReadWake, recvVars
<1>5. ASSUME NEW t \in Readers, ReadLeave(t) PROVE OneReader' /\ TokenWaits'
  BY <1>0, <1>5 DEF ReadLeave, recvVars
<1>6. ASSUME NEW offset \in Offsets, SetReadOffset(offset) PROVE OneReader' /\ TokenWaits'
  BY <1>6 DEF SetReadOffset
<1>7. CASE UNCHANGED vars
  BY <1>7 DEF vars, recvVars
<1> QED
  BY <1>1, <1>2, <1>3, <1>4, <1>5, <1>6, <1>7 DEF Next, Reading

\* The invariant holds in every behaviour of the reading half (stream.go, handleFrame, Read,
\* SetReadOffset).
THEOREM RecvInvariant == Spec => []RecvInv
<1>1. RecvInv /\ [Next]_vars => RecvInv'
  BY RunStep, WaitStep DEF RecvInv
<1> QED
  BY <1>1, InitRecv, PTL DEF Spec

\* Every variable of the reading half keeps its type; what is buffered at an offset is the data of
\* a frame that starts there.
THEOREM TypeCorrect == Spec => []TypeOK
<1>1. RecvInv => TypeOK
  BY DEF RecvInv
<1> QED
  BY <1>1, RecvInvariant, PTL

\* A wakeup is never lost: although Read gives its lock up before it receives from notifyCh, the
\* token is there when data is, and no other goroutine can take it.
THEOREM NoMissedWakeupHolds == Spec => []NoMissedWakeup
<1>1. RecvInv => NoMissedWakeup
  BY DEF RecvInv, OneReader, TokenWaits, NoMissedWakeup
<1> QED
  BY <1>1, RecvInvariant, PTL

-----------------------------------------------------------------------------
(***************************************************************************)
(* The refinement of ByteStream                                            *)
(***************************************************************************)

\* The first bytes are still to come: the initial state is that of a byte stream.
LEMMA InitIsStream == Init => Stream!Init
<1> SUFFICES ASSUME Init PROVE Stream!Init
  OBVIOUS
<1>1. readBuf = <<>> /\ returned = <<>>
  BY DEF Init
<1>2. Len(readBuf) = 0
  BY <1>1, EmptySeq
<1>3. expectedOffset = 0
  BY DEF Init
<1>4. GetReadOffset = 0
  BY <1>2, <1>3 DEF GetReadOffset
<1> QED
  BY <1>1, <1>3, <1>4 DEF Stream!Init

\* Every step is a step of the byte stream, or leaves its variables alone: a frame that continues
\* the stream lets bytes arrive, a turn of Read that finds data reads, SetReadOffset seeks.
LEMMA StepIsStream == RecvInv /\ [Next]_vars => [Stream!Next]_Stream!vars
<1> SUFFICES ASSUME RecvInv, [Next]_vars PROVE [Stream!Next]_Stream!vars
  OBVIOUS
<1> USE DEF RecvInv
<1>0. readBuf \in Seq(Bytes) /\ Len(readBuf) \in Nat /\ expectedOffset \in Nat /\ expectedOffset <= Length
  <2>1. readBuf \in Seq(Bytes)
    BY DEF ReadBufIsRun, Run
  <2> QED
    BY <2>1, LenProperties, RecvConstants DEF TypeOK, Offsets
<1>s. UNCHANGED <<readBuf, expectedOffset, returned>> => UNCHANGED Stream!vars
  BY DEF Stream!vars, GetReadOffset
<1>1. ASSUME NEW f \in Frames, HandleFrame(f) PROVE Stream!Arrive \/ UNCHANGED Stream!vars
  <2>1. UNCHANGED returned /\ f \in Frame
    BY <1>1 DEF HandleFrame, Frames
  <2>2. CASE Contiguous(f)
    <3> DEFINE next == f.from + Len(Data(f))
               after == next + Len(buffered[next])
    <3>1. /\ next \in Offsets /\ next > expectedOffset
          /\ after \in Offsets /\ after >= next
          /\ expectedOffset' = after
          /\ Len(readBuf') = Len(readBuf) + after - expectedOffset
      BY <1>1, <2>2, ContiguousFrame
    <3> HIDE DEF next, after
    <3>2. expectedOffset' \in expectedOffset + 1 .. Length
      BY <1>0, <3>1, RecvConstants DEF Offsets
    <3>3. after \in Nat
      BY <3>1 DEF Offsets
    <3>4. UNCHANGED GetReadOffset
      BY <1>0, <3>1, <3>3 DEF GetReadOffset
    <3> QED
      BY <2>1, <3>2, <3>4 DEF Stream!Arrive
  <2>3. CASE ~Contiguous(f)
    <3>1. UNCHANGED <<readBuf, expectedOffset>>
      BY <1>1, <2>3 DEF HandleFrame, recvVars
    <3> QED
      BY <1>s, <2>1, <3>1
  <2> QED
    BY <2>2, <2>3
<1>2. ASSUME NEW t \in Readers, ReadPoll(t) PROVE Stream!Read \/ UNCHANGED Stream!vars
  <2>1. UNCHANGED expectedOffset
    BY <1>2 DEF ReadPoll
  <2>2. CASE readBuf # <<>>
    <3>1. PICK n \in 1 .. Len(readBuf) :
            /\ Run(returned', expectedOffset - Len(readBuf)) /\ Len(returned') = n
            /\ Len(readBuf') = Len(readBuf) - n
      BY <1>2, <2>2, ReadTakes
    <3> DEFINE to == GetReadOffset + n
    <3>2. GetReadOffset \in Nat /\ n \in Nat /\ to \in GetReadOffset + 1 .. expectedOffset
      BY <1>0 DEF GetReadOffset, ReadBufIsRun
    <3>3. GetReadOffset' = to
      BY <1>0, <2>1, <3>1 DEF GetReadOffset
    <3>4. returned' = Stream!Bytes(GetReadOffset, to)
      <4> DEFINE b == Stream!Bytes(GetReadOffset, to)
      <4>1. to <= Length /\ to - GetReadOffset = n
        BY <1>0, <3>2, RecvConstants
      <4>2. b \in [1 .. n -> Bytes] /\ \A i \in 1 .. n : b[i] = GetReadOffset + i
        BY <3>2, <4>1, RecvConstants DEF Stream!Bytes, Bytes
      <4> HIDE DEF b
      <4>3. b \in Seq(Bytes) /\ Len(b) = n
        BY <3>2, <4>2
      <4>4. Run(b, GetReadOffset)
        BY <4>2, <4>3 DEF Run
      <4>5. Run(returned', GetReadOffset)
        BY <3>1 DEF GetReadOffset
      <4>6. returned' = b
        BY <3>1, <3>2, <4>3, <4>4, <4>5, RunIsUnique
      <4> QED
        BY <4>6 DEF b
    <3> HIDE DEF to
    <3> QED
      BY <2>1, <3>2, <3>3, <3>4 DEF Stream!Read
  <2>3. CASE readBuf = <<>>
    <3>1. UNCHANGED <<readBuf, returned>>
      BY <1>2, <2>3 DEF ReadPoll
    <3> QED
      BY <1>s, <2>1, <3>1
  <2> QED
    BY <2>2, <2>3
<1>3. ASSUME NEW t \in Readers, ReadEnter(t) \/ ReadWake(t) \/ ReadLeave(t)
      PROVE  UNCHANGED Stream!vars
  BY <1>3, <1>s DEF ReadEnter, ReadWake, ReadLeave, recvVars
<1>4. ASSUME NEW offset \in Offsets, SetReadOffset(offset) PROVE Stream!Seek
  <2>1. Len(<<>>) = 0 /\ offset \in Nat
    BY EmptySeq, RecvConstants DEF Offsets
  <2>2. expectedOffset' = offset /\ GetReadOffset' = offset /\ UNCHANGED returned
    BY <1>4, <2>1 DEF SetReadOffset, GetReadOffset
  <2> QED
    BY <2>2 DEF Stream!Seek, Offsets
<1>5. CASE UNCHANGED vars
  BY <1>5, <1>s DEF vars, recvVars
<1> QED
  BY <1>1, <1>2, <1>3, <1>4, <1>5 DEF Next, Reading, Stream!Next

\* The reading half implements a byte stream: whatever the order and the number of deliveries and
\* whatever the goroutines that read, Read returns the next bytes in order, each once, never
\* beyond what has arrived without a gap, and GetReadOffset tells how far it has come.
THEOREM ReadsByteStreamHolds == Spec => ReadsByteStream
<1> QED
  BY InitIsStream, StepIsStream, RecvInvariant, PTL DEF Spec, ReadsByteStream, Stream!Spec

=============================================================================
