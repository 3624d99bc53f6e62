-------------------------- MODULE RecorderLoopProofs --------------------------
(***************************************************************************)
(* What a reader finds in the record file, for every sequence of datagrams *)
(* and signals, and wherever the recorder is killed.                       *)
(*                                                                         *)
(* ReadRecords is a recursive function.  That it has a value is shown      *)
(* first; what the value is, by induction from the end of the file.        *)
(***************************************************************************)
EXTENDS RecorderLoop, NumberInduction, SequenceTheorems, FiniteSetTheorems

-----------------------------------------------------------------------------
(* What the record tool does at one place of the file, given what it does  *)
(* at the later ones.                                                      *)
NextRead(bytes, read, from) ==
  IF Len(bytes) - from < HeaderSize THEN << >>
  ELSE LET record == bytes[from + 1].of
           to == from + HeaderSize + record.size
       IN  IF bytes[from + 1].at # 1 THEN << [type |-> "garbled", size |-> 0] >>
           ELSE IF to > Len(bytes) THEN << >>
           ELSE << record >> \o read[to]

Bytes == [of : Records, at : Nat]

(* It only looks at later places.                                          *)
LEMMA NextReadLooksAhead ==
  ASSUME NEW bytes \in Seq(Bytes), NEW f, NEW g, NEW from \in 0 .. Len(bytes),
         \A to \in from + 1 .. Len(bytes) : f[to] = g[to]
  PROVE  NextRead(bytes, f, from) = NextRead(bytes, g, from)
<1>0. Len(bytes) \in Nat /\ HeaderSize \in Nat \ {0}
  BY LenProperties, BoundsAssumption
<1>1. CASE Len(bytes) - from < HeaderSize
  BY <1>1 DEF NextRead
<1>2. CASE ~(Len(bytes) - from < HeaderSize)
  <2>1. from + 1 \in 1 .. Len(bytes)
    BY <1>0, <1>2
  <2>2. bytes[from + 1] \in Bytes
    BY <2>1, ElementOfSeq
  <2> DEFINE to == from + HeaderSize + bytes[from + 1].of.size
  <2>3. bytes[from + 1].of.size \in Nat
    BY <2>2 DEF Bytes, Records
  <2>4. to \in Nat /\ to > from
    BY <1>0, <2>3
  <2>5. to > Len(bytes) \/ f[to] = g[to]
    BY <1>0, <2>4
  <2> QED
    BY <2>5 DEF NextRead
<1> QED
  BY <1>1, <1>2

(* There is a function that does it from any place on.                     *)
LEMMA ReadingFrom ==
  ASSUME NEW bytes \in Seq(Bytes), NEW k \in 0 .. Len(bytes)
  PROVE  \E read : read = [from \in Len(bytes) - k .. Len(bytes) |-> NextRead(bytes, read, from)]
<1> DEFINE n == Len(bytes)
           IsReading(read, j) == read = [from \in n - j .. n |-> NextRead(bytes, read, from)]
           S == {j \in 0 .. n : \E read : IsReading(read, j)}
<1>0. n = Len(bytes) /\ n \in Nat /\ HeaderSize \in Nat \ {0}
  BY LenProperties, BoundsAssumption
<1> HIDE DEF n
<1>1. 0 \in S
  <2> DEFINE read == [from \in n - 0 .. n |-> << >>]
  <2>1. \A from \in n - 0 .. n : NextRead(bytes, read, from) = << >>
    BY <1>0 DEF NextRead
  <2>2. IsReading(read, 0)
    BY <2>1
  <2> QED
    BY <1>0, <2>2
<1>2. ASSUME NEW j \in 0 .. n - 1, j \in S PROVE j + 1 \in S
  <2>1. PICK g : IsReading(g, j)
    BY <1>2
  <2> DEFINE first == n - (j + 1)
             h == [from \in first .. n |-> IF from = first THEN NextRead(bytes, g, from) ELSE g[from]]
  <2>2. first \in 0 .. n /\ first + 1 = n - j
    BY <1>0
  <2> HIDE DEF first
  <2>3. \A to \in first + 1 .. n : h[to] = g[to]
    BY <1>0, <2>2
  <2>4. ASSUME NEW from \in first .. n
        PROVE  h[from] = NextRead(bytes, h, from)
    <3>1. from \in 0 .. n /\ \A to \in from + 1 .. n : h[to] = g[to]
      BY <1>0, <2>2, <2>3
    <3> HIDE DEF h
    <3>2. NextRead(bytes, h, from) = NextRead(bytes, g, from)
      BY <1>0, <3>1, NextReadLooksAhead
    <3>3. CASE from = first
      BY <3>2, <3>3 DEF h
    <3>4. CASE from # first
      <4>1. from \in n - j .. n
        BY <1>0, <2>2, <3>4
      <4>2. g[from] = NextRead(bytes, g, from)
        BY <2>1, <4>1
      <4>3. h[from] = g[from]
        BY <2>3, <1>0, <2>2, <3>4
      <4> QED
        BY <3>2, <4>2, <4>3
    <3> QED
      BY <3>3, <3>4
  <2>5. h = [from \in first .. n |-> h[from]]
    OBVIOUS
  <2> HIDE DEF h
  <2>6. h = [from \in first .. n |-> NextRead(bytes, h, from)]
    BY <2>4, <2>5
  <2>7. IsReading(h, j + 1)
    BY <2>6 DEF first
  <2> QED
    BY <1>0, <2>7
<1>3. \A j \in 0 .. n : j \in S
  <2> HIDE DEF S
  <2> QED
    BY <1>0, <1>1, <1>2, InductionUpTo
<1> QED
  BY <1>0, <1>3

(* So ReadRecords has the value of such a function at the start.           *)
LEMMA ReadingExists ==
  ASSUME NEW bytes \in Seq(Bytes)
  PROVE  \E read : /\ read = [from \in 0 .. Len(bytes) |-> NextRead(bytes, read, from)]
                   /\ ReadRecords(bytes) = read[0]
<1> DEFINE IsReading(read) == read = [from \in 0 .. Len(bytes) |-> NextRead(bytes, read, from)]
           reading == CHOOSE read : IsReading(read)
<1>1. ReadRecords(bytes) = reading[0]
  BY DEF ReadRecords, NextRead
<1>2. \E read : IsReading(read)
  <2>1. Len(bytes) \in 0 .. Len(bytes) /\ Len(bytes) - Len(bytes) = 0
    BY LenProperties
  <2> QED
    BY <2>1, ReadingFrom
<1> HIDE DEF IsReading
<1>3. IsReading(reading)
  BY <1>2
<1> QED
  BY <1>1, <1>3 DEF IsReading

-----------------------------------------------------------------------------
(* The stream is the frames of the first k of the records rs, one behind   *)
(* the other: frame i starts behind start[i] bytes.                        *)
IsFraming(bytes, rs, k, start) ==
  /\ start \in [1 .. k + 1 -> Nat]
  /\ start[1] = 0 /\ start[k + 1] = Len(bytes)
  /\ \A i \in 1 .. k : start[i + 1] = start[i] + HeaderSize + rs[i].size
  /\ \A i \in 1 .. k : \A j \in 1 .. HeaderSize + rs[i].size :
        bytes[start[i] + j] = [of |-> rs[i], at |-> j]

(* It does not look behind the first k of them.                            *)
LEMMA SameFraming ==
  ASSUME NEW bytes, NEW rs, NEW more, NEW k, NEW start, IsFraming(bytes, rs, k, start),
         \A i \in 1 .. k : more[i] = rs[i]
  PROVE  IsFraming(bytes, more, k, start)
<1>1. \A i \in 1 .. k : start[i + 1] = start[i] + HeaderSize + more[i].size
  BY DEF IsFraming
<1>2. ASSUME NEW i \in 1 .. k, NEW j \in 1 .. HeaderSize + more[i].size
      PROVE  bytes[start[i] + j] = [of |-> more[i], at |-> j]
  <2>1. more[i] = rs[i]
    OBVIOUS
  <2>2. bytes[start[i] + j] = [of |-> rs[i], at |-> j]
    BY <2>1 DEF IsFraming
  <2> QED
    BY <2>1, <2>2
<1> QED
  BY <1>1, <1>2 DEF IsFraming

(* No frame starts behind the end.                                         *)
LEMMA FramesWithin ==
  ASSUME NEW rs \in Seq(Records), NEW k \in 0 .. Len(rs), NEW bytes \in Seq(Bytes),
         NEW start, IsFraming(bytes, rs, k, start)
  PROVE  \A i \in 1 .. k + 1 : start[i] \in 0 .. Len(bytes)
<1> DEFINE n == Len(bytes)
           S == {d \in 0 .. k : start[k + 1 - d] <= n}
<1>0. /\ n = Len(bytes) /\ n \in Nat /\ Len(rs) \in Nat /\ HeaderSize \in Nat \ {0}
      /\ start \in [1 .. k + 1 -> Nat] /\ start[k + 1] = n
  BY LenProperties, BoundsAssumption DEF IsFraming
<1> HIDE DEF n
<1>1. 0 \in S
  BY <1>0
<1>2. ASSUME NEW d \in 0 .. k - 1, d \in S PROVE d + 1 \in S
  <2> DEFINE i == k - d
  <2>1. i \in 1 .. k /\ k + 1 - (d + 1) = i /\ k + 1 - d = i + 1
    BY <1>0
  <2> HIDE DEF i
  <2>2. start[i + 1] = start[i] + HeaderSize + rs[i].size
    BY <2>1 DEF IsFraming
  <2>3. i \in 1 .. Len(rs)
    BY <1>0, <2>1
  <2>4. rs[i].size \in Nat
    <3>1. rs[i] \in Records
      BY <2>3, ElementOfSeq
    <3> QED
      BY <3>1 DEF Records
  <2>5. start[i + 1] <= n /\ start[i] \in Nat /\ start[i + 1] \in Nat
    BY <1>0, <1>2, <2>1
  <2>6. start[i] <= n
    BY <1>0, <2>2, <2>4, <2>5
  <2> QED
    BY <2>1, <2>6
<1>3. \A d \in 0 .. k : d \in S
  <2> HIDE DEF S
  <2>1. k \in Nat
    BY <1>0
  <2> QED
    BY <1>1, <1>2, <2>1, InductionUpTo
<1>4. ASSUME NEW i \in 1 .. k + 1 PROVE start[i] \in 0 .. n
  <2>1. k + 1 - i \in 0 .. k /\ k + 1 - (k + 1 - i) = i
    BY <1>0
  <2>2. start[i] <= n /\ start[i] \in Nat
    BY <1>0, <1>3, <2>1
  <2> QED
    BY <1>0, <2>2
<1> QED
  BY <1>0, <1>4

(* At the start of frame i, the tool finds its record, unless the file is  *)
(* cut off before the frame ends.                                          *)
LEMMA ReadsFrame ==
  ASSUME NEW rs \in Seq(Records), NEW k \in 0 .. Len(rs), NEW bytes \in Seq(Bytes),
         NEW start, IsFraming(bytes, rs, k, start), NEW f \in 0 .. Len(bytes),
         NEW read, NEW i \in 1 .. k, start[i] <= f
  PROVE  NextRead(SubSeq(bytes, 1, f), read, start[i]) =
           IF start[i + 1] <= f THEN << rs[i] >> \o read[start[i + 1]] ELSE << >>
<1> DEFINE cut == SubSeq(bytes, 1, f)
           s == start[i]
           z == rs[i].size
<1>0. /\ Len(bytes) \in Nat /\ Len(rs) \in Nat /\ HeaderSize \in Nat \ {0}
      /\ s \in Nat /\ start[i + 1] = s + HeaderSize + z
  BY LenProperties, BoundsAssumption DEF IsFraming
<1>1. i \in 1 .. Len(rs)
  BY <1>0
<1>2. z \in Nat
  <2>1. rs[i] \in Records
    BY <1>1, ElementOfSeq
  <2> QED
    BY <2>1 DEF Records
<1>3. Len(cut) = f /\ \A x \in 1 .. f : cut[x] = bytes[x]
  <2>1. \A x \in 1 .. f : bytes[x] \in Bytes
    BY <1>0, ElementOfSeq
  <2> QED
    BY <1>0, <2>1, SubSeqProperties
<1>4. bytes[s + 1] = [of |-> rs[i], at |-> 1]
  <2>1. \A j \in 1 .. HeaderSize + z : bytes[s + j] = [of |-> rs[i], at |-> j]
    BY DEF IsFraming
  <2>2. 1 \in 1 .. HeaderSize + z
    BY <1>0, <1>2
  <2> HIDE DEF s, z
  <2> QED
    BY <2>1, <2>2
<1> HIDE DEF cut, s, z
<1>5. CASE f - s < HeaderSize
  <2>1. NextRead(cut, read, s) = << >>
    BY <1>3, <1>5 DEF NextRead
  <2>2. ~(start[i + 1] <= f)
    BY <1>0, <1>2, <1>5
  <2> QED
    BY <2>1, <2>2 DEF cut, s
<1>6. CASE ~(f - s < HeaderSize)
  <2>1. s + 1 \in 1 .. f
    BY <1>0, <1>6
  <2>2. cut[s + 1] = [of |-> rs[i], at |-> 1]
    BY <1>3, <1>4, <2>1
  <2>3. cut[s + 1].of = rs[i] /\ cut[s + 1].at = 1
    BY <2>2
  <2>4. start[i + 1] = s + HeaderSize + rs[i].size /\ start[i + 1] \in Nat
    BY <1>0, <1>2 DEF z
  <2>5. NextRead(cut, read, s) =
          IF start[i + 1] > f THEN << >> ELSE << rs[i] >> \o read[start[i + 1]]
    BY <1>3, <1>6, <2>3, <2>4 DEF NextRead
  <2>6. start[i + 1] > f <=> ~(start[i + 1] <= f)
    BY <1>0, <2>4
  <2> QED
    BY <2>5, <2>6 DEF cut, s
<1> QED
  BY <1>5, <1>6

(* Cut off anywhere, the stream reads as the first records it was written; *)
(* whole, it reads as all of them.                                         *)
LEMMA ReadsWritten ==
  ASSUME NEW rs \in Seq(Records), NEW k \in 0 .. Len(rs), NEW bytes \in Seq(Bytes),
         NEW start, IsFraming(bytes, rs, k, start), NEW f \in 0 .. Len(bytes)
  PROVE  \E j \in 0 .. k :
            ReadRecords(SubSeq(bytes, 1, f)) = SubSeq(rs, 1, j) /\ (f = Len(bytes) => j = k)
<1> DEFINE n == Len(bytes)
           cut == SubSeq(bytes, 1, f)
<1>0. /\ n = Len(bytes) /\ n \in Nat /\ Len(rs) \in Nat /\ k \in Nat /\ HeaderSize \in Nat \ {0}
      /\ start \in [1 .. k + 1 -> Nat] /\ start[k + 1] = n /\ start[1] = 0
  BY LenProperties, BoundsAssumption DEF IsFraming
<1>1. cut \in Seq(Bytes) /\ Len(cut) = f
  <2>1. \A x \in 1 .. f : bytes[x] \in Bytes
    BY <1>0, ElementOfSeq
  <2> QED
    BY <1>0, <2>1, SubSeqProperties
<1>2. PICK read : /\ read = [from \in 0 .. Len(cut) |-> NextRead(cut, read, from)]
                  /\ ReadRecords(cut) = read[0]
  BY <1>1, ReadingExists
<1> HIDE DEF n, cut
<1>3. \A from \in 0 .. f : read[from] = NextRead(cut, read, from)
  BY <1>1, <1>2
<1> DEFINE Reads(i) ==
             \E j \in 0 .. k : i <= j + 1 /\ read[start[i]] = SubSeq(rs, i, j) /\ (f = n => j = k)
           S == {d \in 0 .. k : start[k + 1 - d] <= f => Reads(k + 1 - d)}
<1>4. 0 \in S
  <2>1. ASSUME start[k + 1] <= f PROVE Reads(k + 1)
    <3>1. start[k + 1] = f
      BY <1>0, <2>1
    <3>2. NextRead(cut, read, f) = << >>
      BY <1>0, <1>1 DEF NextRead
    <3>3. read[start[k + 1]] = << >>
      BY <1>0, <1>3, <3>1, <3>2
    <3>4. SubSeq(rs, k + 1, k) = << >>
      BY <1>0, SubSeqEmpty
    <3>5. k \in 0 .. k /\ k + 1 <= k + 1
      BY <1>0
    <3> QED
      BY <3>3, <3>4, <3>5
  <2>2. k + 1 - 0 = k + 1 /\ 0 \in 0 .. k
    BY <1>0
  <2> HIDE DEF Reads
  <2> QED
    BY <2>1, <2>2
<1>5. ASSUME NEW d \in 0 .. k - 1, d \in S PROVE d + 1 \in S
  <2> DEFINE i == k - d
  <2>1. i \in 1 .. k /\ i \in 1 .. Len(rs) /\ k + 1 - (d + 1) = i /\ k + 1 - d = i + 1
    BY <1>0
  <2>2. start[i + 1] <= f => Reads(i + 1)
    BY <1>5, <2>1
  <2> HIDE DEF i
  <2>3. ASSUME start[i] <= f PROVE Reads(i)
    <3>1. start[i] \in 0 .. f /\ start[i + 1] \in 0 .. n
      <4>1. i \in 1 .. k + 1 /\ i + 1 \in 1 .. k + 1
        BY <1>0, <2>1
      <4> QED
        BY <1>0, <2>3, <4>1, FramesWithin
    <3>2. read[start[i]] = IF start[i + 1] <= f THEN << rs[i] >> \o read[start[i + 1]] ELSE << >>
      BY <1>3, <2>1, <2>3, <3>1, ReadsFrame DEF cut
    <3>3. CASE start[i + 1] <= f
      <4>1. PICK j \in 0 .. k : /\ i + 1 <= j + 1 /\ read[start[i + 1]] = SubSeq(rs, i + 1, j)
                              /\ (f = n => j = k)
        <5>1. Reads(i + 1)
          <6> HIDE DEF Reads
          <6> QED
            BY <2>2, <3>3
        <5> HIDE DEF S
        <5> QED
          BY <5>1
      <4>2. j \in i .. Len(rs)
        BY <1>0, <2>1, <4>1
      <4>3. SubSeq(rs, i, j) = << rs[i] >> \o SubSeq(rs, i + 1, j)
        BY <2>1, <4>2, SubSeqRecursiveFirst
      <4>4. i <= j + 1
        BY <1>0, <2>1, <4>2
      <4>5. read[start[i]] = SubSeq(rs, i, j)
        BY <3>2, <3>3, <4>1, <4>3
      <4> HIDE DEF S
      <4> QED
        BY <4>1, <4>4, <4>5
    <3>4. CASE ~(start[i + 1] <= f)
      <4>1. f # n
        BY <1>0, <3>1, <3>4
      <4>2. SubSeq(rs, i, i - 1) = << >>
        BY <2>1, SubSeqEmpty
      <4>3. i - 1 \in 0 .. k /\ i <= i - 1 + 1
        BY <1>0, <2>1
      <4> QED
        BY <3>2, <3>4, <4>1, <4>2, <4>3
    <3> QED
      BY <3>3, <3>4
  <2>4. d + 1 \in 0 .. k
    BY <1>0
  <2> HIDE DEF Reads
  <2> QED
    BY <2>1, <2>3, <2>4
<1>6. k \in S
  <2> HIDE DEF S, Reads
  <2>1. \A d \in 0 .. k : d \in S
    BY <1>0, <1>4, <1>5, InductionUpTo
  <2> QED
    BY <1>0, <2>1
<1>7. Reads(1)
  <2>1. k + 1 - k = 1 /\ start[1] <= f
    BY <1>0
  <2> QED
    BY <1>6, <2>1
<1> QED
  BY <1>0, <1>2, <1>7 DEF cut

-----------------------------------------------------------------------------
(* What a datagram yields, and a record's frame, are sequences.            *)
LEMMA DatagramYields ==
  ASSUME NEW d \in Datagrams
  PROVE  d.socket \in Sockets /\ Yields(d) \in Seq(Records)
<1>1. CASE d.socket = "event"
  <2>1. d.claimed \in Nat
    BY <1>1, DatagramsAssumption
  <2>2. [type |-> "event", size |-> d.claimed] \in Records
    BY <2>1 DEF Records
  <2>3. EventRecords(d) \in Seq(Records)
    BY <2>2 DEF EventRecords
  <2> QED
    BY <1>1, <2>3 DEF Yields, Sockets
<1>2. CASE d.socket # "event"
  BY <1>2, DatagramsAssumption DEF Yields, Sockets
<1> QED
  BY <1>1, <1>2

LEMMA FrameBytes ==
  ASSUME NEW record \in Records
  PROVE  /\ record.size \in Nat
         /\ Frame(record) \in Seq(Bytes)
         /\ Len(Frame(record)) = HeaderSize + record.size
         /\ \A i \in 1 .. HeaderSize + record.size : Frame(record)[i] = [of |-> record, at |-> i]
<1> DEFINE n == HeaderSize + record.size
<1>1. record.size \in Nat /\ n \in Nat
  BY BoundsAssumption DEF Records
<1> HIDE DEF n
<1>2. Frame(record) = [i \in 1 .. n |-> [of |-> record, at |-> i]]
  BY DEF Frame, n
<1>3. Frame(record) \in [1 .. n -> Bytes]
  BY <1>1, <1>2 DEF Bytes
<1> QED
  BY <1>1, <1>2, <1>3 DEF n

(* epoll_wait returns each ready descriptor once.                          *)
LEMMA ReadySequence ==
  ASSUME NEW q \in SetToSeqs(ReadyNow)
  PROVE  /\ q \in Seq(Sockets \cup {"eventfd"})
         /\ \A i \in 1 .. Len(q) : q[i] \in ReadyNow
         /\ \A i, j \in 1 .. Len(q) : q[i] = q[j] => i = j
<1>1. ReadyNow \in SUBSET {"event", "ota", "eventfd"} /\ ReadyNow \in SUBSET (Sockets \cup {"eventfd"})
  BY DEF ReadyNow, Sockets
<1>2. IsFiniteSet({"event", "ota", "eventfd"})
  <2>1. IsFiniteSet({"event"} \cup {"ota"} \cup {"eventfd"})
    BY FS_Singleton, FS_AddElement
  <2>2. {"event", "ota", "eventfd"} = {"event"} \cup {"ota"} \cup {"eventfd"}
    OBVIOUS
  <2> QED
    BY <2>1, <2>2
<1>3. Cardinality(ReadyNow) \in Nat
  BY <1>1, <1>2, FS_Subset, FS_CardinalityType
<1> DEFINE n == Cardinality(ReadyNow)
<1>4. q \in [1 .. n -> ReadyNow] /\ \A i, j \in 1 .. n : i # j => q[i] # q[j]
  BY DEF SetToSeqs
<1> HIDE DEF n
<1>5. q \in Seq(ReadyNow) /\ Len(q) = n
  BY <1>3, <1>4 DEF n
<1> QED
  BY <1>1, <1>4, <1>5, SeqMonotonic

-----------------------------------------------------------------------------
(* The stream and the records that wait to be written to it are together   *)
(* what was collected: the file is never ahead of, behind or beside it.    *)
Written == Len(collected) - Len(records)

PendingIsRest ==
  /\ Len(records) <= Len(collected)
  /\ \A i \in 1 .. Len(records) : records[i] = collected[Written + i]

StreamIsFrames == \E start : IsFraming(stream, collected, Written, start)

(* What epoll_wait returned is still there when its turn comes.            *)
ReadyHasData ==
  phase = "handling" =>
    \A i \in 1 .. Len(ready) :
       /\ ready[i] \in Sockets => sockets[ready[i]] # << >>
       /\ \A j \in 1 .. Len(ready) : ready[i] = ready[j] => i = j

(* The loop waits, and ends, with nothing left to write.                   *)
NothingLeftOver ==
  /\ phase \in {"opening", "waiting"} => records = << >>
  /\ phase = "closed" => records = << >> /\ flushed = Len(stream)

LInv ==
  /\ TypeOK
  /\ eventfd <= signals
  /\ PendingIsRest
  /\ StreamIsFrames
  /\ ReadyHasData
  /\ NothingLeftOver

LEMMA FileKept ==
  ASSUME PendingIsRest, StreamIsFrames, UNCHANGED <<records, collected, stream>>
  PROVE  PendingIsRest' /\ StreamIsFrames'
  BY DEF PendingIsRest, StreamIsFrames, Written

(* A recorder that starts has an empty stream and nothing collected.       *)
LEMMA FileEmpty ==
  ASSUME records' = << >>, collected' = << >>, stream' = << >>
  PROVE  PendingIsRest' /\ StreamIsFrames'
<1>1. Written' = 0
  BY DEF Written
<1>2. PendingIsRest'
  <2>1. Len(records') = 0 /\ Len(collected') = 0
    OBVIOUS
  <2>2. Len(records') <= Len(collected')
    BY <2>1
  <2>3. ASSUME NEW i \in 1 .. Len(records') PROVE FALSE
    BY <2>1
  <2> QED
    BY <2>2, <2>3 DEF PendingIsRest
<1>3. IsFraming(<< >>, << >>, 0, [i \in 1 .. 1 |-> 0])
  BY DEF IsFraming
<1> QED
  BY <1>1, <1>2, <1>3 DEF StreamIsFrames

(* The records of a datagram are appended to both sides.                   *)
LEMMA FileCollects ==
  ASSUME TypeOK, PendingIsRest, StreamIsFrames, NEW y \in Seq(Records),
         records' = records \o y, collected' = collected \o y, UNCHANGED stream
  PROVE  PendingIsRest' /\ StreamIsFrames'
<1>1. records \in Seq(Records) /\ collected \in Seq(Records)
  BY DEF TypeOK
<1>2. Len(records) \in Nat /\ Len(collected) \in Nat /\ Len(y) \in Nat
  BY <1>1, LenProperties
<1>3. /\ Len(records') = Len(records) + Len(y) /\ Len(collected') = Len(collected) + Len(y)
      /\ \A i \in 1 .. Len(records) + Len(y) :
            records'[i] = IF i <= Len(records) THEN records[i] ELSE y[i - Len(records)]
      /\ \A i \in 1 .. Len(collected) + Len(y) :
            collected'[i] = IF i <= Len(collected) THEN collected[i] ELSE y[i - Len(collected)]
  BY <1>1, ConcatProperties
<1>4. Written' = Written /\ Written \in 0 .. Len(collected)
  BY <1>2, <1>3 DEF Written, PendingIsRest
<1>5. PendingIsRest'
  <2>1. Len(records') <= Len(collected')
    BY <1>2, <1>3 DEF PendingIsRest
  <2>2. ASSUME NEW i \in 1 .. Len(records') PROVE records'[i] = collected'[Written' + i]
    <3>0. i \in Nat /\ Written + i \in 1 .. Len(collected) + Len(y) /\ i \in 1 .. Len(records) + Len(y)
      BY <1>2, <1>3, <1>4 DEF Written
    <3>1. CASE i <= Len(records)
      <4>1. Written + i <= Len(collected) /\ i \in 1 .. Len(records)
        BY <1>2, <3>0, <3>1 DEF Written
      <4>2. records[i] = collected[Written + i]
        BY <4>1 DEF PendingIsRest
      <4> QED
        BY <1>3, <1>4, <3>0, <3>1, <4>1, <4>2
    <3>2. CASE ~(i <= Len(records))
      <4>1. ~(Written + i <= Len(collected)) /\ Written + i - Len(collected) = i - Len(records)
        BY <1>2, <3>0, <3>2 DEF Written
      <4> QED
        BY <1>3, <1>4, <3>0, <3>2, <4>1
    <3> QED
      BY <3>1, <3>2
  <2> QED
    BY <2>1, <2>2 DEF PendingIsRest
<1>6. \A i \in 1 .. Written : collected'[i] = collected[i]
  BY <1>2, <1>3, <1>4
<1>7. StreamIsFrames'
  <2>1. PICK start : IsFraming(stream, collected, Written, start)
    BY DEF StreamIsFrames
  <2>2. IsFraming(stream, collected', Written, start)
    BY <1>6, <2>1, SameFraming
  <2> QED
    BY <1>4, <2>2 DEF StreamIsFrames
<1> QED
  BY <1>5, <1>7

(* A record that is written goes to the end of the stream.                 *)
LEMMA FileWrites ==
  ASSUME TypeOK, PendingIsRest, StreamIsFrames, records # << >>,
         records' = Tail(records), stream' = stream \o Frame(Head(records)),
         UNCHANGED collected
  PROVE  PendingIsRest' /\ StreamIsFrames'
<1> DEFINE r == Head(records)
           w == Written
<1>0. /\ records \in Seq(Records) /\ collected \in Seq(Records) /\ stream \in Seq(Bytes)
      /\ HeaderSize \in Nat \ {0}
  BY BoundsAssumption DEF TypeOK, Bytes
<1>1. /\ Len(records) \in Nat \ {0} /\ Len(collected) \in Nat /\ Len(stream) \in Nat
      /\ r = records[1] /\ r \in Records
  BY <1>0, LenProperties, HeadTailProperties, EmptySeq
<1>2. Len(records') = Len(records) - 1 /\ \A i \in 1 .. Len(records') : records'[i] = records[i + 1]
  BY <1>0, HeadTailProperties
<1>3. w \in Nat /\ w + Len(records) = Len(collected) /\ Written' = w + 1
  BY <1>1, <1>2 DEF Written, PendingIsRest
<1>4. collected[w + 1] = r
  BY <1>1, <1>3 DEF PendingIsRest
<1>5. /\ r.size \in Nat /\ Frame(r) \in Seq(Bytes) /\ Len(Frame(r)) = HeaderSize + r.size
      /\ \A i \in 1 .. HeaderSize + r.size : Frame(r)[i] = [of |-> r, at |-> i]
  BY <1>1, FrameBytes
<1> HIDE DEF r, w
<1>6. PendingIsRest'
  <2>1. Len(records') <= Len(collected')
    BY <1>1, <1>2, <1>3
  <2>2. ASSUME NEW i \in 1 .. Len(records') PROVE records'[i] = collected'[w + 1 + i]
    <3>1. i + 1 \in 1 .. Len(records) /\ w + (i + 1) = w + 1 + i
      BY <1>1, <1>2, <1>3
    <3>2. records[i + 1] = collected[w + (i + 1)]
      BY <3>1 DEF PendingIsRest, w
    <3> QED
      BY <1>2, <3>1, <3>2
  <2> QED
    BY <1>3, <2>1, <2>2 DEF PendingIsRest
<1>7. /\ Len(stream') = Len(stream) + HeaderSize + r.size
      /\ \A i \in 1 .. Len(stream) : stream'[i] = stream[i]
      /\ \A i \in 1 .. HeaderSize + r.size : stream'[Len(stream) + i] = [of |-> r, at |-> i]
  <2>1. stream' = stream \o Frame(r)
    BY DEF r
  <2>2. /\ Len(stream') = Len(stream) + Len(Frame(r))
        /\ \A i \in 1 .. Len(stream) + Len(Frame(r)) :
             stream'[i] = IF i <= Len(stream) THEN stream[i] ELSE Frame(r)[i - Len(stream)]
    <3>1. stream \in Seq(Bytes) /\ Frame(r) \in Seq(Bytes)
      BY <1>0, <1>5
    <3> QED
      BY <2>1, <3>1, ConcatProperties
  <2>3. ASSUME NEW i \in 1 .. HeaderSize + r.size
        PROVE  stream'[Len(stream) + i] = [of |-> r, at |-> i]
    <3>1. /\ Len(stream) + i \in 1 .. Len(stream) + Len(Frame(r))
          /\ ~(Len(stream) + i <= Len(stream)) /\ Len(stream) + i - Len(stream) = i
      BY <1>0, <1>1, <1>5
    <3> QED
      BY <1>5, <2>2, <3>1
  <2> QED
    BY <1>0, <1>1, <1>5, <2>2, <2>3
<1>8. PICK start : IsFraming(stream, collected, w, start)
  BY DEF StreamIsFrames, w
<1> DEFINE next == [i \in 1 .. w + 1 + 1 |-> IF i = w + 2 THEN Len(stream') ELSE start[i]]
<1>9. IsFraming(stream', collected, w + 1, next)
  <2>1. start \in [1 .. w + 1 -> Nat] /\ start[1] = 0 /\ start[w + 1] = Len(stream)
    BY <1>8 DEF IsFraming
  <2>2. w \in 0 .. Len(collected)
    BY <1>1, <1>3
  <2>3. \A i \in 1 .. w + 1 : start[i] \in 0 .. Len(stream)
    BY <1>0, <1>8, <2>2, FramesWithin
  <2>4. Len(stream') \in Nat
    BY <1>0, <1>1, <1>5, <1>7
  <2>5. /\ next \in [1 .. w + 1 + 1 -> Nat] /\ next[1] = 0 /\ next[w + 1 + 1] = Len(stream')
        /\ \A i \in 1 .. w + 1 : next[i] = start[i]
    BY <1>3, <2>1, <2>4
  <2> HIDE DEF next
  <2>6. ASSUME NEW i \in 1 .. w + 1
        PROVE  /\ next[i + 1] = next[i] + HeaderSize + collected[i].size
               /\ \A j \in 1 .. HeaderSize + collected[i].size :
                     stream'[next[i] + j] = [of |-> collected[i], at |-> j]
    <3>1. CASE i = w + 1
      <4>1. next[i + 1] = Len(stream') /\ next[i] = Len(stream) /\ collected[i] = r
        BY <1>3, <1>4, <2>1, <2>5, <3>1
      <4> QED
        BY <1>7, <4>1
    <3>2. CASE i # w + 1
      <4>1. i \in 1 .. w /\ i + 1 \in 1 .. w + 1
        BY <1>3, <3>2
      <4>2. next[i] = start[i] /\ next[i + 1] = start[i + 1]
        BY <2>5, <4>1
      <4>3. start[i + 1] = start[i] + HeaderSize + collected[i].size
        BY <1>8, <4>1 DEF IsFraming
      <4>4. \A j \in 1 .. HeaderSize + collected[i].size :
               stream[start[i] + j] = [of |-> collected[i], at |-> j]
        BY <1>8, <4>1 DEF IsFraming
      <4>5. start[i + 1] <= Len(stream) /\ start[i] \in Nat
        BY <1>1, <2>3, <4>1
      <4>6. collected[i] \in Records
        <5>1. i \in 1 .. Len(collected)
          BY <1>1, <1>3, <4>1
        <5> QED
          BY <1>0, <5>1, ElementOfSeq
      <4>7. collected[i].size \in Nat
        BY <4>6 DEF Records
      <4> DEFINE z == collected[i].size
                 a == start[i]
                 b == start[i + 1]
      <4>8. \A j \in 1 .. HeaderSize + collected[i].size : start[i] + j \in 1 .. Len(stream)
        <5>1. /\ z \in Nat /\ HeaderSize \in Nat /\ a \in Nat /\ Len(stream) \in Nat
              /\ b = a + HeaderSize + z /\ b <= Len(stream)
          BY <1>0, <1>1, <4>3, <4>5, <4>7
        <5> HIDE DEF z, a, b
        <5>2. \A j \in 1 .. HeaderSize + z : a + j \in 1 .. Len(stream)
          BY <5>1
        <5> QED
          BY <5>2 DEF z, a
      <4> QED
        BY <1>7, <4>2, <4>3, <4>4, <4>8
    <3> QED
      BY <3>1, <3>2
  <2> QED
    BY <2>5, <2>6 DEF IsFraming
<1>10. StreamIsFrames'
  BY <1>3, <1>9 DEF StreamIsFrames
<1> QED
  BY <1>6, <1>10
-----------------------------------------------------------------------------
LEMMA LoopInit ==
  ASSUME Init
  PROVE  LInv
<1>1. TypeOK /\ eventfd <= signals /\ ReadyHasData /\ NothingLeftOver
  BY BoundsAssumption DEF Init, TypeOK, Phases, ReadyHasData, NothingLeftOver
<1>2. Len(records) = 0 /\ Len(collected) = 0 /\ Written = 0
  BY DEF Init, Written
<1>3. PendingIsRest
  <2>1. Len(records) <= Len(collected)
    BY <1>2
  <2>2. ASSUME NEW i \in 1 .. Len(records) PROVE FALSE
    BY <1>2
  <2> QED
    BY <2>1, <2>2 DEF PendingIsRest
<1>4. StreamIsFrames
  <2>1. IsFraming(<< >>, << >>, 0, [i \in 1 .. 1 |-> 0])
    BY DEF IsFraming
  <2> QED
    BY <1>2, <2>1 DEF StreamIsFrames, Init
<1> QED
  BY <1>1, <1>3, <1>4 DEF LInv

(* The beginning and the end of a process.                                 *)
LEMMA StartStep ==
  ASSUME LInv, Start
  PROVE  LInv'
<1>1. TypeOK'
  <2>1. /\ phase' \in Phases /\ runs' \in 0 .. MaxRuns
        /\ arrived' \in 0 .. MaxDatagrams /\ signals' \in 0 .. MaxSignals
    BY BoundsAssumption DEF LInv, TypeOK, Start, Phases
  <2>2. sockets' \in [Sockets -> Seq(Datagrams)] /\ eventfd' \in 0 .. MaxSignals /\ bRun' \in BOOLEAN
    BY BoundsAssumption DEF Start, NewProcess
  <2>3. /\ ready' = << >> /\ records' = << >> /\ collected' = << >> /\ stream' = << >>
        /\ flushed' = 0 /\ Len(stream') = 0
    BY DEF Start, NewProcess
  <2> QED
    BY <2>1, <2>2, <2>3 DEF TypeOK
<1>2. (eventfd <= signals)' /\ ReadyHasData' /\ NothingLeftOver'
  BY DEF LInv, TypeOK, Start, NewProcess, ReadyHasData, NothingLeftOver
<1>3. PendingIsRest' /\ StreamIsFrames'
  BY FileEmpty DEF Start, NewProcess
<1> QED
  BY <1>1, <1>2, <1>3 DEF LInv

LEMMA OtherStep ==
  ASSUME LInv,
         \/ Refuses \/ EntersLoop \/ StartFails \/ EpollWaitFails \/ HandlesEventfd
         \/ HandledAll \/ Loops \/ Signalled \/ Killed \/ UNCHANGED vars
  PROVE  LInv'
<1> USE BoundsAssumption DEF LInv, TypeOK, Phases, environment, file, Alive
<1>1. PendingIsRest' /\ StreamIsFrames'
  <2>1. UNCHANGED <<records, collected, stream>>
    BY DEF Refuses, EntersLoop, StartFails, EpollWaitFails, HandlesEventfd, HandledAll, Loops,
           Signalled, Killed, vars
  <2> QED
    BY <2>1, FileKept
<1>2. TypeOK' /\ (eventfd <= signals)' /\ ReadyHasData' /\ NothingLeftOver'
  <2>1. CASE Refuses
    BY <2>1 DEF Refuses, ReadyHasData, NothingLeftOver
  <2>2. CASE EntersLoop
    BY <2>2 DEF EntersLoop, ReadyHasData, NothingLeftOver
  <2>3. CASE StartFails
    BY <2>3 DEF StartFails, ReadyHasData, NothingLeftOver
  <2>4. CASE EpollWaitFails
    BY <2>4 DEF EpollWaitFails, ReadyHasData, NothingLeftOver
  <2>5. CASE HandlesEventfd
    <3>1. /\ phase' = "writing" /\ eventfd' = 0 /\ bRun' = FALSE /\ ready' = << >>
          /\ UNCHANGED <<runs, arrived, signals, sockets, records, stream, flushed, collected>>
      BY <2>5 DEF HandlesEventfd
    <3>2. ready' \in Seq(Sockets \cup {"eventfd"}) /\ eventfd' \in 0 .. MaxSignals
      BY <3>1
    <3>3. TypeOK'
      BY <3>1, <3>2
    <3>4. (eventfd <= signals)' /\ ReadyHasData' /\ NothingLeftOver'
      BY <3>1 DEF ReadyHasData, NothingLeftOver
    <3> QED
      BY <3>3, <3>4
  <2>6. CASE HandledAll
    BY <2>6 DEF HandledAll, ReadyHasData, NothingLeftOver
  <2>7. CASE Loops
    BY <2>7 DEF Loops, ReadyHasData, NothingLeftOver
  <2>8. CASE Signalled
    BY <2>8 DEF Signalled, ReadyHasData, NothingLeftOver
  <2>9. CASE Killed
    BY <2>9 DEF Killed, ReadyHasData, NothingLeftOver
  <2>10. CASE UNCHANGED vars
    BY <2>10 DEF vars, ReadyHasData, NothingLeftOver
  <2> QED
    BY <2>1, <2>2, <2>3, <2>4, <2>5, <2>6, <2>7, <2>8, <2>9, <2>10
<1> QED
  BY <1>1, <1>2 DEF LInv

LEMMA EpollStep ==
  ASSUME LInv, EpollWaitReturns
  PROVE  LInv'
<1>1. PendingIsRest' /\ StreamIsFrames'
  BY FileKept DEF LInv, EpollWaitReturns, file
<1>2. /\ ready' \in Seq(Sockets \cup {"eventfd"})
      /\ \A i \in 1 .. Len(ready') : ready'[i] \in ReadyNow
      /\ \A i, j \in 1 .. Len(ready') : ready'[i] = ready'[j] => i = j
  BY ReadySequence DEF EpollWaitReturns
<1>3. TypeOK' /\ (eventfd <= signals)' /\ NothingLeftOver'
  BY <1>2 DEF LInv, TypeOK, Phases, EpollWaitReturns, environment, file, NothingLeftOver
<1>4. ReadyHasData'
  <2>1. \A s \in Sockets : s \in ReadyNow => sockets'[s] # << >>
    BY DEF ReadyNow, EpollWaitReturns, Sockets
  <2> QED
    BY <1>2, <2>1 DEF ReadyHasData
<1> QED
  BY <1>1, <1>3, <1>4 DEF LInv

(* A socket is handled once in a turn: those that follow it in ready are   *)
(* others, and have what they had.                                         *)
LEMMA SocketStep ==
  ASSUME LInv, NEW s \in Sockets, HandlesSocket(s)
  PROVE  LInv'
<1> DEFINE d == Head(sockets[s])
<1>0. /\ ready \in Seq(Sockets \cup {"eventfd"}) /\ sockets \in [Sockets -> Seq(Datagrams)]
      /\ ready # << >> /\ phase = "handling" /\ Head(ready) = s
  BY DEF LInv, TypeOK, HandlesSocket
<1>1. Len(ready) \in Nat \ {0} /\ ready[1] = s
  BY <1>0, LenProperties, HeadTailProperties, EmptySeq
<1>2. sockets[s] # << >> /\ sockets[s] \in Seq(Datagrams)
  BY <1>0, <1>1 DEF LInv, ReadyHasData
<1>3. d \in Datagrams /\ Tail(sockets[s]) \in Seq(Datagrams)
  BY <1>2, HeadTailProperties
<1>4. Yields(d) \in Seq(Records)
  BY <1>3, DatagramYields
<1>5. /\ sockets' = [sockets EXCEPT ![s] = Tail(sockets[s])]
      /\ UNCHANGED <<runs, arrived, signals, eventfd, bRun, stream, flushed>>
  BY DEF HandlesSocket, environment, file
<1>6. \/ /\ records' = records \o Yields(d) /\ collected' = collected \o Yields(d)
         /\ ready' = Tail(ready) /\ phase' = phase
      \/ phase' = "stuck" /\ UNCHANGED <<records, collected, ready>>
  BY DEF HandlesSocket
<1> HIDE DEF d
<1>7. PendingIsRest' /\ StreamIsFrames'
  BY <1>4, <1>5, <1>6, FileKept, FileCollects DEF LInv
<1>8. TypeOK'
  <2>1. sockets' \in [Sockets -> Seq(Datagrams)]
    BY <1>0, <1>3, <1>5
  <2>2. ready' \in Seq(Sockets \cup {"eventfd"})
    BY <1>0, <1>6, HeadTailProperties
  <2>3. records' \in Seq(Records) /\ collected' \in Seq(Records)
    <3>1. records \in Seq(Records) /\ collected \in Seq(Records)
      BY DEF LInv, TypeOK
    <3> QED
      BY <1>4, <1>6, <3>1, ConcatProperties
  <2>4. phase' \in Phases
    BY <1>0, <1>6 DEF Phases
  <2> QED
    BY <1>5, <2>1, <2>2, <2>3, <2>4 DEF LInv, TypeOK
<1>9. ReadyHasData'
  <2> SUFFICES ASSUME phase' = "handling"
               PROVE  \A i \in 1 .. Len(ready') :
                         /\ ready'[i] \in Sockets => sockets'[ready'[i]] # << >>
                         /\ \A j \in 1 .. Len(ready') : ready'[i] = ready'[j] => i = j
    BY DEF ReadyHasData
  <2>1. ready' = Tail(ready)
    BY <1>6
  <2>2. Len(ready') = Len(ready) - 1 /\ \A i \in 1 .. Len(ready') : ready'[i] = ready[i + 1]
    BY <1>0, <2>1, HeadTailProperties
  <2>3. \A i, j \in 1 .. Len(ready) : ready[i] = ready[j] => i = j
    BY <1>0 DEF LInv, ReadyHasData
  <2> TAKE i \in 1 .. Len(ready')
  <2>4. i \in Nat /\ i + 1 \in 1 .. Len(ready) /\ i + 1 # 1
    BY <1>1, <2>2
  <2>5. ready'[i] = ready[i + 1] /\ ready[i + 1] # s
    BY <1>1, <2>2, <2>3, <2>4
  <2>6. ready'[i] \in Sockets => sockets'[ready'[i]] # << >>
    <3>1. ready[i + 1] \in Sockets => sockets[ready[i + 1]] # << >>
      BY <1>0, <2>4 DEF LInv, ReadyHasData
    <3> QED
      BY <1>0, <1>5, <2>5, <3>1
  <2>7. ASSUME NEW j \in 1 .. Len(ready'), ready'[i] = ready'[j] PROVE i = j
    <3>1. j \in Nat /\ j + 1 \in 1 .. Len(ready) /\ ready'[j] = ready[j + 1]
      BY <1>1, <2>2
    <3>2. i + 1 = j + 1
      BY <2>3, <2>4, <2>5, <2>7, <3>1
    <3> QED
      BY <2>4, <3>1, <3>2
  <2> QED
    BY <2>6, <2>7
<1>10. (eventfd <= signals)' /\ NothingLeftOver'
  BY <1>0, <1>5, <1>6 DEF LInv, NothingLeftOver
<1> QED
  BY <1>7, <1>8, <1>9, <1>10 DEF LInv

LEMMA WriteStep ==
  ASSUME LInv, WritesRecord
  PROVE  LInv'
<1>1. PendingIsRest' /\ StreamIsFrames'
  BY FileWrites DEF LInv, WritesRecord
<1>2. /\ records \in Seq(Records) /\ records # << >> /\ stream \in Seq(Bytes)
      /\ flushed \in 0 .. Len(stream) /\ HeaderSize \in Nat \ {0}
  BY BoundsAssumption DEF LInv, TypeOK, WritesRecord, Bytes
<1>3. Head(records) \in Records /\ Tail(records) \in Seq(Records)
  BY <1>2, HeadTailProperties
<1>4. /\ Head(records).size \in Nat /\ Frame(Head(records)) \in Seq(Bytes)
      /\ Len(Frame(Head(records))) = HeaderSize + Head(records).size
  BY <1>3, FrameBytes
<1>5. stream' \in Seq(Bytes) /\ Len(stream') = Len(stream) + (HeaderSize + Head(records).size)
  <2>1. stream \in Seq(Bytes) /\ Frame(Head(records)) \in Seq(Bytes)
    BY <1>2, <1>4
  <2>2. stream' = stream \o Frame(Head(records))
    BY DEF WritesRecord
  <2> QED
    BY <1>4, <2>1, <2>2, ConcatProperties
<1>6. flushed' \in 0 .. Len(stream')
  <2>1. flushed' \in flushed .. Len(stream) + HeaderSize + Head(records).size
    BY DEF WritesRecord
  <2>2. Len(stream) \in Nat
    BY <1>2, LenProperties
  <2> QED
    BY <1>2, <1>4, <1>5, <2>1, <2>2
<1>7. TypeOK'
  BY <1>3, <1>5, <1>6 DEF LInv, TypeOK, Bytes, WritesRecord, environment
<1>8. (eventfd <= signals)' /\ ReadyHasData' /\ NothingLeftOver'
  BY DEF LInv, WritesRecord, environment, ReadyHasData, NothingLeftOver
<1> QED
  BY <1>1, <1>7, <1>8 DEF LInv

LEMMA ArrivalStep ==
  ASSUME LInv, NEW d \in Datagrams, Arrives(d)
  PROVE  LInv'
<1>1. PendingIsRest' /\ StreamIsFrames'
  BY FileKept DEF LInv, Arrives, file
<1>2. /\ d.socket \in Sockets /\ sockets \in [Sockets -> Seq(Datagrams)]
      /\ sockets' = [sockets EXCEPT ![d.socket] = Append(sockets[d.socket], d)]
  BY DatagramYields DEF LInv, TypeOK, Arrives
<1>3. /\ Append(sockets[d.socket], d) \in Seq(Datagrams)
      /\ Append(sockets[d.socket], d) # << >>
  BY <1>2, AppendProperties
<1>4. sockets' \in [Sockets -> Seq(Datagrams)]
  BY <1>2, <1>3
<1>5. TypeOK'
  BY <1>4, BoundsAssumption DEF LInv, TypeOK, Arrives, file
<1>6. ReadyHasData'
  <2>1. \A s \in Sockets : sockets[s] # << >> => sockets'[s] # << >>
    BY <1>2, <1>3
  <2> QED
    BY <2>1 DEF LInv, ReadyHasData, Arrives
<1>7. (eventfd <= signals)' /\ NothingLeftOver'
  BY DEF LInv, Arrives, file, NothingLeftOver
<1> QED
  BY <1>1, <1>5, <1>6, <1>7 DEF LInv

LEMMA LoopInvariant == Spec => []LInv
<1>1. Init => LInv
  BY LoopInit
<1>2. LInv /\ [Next]_vars => LInv'
  <2> SUFFICES ASSUME LInv, [Next]_vars PROVE LInv'
    OBVIOUS
  <2>1. CASE Start
    BY <2>1, StartStep
  <2>2. CASE EpollWaitReturns
    BY <2>2, EpollStep
  <2>3. CASE \E s \in Sockets : HandlesSocket(s)
    BY <2>3, SocketStep
  <2>4. CASE WritesRecord
    BY <2>4, WriteStep
  <2>5. CASE \E d \in Datagrams : Arrives(d)
    BY <2>5, ArrivalStep
  <2>6. CASE \/ Refuses \/ EntersLoop \/ StartFails \/ EpollWaitFails \/ HandlesEventfd
             \/ HandledAll \/ Loops \/ Signalled \/ Killed \/ UNCHANGED vars
    BY <2>6, OtherStep
  <2> QED
    BY <2>1, <2>2, <2>3, <2>4, <2>5, <2>6 DEF Next, LoopStep
<1> QED
  BY <1>1, <1>2, PTL DEF Spec

-----------------------------------------------------------------------------
(* What the file reads as: the first of the records collected, and all of  *)
(* them when the file has the stream and the stream has the records.       *)
LEMMA FileReads ==
  ASSUME LInv
  PROVE  \E j \in 0 .. Written :
            /\ ReadRecords(File) = SubSeq(collected, 1, j)
            /\ flushed = Len(stream) => j = Written
<1>1. /\ collected \in Seq(Records) /\ records \in Seq(Records) /\ stream \in Seq(Bytes)
      /\ flushed \in 0 .. Len(stream)
  BY DEF LInv, TypeOK, Bytes
<1>2. Written \in 0 .. Len(collected)
  BY <1>1, LenProperties DEF LInv, PendingIsRest, Written
<1>3. PICK start : IsFraming(stream, collected, Written, start)
  BY DEF LInv, StreamIsFrames
<1> QED
  BY <1>1, <1>2, <1>3, ReadsWritten DEF File

(* The variables have their types in every state of the recorder.          *)
THEOREM RecorderTypes == Spec => []TypeOK
<1>1. LInv => TypeOK
  BY DEF LInv
<1> QED
  BY <1>1, LoopInvariant, PTL

(* However its writer was killed or started again, what is read from the   *)
(* record file is a beginning of what the recorder collected.              *)
THEOREM FileIsPrefix == Spec => []FileReadsAsPrefix
<1>1. LInv => FileReadsAsPrefix
  <2> SUFFICES ASSUME LInv PROVE FileReadsAsPrefix
    OBVIOUS
  <2>1. PICK j \in 0 .. Written : ReadRecords(File) = SubSeq(collected, 1, j)
    BY FileReads
  <2>2. collected \in Seq(Records) /\ records \in Seq(Records)
    BY DEF LInv, TypeOK
  <2>3. j \in 0 .. Len(collected) /\ Len(collected) \in Nat
    BY <2>2, LenProperties DEF LInv, PendingIsRest, Written
  <2> DEFINE read == SubSeq(collected, 1, j)
  <2>4. Len(read) = j /\ SubSeq(read, 1, j) = read
    <3>1. read \in Seq(Records) /\ Len(read) = j
      BY <2>2, <2>3, SubSeqProperties
    <3> HIDE DEF read
    <3>2. SubSeq(read, 1, Len(read)) = read
      BY <3>1, SubSeqFull
    <3> QED
      BY <3>1, <3>2
  <2> QED
    BY <2>1, <2>3, <2>4 DEF FileReadsAsPrefix, IsPrefix
<1> QED
  BY <1>1, LoopInvariant, PTL

(* A recorder that ended by itself has every record of every datagram it   *)
(* received in its file.                                                   *)
THEOREM CleanStopIsComplete == Spec => []CleanStopKeepsAll
<1>1. LInv => CleanStopKeepsAll
  <2> SUFFICES ASSUME LInv, phase = "closed" PROVE ReadRecords(File) = collected
    BY DEF CleanStopKeepsAll
  <2>1. collected \in Seq(Records) /\ flushed = Len(stream) /\ Len(records) = 0
    BY DEF LInv, TypeOK, NothingLeftOver
  <2>2. Written = Len(collected)
    BY <2>1, LenProperties DEF Written
  <2>3. ReadRecords(File) = SubSeq(collected, 1, Len(collected))
    BY <2>1, <2>2, FileReads
  <2> QED
    BY <2>1, <2>3, SubSeqFull
<1> QED
  BY <1>1, LoopInvariant, PTL
=============================================================================
