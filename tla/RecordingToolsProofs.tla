------------------------- MODULE RecordingToolsProofs -------------------------
(***************************************************************************)
(* Proofs about RecordingTools, for every recording and every command      *)
(* line: what the tools write, and that they do not give up a recording    *)
(* that they can convert.                                                  *)
(***************************************************************************)
EXTENDS RecordingTools, NumberInduction, SequenceTheorems

-----------------------------------------------------------------------------
(* FlattenSeq, one sequence of the sequences after the other.              *)
NextFlat(seqs, flat, i) == IF i = 1 THEN seqs[i] ELSE flat[i - 1] \o seqs[i]
IsFlatUpTo(k, seqs, flat) == flat = [i \in 1 .. k |-> NextFlat(seqs, flat, i)]

LEMMA FlatUpTo ==
  ASSUME NEW n \in Nat, NEW seqs, NEW k \in 0 .. n
  PROVE  \E flat : IsFlatUpTo(k, seqs, flat)
<1> DEFINE Done == {j \in 0 .. n : \E flat : IsFlatUpTo(j, seqs, flat)}
<1>1. 0 \in Done
  <2> DEFINE flat == [i \in 1 .. 0 |-> 0]
  <2>1. IsFlatUpTo(0, seqs, flat)
    <3>1. \A i \in 1 .. 0 : FALSE
      OBVIOUS
    <3>2. [i \in 1 .. 0 |-> NextFlat(seqs, flat, i)] = flat
      BY <3>1
    <3> QED
      BY <3>2 DEF IsFlatUpTo
  <2> HIDE DEF flat
  <2> QED
    BY <2>1
<1>2. ASSUME NEW j \in 0 .. n - 1, j \in Done PROVE j + 1 \in Done
  <2>1. PICK g : IsFlatUpTo(j, seqs, g)
    BY <1>2
  <2> DEFINE h == [i \in 1 .. j + 1 |-> NextFlat(seqs, g, i)]
  <2>2. \A i \in 1 .. j : g[i] = NextFlat(seqs, g, i)
    BY <2>1 DEF IsFlatUpTo
  <2>3. ASSUME NEW i \in 1 .. j + 1 PROVE NextFlat(seqs, h, i) = NextFlat(seqs, g, i)
    <3>1. CASE i = 1
      BY <3>1 DEF NextFlat
    <3>2. CASE i # 1
      <4>1. i - 1 \in 1 .. j /\ i - 1 \in 1 .. j + 1
        BY <3>2
      <4>2. h[i - 1] = NextFlat(seqs, g, i - 1) /\ g[i - 1] = NextFlat(seqs, g, i - 1)
        BY <2>2, <4>1
      <4>3. h[i - 1] = g[i - 1]
        BY <4>2
      <4> HIDE DEF h
      <4> QED
        BY <3>2, <4>3 DEF NextFlat
    <3> QED
      BY <3>1, <3>2
  <2>4. IsFlatUpTo(j + 1, seqs, h)
    BY <2>3, Zenon DEF IsFlatUpTo
  <2>5. \E flat : IsFlatUpTo(j + 1, seqs, flat)
    <3> HIDE DEF h
    <3> QED
      BY <2>4
  <2> QED
    BY <2>5
<1> HIDE DEF Done
<1>3. k \in Done
  BY <1>1, <1>2, InductionUpTo
<1> QED
  BY <1>3 DEF Done

IsFlatOf(seqs, flat) ==
  /\ FlattenSeq(seqs) = flat[Len(seqs)]
  /\ flat[1] = seqs[1]
  /\ \A i \in 2 .. Len(seqs) : flat[i] = flat[i - 1] \o seqs[i]

LEMMA FlatExists ==
  ASSUME NEW S, NEW seqs \in Seq(S), seqs # << >>
  PROVE  \E flat : IsFlatOf(seqs, flat)
<1> DEFINE n == Len(seqs)
           IsFlat(flat) == flat = [i \in 1 .. n |-> NextFlat(seqs, flat, i)]
           flat == CHOOSE flat : IsFlat(flat)
<1>1. n \in Nat /\ n >= 1
  OBVIOUS
<1>2. FlattenSeq(seqs) = flat[n]
  BY <1>1 DEF FlattenSeq, NextFlat
<1>3. \E g : IsFlat(g)
  <2>1. n \in 0 .. n
    BY <1>1
  <2>2. PICK g : IsFlatUpTo(n, seqs, g)
    BY <1>1, <2>1, FlatUpTo
  <2>3. IsFlat(g)
    BY <2>2 DEF IsFlatUpTo
  <2> QED
    BY <2>3
<1> HIDE DEF IsFlat
<1>4. IsFlat(flat)
  BY <1>3
<1> HIDE DEF flat, n
<1>5. \A i \in 1 .. n : flat[i] = NextFlat(seqs, flat, i)
  BY <1>4 DEF IsFlat
<1>6. flat[1] = seqs[1]
  <2>1. 1 \in 1 .. n
    BY <1>1
  <2> QED
    BY <1>5, <2>1 DEF NextFlat
<1>7. \A i \in 2 .. n : flat[i] = flat[i - 1] \o seqs[i]
  <2>1. \A i \in 2 .. n : i \in 1 .. n /\ i # 1
    BY <1>1
  <2> QED
    BY <1>5, <2>1 DEF NextFlat
<1>8. IsFlatOf(seqs, flat)
  BY <1>2, <1>6, <1>7 DEF IsFlatOf, n
<1> QED
  BY <1>8

(* Elements of a concatenation, and elements of which no two are the same  *)
(* in some respect, the pairs of Same.                                     *)
Distinct(seq, Same) ==
  \A p, q \in 1 .. Len(seq) : p # q => <<seq[p], seq[q]>> \notin Same

Apart(A, B, Same) == \A x \in A, y \in B : <<x, y>> \notin Same /\ <<y, x>> \notin Same

LEMMA ElementsOf ==
  ASSUME NEW S, NEW seq \in Seq(S)
  PROVE  /\ Len(seq) \in Nat
         /\ \A p \in 1 .. Len(seq) : seq[p] \in S /\ seq[p] \in Range(seq)
         /\ \A x \in Range(seq) : \E p \in 1 .. Len(seq) : seq[p] = x
<1>1. DOMAIN seq = 1 .. Len(seq) /\ Len(seq) \in Nat
  OBVIOUS
<1> QED
  BY <1>1 DEF Range

LEMMA ConcatElements ==
  ASSUME NEW S, NEW a \in Seq(S), NEW b \in Seq(S)
  PROVE  /\ a \o b \in Seq(S)
         /\ Range(a \o b) = Range(a) \cup Range(b)
         /\ \A Same : Distinct(a, Same) /\ Distinct(b, Same) /\ Apart(Range(a), Range(b), Same)
                      => Distinct(a \o b, Same)
         /\ Len(a \o b) = Len(a) + Len(b)
         /\ \A p \in 1 .. Len(a) : (a \o b)[p] = a[p]
<1> DEFINE c == a \o b
           m == Len(a)
           n == Len(b)
<1>1. /\ c \in Seq(S) /\ Len(c) = m + n
      /\ \A p \in 1 .. m + n : c[p] = IF p <= m THEN a[p] ELSE b[p - m]
  BY ConcatProperties
<1>2. m \in Nat /\ n \in Nat
  OBVIOUS
<1>3. /\ \A p \in 1 .. m : a[p] \in Range(a)
      /\ \A x \in Range(a) : \E p \in 1 .. m : a[p] = x
      /\ \A p \in 1 .. n : b[p] \in Range(b)
      /\ \A x \in Range(b) : \E p \in 1 .. n : b[p] = x
  BY ElementsOf
<1> HIDE DEF c, m, n
<1>4. /\ \A p \in 1 .. m : p \in 1 .. m + n /\ c[p] = a[p]
      /\ \A p \in 1 .. n : m + p \in 1 .. m + n /\ c[m + p] = b[p]
      /\ \A p \in 1 .. m + n : p \in 1 .. m \/ p - m \in 1 .. n
      /\ \A p \in 1 .. m + n : p - m \in 1 .. n => c[p] = b[p - m]
  BY <1>1, <1>2
<1>5. \A x \in Range(c) : x \in Range(a) \cup Range(b)
  <2> TAKE x \in Range(c)
  <2>1. PICK p \in 1 .. m + n : c[p] = x
    BY <1>1, ElementsOf
  <2> QED
    BY <1>3, <1>4, <2>1
<1>6. \A x \in Range(a) \cup Range(b) : x \in Range(c)
  <2> TAKE x \in Range(a) \cup Range(b)
  <2>1. \E p \in 1 .. m + n : c[p] = x
    <3>1. CASE x \in Range(a)
      <4>1. PICK p \in 1 .. m : a[p] = x
        BY <1>3, <3>1
      <4> QED
        BY <1>4, <4>1
    <3>2. CASE x \in Range(b)
      <4>1. PICK p \in 1 .. n : b[p] = x
        BY <1>3, <3>2
      <4> QED
        BY <1>4, <4>1
    <3> QED
      BY <3>1, <3>2
  <2> QED
    BY <1>1, <2>1, ElementsOf
<1>7. ASSUME NEW Same, Distinct(a, Same), Distinct(b, Same), Apart(Range(a), Range(b), Same)
      PROVE  Distinct(c, Same)
  <2> SUFFICES ASSUME NEW p \in 1 .. m + n, NEW q \in 1 .. m + n, p # q
               PROVE  <<c[p], c[q]>> \notin Same
    BY <1>1 DEF Distinct
  <2>1. CASE p \in 1 .. m /\ q \in 1 .. m
    BY <1>4, <1>7, <2>1 DEF Distinct, m
  <2>2. CASE p - m \in 1 .. n /\ q - m \in 1 .. n
    <3>1. p - m # q - m
      BY <1>2
    <3> QED
      BY <1>4, <1>7, <2>2, <3>1 DEF Distinct, n
  <2>3. CASE p \in 1 .. m /\ q - m \in 1 .. n
    BY <1>3, <1>4, <1>7, <2>3 DEF Apart
  <2>4. CASE p - m \in 1 .. n /\ q \in 1 .. m
    BY <1>3, <1>4, <1>7, <2>4 DEF Apart
  <2> QED
    BY <1>4, <2>1, <2>2, <2>3, <2>4
<1> QED
  BY <1>1, <1>4, <1>5, <1>6, <1>7 DEF c, m, n

(* Sequences of which no two elements are the same, also of different ones.*)
AllApart(seqs, Same) ==
  /\ \A i \in 1 .. Len(seqs) : Distinct(seqs[i], Same)
  /\ \A i, j \in 1 .. Len(seqs) : i < j => Apart(Range(seqs[i]), Range(seqs[j]), Same)

LEMMA FlatElements ==
  ASSUME NEW S, NEW seqs \in Seq(Seq(S))
  PROVE  /\ FlattenSeq(seqs) \in Seq(S)
         /\ Range(FlattenSeq(seqs)) = UNION {Range(seqs[i]) : i \in 1 .. Len(seqs)}
         /\ \A Same : AllApart(seqs, Same) => Distinct(FlattenSeq(seqs), Same)
         /\ seqs # << >> => \A p \in 1 .. Len(seqs[1]) :
                              p \in 1 .. Len(FlattenSeq(seqs)) /\ FlattenSeq(seqs)[p] = seqs[1][p]
<1> DEFINE n == Len(seqs)
<1>1. n \in Nat /\ \A i \in 1 .. n : seqs[i] \in Seq(S)
  OBVIOUS
<1>2. CASE seqs = << >>
  <2>1. FlattenSeq(seqs) = << >> /\ n = 0
    BY <1>2 DEF FlattenSeq
  <2>2. << >> \in Seq(S) /\ Range(<< >>) = {} /\ \A Same : Distinct(<< >>, Same)
    BY DEF Range, Distinct
  <2>3. UNION {Range(seqs[i]) : i \in 1 .. n} = {}
    <3>1. \A i \in 1 .. n : FALSE
      BY <2>1
    <3> HIDE DEF n
    <3> QED
      BY <3>1
  <2> HIDE DEF n
  <2> QED
    BY <1>2, <2>1, <2>2, <2>3 DEF n
<1>3. CASE seqs # << >>
  <2>1. PICK flat : IsFlatOf(seqs, flat)
    BY <1>3, FlatExists
  <2>2. /\ FlattenSeq(seqs) = flat[n] /\ flat[1] = seqs[1] /\ n >= 1
        /\ \A i \in 2 .. n : flat[i] = flat[i - 1] \o seqs[i]
    <3>1. n >= 1
      BY <1>3
    <3> QED
      BY <2>1, <3>1 DEF IsFlatOf
  <2> DEFINE Upto(i) == UNION {Range(seqs[j]) : j \in 1 .. i}
             Begins(i) == \A p \in 1 .. Len(seqs[1]) :
                            p \in 1 .. Len(flat[i]) /\ flat[i][p] = seqs[1][p]
             Holds(i) == /\ flat[i] \in Seq(S) /\ Range(flat[i]) = Upto(i)
                         /\ \A Same : AllApart(seqs, Same) => Distinct(flat[i], Same)
                         /\ Begins(i)
             Done == {i \in 0 .. n - 1 : Holds(i + 1)}
  <2>3. 0 \in Done
    <3>1. 0 + 1 = 1 /\ 0 \in 0 .. n - 1 /\ 1 \in 1 .. n
      BY <1>1, <2>2
    <3>2. Upto(1) = Range(seqs[1])
      OBVIOUS
    <3>3. Holds(1)
      BY <1>1, <2>2, <3>1, <3>2 DEF AllApart
    <3> QED
      BY <3>1, <3>3
  <2>4. ASSUME NEW i \in 0 .. n - 1 - 1, i \in Done PROVE i + 1 \in Done
    <3> DEFINE k == i + 1
    <3>1. k \in 1 .. n /\ k + 1 \in 2 .. n /\ k + 1 \in 1 .. n /\ k + 1 - 1 = k /\ k \in 0 .. n - 1
      BY <1>1
    <3>2. Holds(k)
      BY <2>4
    <3> HIDE DEF k
    <3>3. flat[k + 1] = flat[k] \o seqs[k + 1] /\ seqs[k + 1] \in Seq(S)
      <4> DEFINE l == k + 1
      <4>1. l \in 2 .. n /\ l \in 1 .. n /\ l - 1 = k
        BY <3>1
      <4> HIDE DEF l
      <4>2. flat[l] = flat[l - 1] \o seqs[l] /\ seqs[l] \in Seq(S)
        BY <1>1, <2>2, <4>1
      <4> QED
        BY <4>1, <4>2 DEF l
    <3>4. /\ flat[k] \in Seq(S)
          /\ flat[k + 1] \in Seq(S) /\ Range(flat[k + 1]) = Range(flat[k]) \cup Range(seqs[k + 1])
          /\ \A Same : /\ Distinct(flat[k], Same) /\ Distinct(seqs[k + 1], Same)
                       /\ Apart(Range(flat[k]), Range(seqs[k + 1]), Same)
                       => Distinct(flat[k + 1], Same)
          /\ Len(flat[k + 1]) = Len(flat[k]) + Len(seqs[k + 1])
          /\ \A p \in 1 .. Len(flat[k]) : flat[k + 1][p] = flat[k][p]
      <4> DEFINE a == flat[k]
                 b == seqs[k + 1]
                 c == flat[k + 1]
      <4>1. a \in Seq(S) /\ b \in Seq(S) /\ c = a \o b
        BY <3>2, <3>3
      <4> HIDE DEF a, b, c
      <4>2. /\ c \in Seq(S) /\ Range(c) = Range(a) \cup Range(b)
            /\ \A Same : Distinct(a, Same) /\ Distinct(b, Same) /\ Apart(Range(a), Range(b), Same)
                         => Distinct(c, Same)
            /\ Len(c) = Len(a) + Len(b)
            /\ \A p \in 1 .. Len(a) : c[p] = a[p]
        BY <4>1, ConcatElements
      <4> QED
        BY <4>1, <4>2 DEF a, b, c
    <3>5. Upto(k + 1) = Upto(k) \cup Range(seqs[k + 1])
      <4>1. \A j \in 1 .. k + 1 : j \in 1 .. k \/ j = k + 1
        BY <3>1
      <4>2. \A j \in 1 .. k : j \in 1 .. k + 1
        BY <3>1
      <4>3. k + 1 \in 1 .. k + 1
        BY <3>1
      <4> QED
        BY <4>1, <4>2, <4>3
    <3>6. ASSUME NEW Same, AllApart(seqs, Same) PROVE Distinct(flat[k + 1], Same)
      <4>1. Distinct(flat[k], Same)
        BY <3>2, <3>6
      <4>2. Distinct(seqs[k + 1], Same)
        BY <3>1, <3>6 DEF AllApart
      <4>3. \A j \in 1 .. k : j \in 1 .. n /\ j < k + 1
        BY <1>1, <3>1
      <4>4. \A j \in 1 .. k : Apart(Range(seqs[j]), Range(seqs[k + 1]), Same)
        BY <3>1, <3>6, <4>3 DEF AllApart
      <4>5. Range(flat[k]) = Upto(k)
        BY <3>2
      <4>6. Apart(Range(flat[k]), Range(seqs[k + 1]), Same)
        BY <4>4, <4>5 DEF Apart
      <4> QED
        BY <3>4, <4>1, <4>2, <4>6
    <3>7. Begins(k + 1)
      <4>1. Begins(k)
        BY <3>2
      <4>2. Len(flat[k]) \in Nat /\ Len(seqs[k + 1]) \in Nat
        BY <3>3, <3>4
      <4>3. \A p \in 1 .. Len(flat[k]) : p \in 1 .. Len(flat[k + 1])
        <5> DEFINE a == Len(flat[k])
                   b == Len(seqs[k + 1])
                   c == Len(flat[k + 1])
        <5>1. c = a + b /\ a \in Nat /\ b \in Nat
          BY <3>4, <4>2
        <5> HIDE DEF a, b, c
        <5>2. \A p \in 1 .. a : p \in 1 .. c
          BY <5>1
        <5> QED
          BY <5>2 DEF a, c
      <4> QED
        BY <3>4, <4>1, <4>3
    <3>8. Holds(k + 1)
      BY <3>2, <3>4, <3>5, <3>6, <3>7
    <3> HIDE DEF Holds, Begins
    <3>9. k \in Done
      BY <3>1, <3>8
    <3> QED
      BY <3>9 DEF k
  <2> HIDE DEF Done
  <2>5. n - 1 \in Nat /\ n - 1 \in 0 .. n - 1 /\ n - 1 + 1 = n
    BY <1>1, <2>2
  <2>6. \A i \in 0 .. n - 1 : i \in Done
    BY <2>3, <2>4, <2>5, InductionUpTo
  <2>7. Holds(n)
    BY <2>5, <2>6 DEF Done
  <2> QED
    BY <2>2, <2>7
<1> QED
  BY <1>2, <1>3

-----------------------------------------------------------------------------
(* The recording: a sequence of frames, of one tool's types.               *)
LEMMA RecordingTypes ==
  ASSUME args \in Invocations
  PROVE  /\ Len(Recording) \in Nat
         /\ args.tool \in {"ota", "energy"}
         /\ \A i \in Frames :
              /\ IsFrame(Recording[i])
              /\ args.tool = "ota" => Recording[i].type \in {"event", "ota"}
              /\ args.tool = "energy" => Recording[i].type = "energy"
<1>1. IsSequence(Recording)
  BY InvocationsAssumption DEF Recording
<1>2. Len(Recording) \in Nat
  BY <1>1 DEF IsSequence
<1> QED
  BY <1>2, InvocationsAssumption DEF Recording, Frames

(* What a frame's lines can be: its rows, a header with the number of bins *)
(* of one of its energies, and the end of the tool.                        *)
HeadersOf(i) ==
  IF Recording[i].type = "energy"
  THEN {Header(Recording[i].energies[k].bins) : k \in 1 .. Len(Recording[i].energies)}
  ELSE {}

LinesOf(i) == RowsOf(i) \cup HeadersOf(i) \cup {Failure}

SameKey(S) ==
  {pair \in S \X S : /\ pair[1].kind = "row" /\ pair[2].kind = "row"
                     /\ Key(pair[1]) = Key(pair[2])}

(* The row of a transmitter, an antenna and a segment of its group.        *)
RowOf(i, t, a, s) ==
  OtaRow(Recording[i], t, a, s, PositionAt(Recording[i].transmitters[t].nem, i))

LEMMA OtaTypes ==
  ASSUME args \in Invocations, NEW i \in Frames, Recording[i].type = "ota"
  PROVE  LET frame == Recording[i] IN
         /\ Len(frame.transmitters) \in Nat /\ DOMAIN frame.transmitters = 1 .. Len(frame.transmitters)
         /\ Len(frame.antennas) \in Nat /\ DOMAIN frame.antennas = 1 .. Len(frame.antennas)
         /\ \A t \in 1 .. Len(frame.transmitters) : frame.transmitters[t].nem \in Nems
         /\ frame.txTime \in Int
         /\ \A a \in 1 .. Len(frame.antennas) : ~AntennaFails(frame, a) =>
              /\ Len(SegmentsOf(frame, a)) \in Nat
              /\ DOMAIN SegmentsOf(frame, a) = 1 .. Len(SegmentsOf(frame, a))
              /\ \A s \in 1 .. Len(SegmentsOf(frame, a)) : SegmentsOf(frame, a)[s].offset \in Int
<1> DEFINE frame == Recording[i]
<1>1. IsFrame(frame) /\ frame.type = "ota"
  BY RecordingTypes
<1> HIDE DEF frame
<1>2. /\ IsSequence(frame.transmitters) /\ IsSequence(frame.antennas) /\ IsSequence(frame.groups)
      /\ \A t \in DOMAIN frame.transmitters : frame.transmitters[t].nem \in Nems
      /\ \A g \in DOMAIN frame.groups :
           /\ IsSequence(frame.groups[g])
           /\ \A s \in DOMAIN frame.groups[g] : frame.groups[g][s].offset \in Int
      /\ frame.txTime \in Int
  BY <1>1 DEF IsFrame
<1>3. \A s : IsSequence(s) => Len(s) \in Nat /\ DOMAIN s = 1 .. Len(s)
  BY DEF IsSequence
<1>4. ASSUME NEW a, ~AntennaFails(frame, a)
      PROVE  /\ Len(SegmentsOf(frame, a)) \in Nat
             /\ DOMAIN SegmentsOf(frame, a) = 1 .. Len(SegmentsOf(frame, a))
             /\ \A s \in 1 .. Len(SegmentsOf(frame, a)) : SegmentsOf(frame, a)[s].offset \in Int
  <2> DEFINE g == frame.antennas[a].group
  <2>1. g \in DOMAIN frame.groups
    BY <1>2, <1>3, <1>4 DEF AntennaFails
  <2>2. SegmentsOf(frame, a) = frame.groups[g]
    BY DEF SegmentsOf
  <2> HIDE DEF g
  <2> QED
    BY <1>2, <1>3, <2>1, <2>2
<1> QED
  BY <1>2, <1>3, <1>4 DEF frame

LEMMA OtaRowsAre ==
  ASSUME args \in Invocations, NEW i \in Frames, Recording[i].type = "ota",
         Recording[i].registration = EmulatorRegistration
  PROVE  LET frame == Recording[i] IN
         \A row :
            row \in RowsOf(i) <=>
              \E t \in 1 .. Len(frame.transmitters), a \in 1 .. Len(frame.antennas) :
                /\ ~AntennaFails(frame, a)
                /\ \E s \in 1 .. Len(SegmentsOf(frame, a)) : row = RowOf(i, t, a, s)
<1> DEFINE frame == Recording[i]
           Txs == {frame.transmitters[t] : t \in DOMAIN frame.transmitters}
           Good == {a \in DOMAIN frame.antennas : ~AntennaFails(frame, a)}
           Pairs == UNION {{<<frame.antennas[a], SegmentsOf(frame, a)[s]>> :
                              s \in DOMAIN SegmentsOf(frame, a)} : a \in Good}
           RowFor(tx, x) ==
             [kind |-> "row", source |-> frame.source, sequence |-> frame.sequence,
              transmitter |-> tx.nem, antenna |-> x[1].index, freq |-> x[2].freq,
              sot |-> frame.txTime + x[2].offset,
              eot |-> frame.txTime + x[2].offset + x[2].duration,
              power |-> IF x[2].power # Missing THEN x[2].power ELSE tx.power,
              position |-> PositionAt(tx.nem, i)]
<1>1. RowsOf(i) = {RowFor(tx, x) : tx \in Txs, x \in Pairs}
  BY DEF RowsOf, OtaRowsOf
<1>2. /\ DOMAIN frame.transmitters = 1 .. Len(frame.transmitters)
      /\ DOMAIN frame.antennas = 1 .. Len(frame.antennas)
      /\ \A a \in 1 .. Len(frame.antennas) : ~AntennaFails(frame, a) =>
           DOMAIN SegmentsOf(frame, a) = 1 .. Len(SegmentsOf(frame, a))
  BY OtaTypes
<1>3. \A t, a, s :
         RowOf(i, t, a, s)
           = RowFor(frame.transmitters[t], <<frame.antennas[a], SegmentsOf(frame, a)[s]>>)
  <2> TAKE t, a, s
  <2> DEFINE tx == frame.transmitters[t]
             antenna == frame.antennas[a]
             segment == SegmentsOf(frame, a)[s]
             x == <<antenna, segment>>
  <2>1. segment = frame.groups[frame.antennas[a].group][s]
    BY DEF SegmentsOf
  <2>2. x[1] = antenna /\ x[2] = segment
    OBVIOUS
  <2>3. RowOf(i, t, a, s)
          = [kind |-> "row", source |-> frame.source, sequence |-> frame.sequence,
             transmitter |-> tx.nem, antenna |-> antenna.index, freq |-> segment.freq,
             sot |-> frame.txTime + segment.offset,
             eot |-> frame.txTime + segment.offset + segment.duration,
             power |-> SegmentPower(tx, segment), position |-> PositionAt(tx.nem, i)]
    <3> HIDE DEF segment
    <3> QED
      BY <2>1 DEF RowOf, OtaRow
  <2>4. SegmentPower(tx, segment) = IF segment.power # Missing THEN segment.power ELSE tx.power
    BY DEF SegmentPower
  <2> HIDE DEF x, segment, antenna, tx, frame
  <2>5. RowOf(i, t, a, s) = RowFor(tx, x)
    BY <2>2, <2>3, <2>4
  <2> QED
    BY <2>5 DEF x, segment, antenna, tx
<1> HIDE DEF RowFor
<1>4. \A x : x \in Pairs <=> \E a \in Good : \E s \in DOMAIN SegmentsOf(frame, a) :
                                x = <<frame.antennas[a], SegmentsOf(frame, a)[s]>>
  OBVIOUS
<1>5. \A tx : tx \in Txs <=> \E t \in DOMAIN frame.transmitters : tx = frame.transmitters[t]
  OBVIOUS
<1> HIDE DEF Pairs, Txs
<1>6. \A row : row \in RowsOf(i) <=> \E tx \in Txs, x \in Pairs : row = RowFor(tx, x)
  BY <1>1
<1> HIDE DEF frame
<1>7. ASSUME NEW row, row \in RowsOf(i)
      PROVE  \E t \in 1 .. Len(frame.transmitters), a \in 1 .. Len(frame.antennas) :
                /\ ~AntennaFails(frame, a)
                /\ \E s \in 1 .. Len(SegmentsOf(frame, a)) : row = RowOf(i, t, a, s)
  <2>1. PICK tx \in Txs, x \in Pairs : row = RowFor(tx, x)
    BY <1>6, <1>7
  <2>2. PICK t \in DOMAIN frame.transmitters : tx = frame.transmitters[t]
    BY <1>5
  <2>3. PICK a \in Good : \E s \in DOMAIN SegmentsOf(frame, a) :
                             x = <<frame.antennas[a], SegmentsOf(frame, a)[s]>>
    BY <1>4
  <2>4. PICK s \in DOMAIN SegmentsOf(frame, a) :
               x = <<frame.antennas[a], SegmentsOf(frame, a)[s]>>
    BY <2>3
  <2>5. row = RowOf(i, t, a, s)
    BY <1>3, <2>1, <2>2, <2>4
  <2> QED
    BY <1>2, <2>5
<1>8. ASSUME NEW row, NEW t \in 1 .. Len(frame.transmitters), NEW a \in 1 .. Len(frame.antennas),
             ~AntennaFails(frame, a),
             NEW s \in 1 .. Len(SegmentsOf(frame, a)), row = RowOf(i, t, a, s)
      PROVE  row \in RowsOf(i)
  <2>1. frame.transmitters[t] \in Txs
    BY <1>2, <1>5
  <2>2. <<frame.antennas[a], SegmentsOf(frame, a)[s]>> \in Pairs
    BY <1>2, <1>4, <1>8
  <2> QED
    BY <1>3, <1>6, <1>8, <2>1, <2>2
<1> QED
  BY <1>7, <1>8 DEF frame

(* What ReadOta finds to write, where the positions are those of the       *)
(* recording so far.                                                       *)
PositionsTell == positions = [n \in Nems |-> PositionAt(n, next)]

LEMMA AntennaLinesAre ==
  ASSUME args \in Invocations, PositionsTell, next \in Frames, Recording[next].type = "ota",
         NEW t \in 1 .. Len(Recording[next].transmitters),
         NEW a \in 1 .. Len(Recording[next].antennas),
         NEW lines, lines = AntennaLines(Recording[next], t, a)
  PROVE  LET frame == Recording[next] IN
         /\ AntennaFails(frame, a) => lines = <<Failure>>
         /\ ~AntennaFails(frame, a) =>
              /\ Len(lines) = Len(SegmentsOf(frame, a)) /\ Len(lines) \in Nat
              /\ DOMAIN lines = 1 .. Len(lines)
              /\ \A s \in 1 .. Len(lines) : lines[s] = RowOf(next, t, a, s)
              /\ lines = [s \in 1 .. Len(SegmentsOf(frame, a)) |-> RowOf(next, t, a, s)]
<1> DEFINE frame == Recording[next]
           n == Len(SegmentsOf(frame, a))
           nem == frame.transmitters[t].nem
<1>1. CASE AntennaFails(frame, a)
  BY <1>1 DEF AntennaLines
<1>2. CASE ~AntennaFails(frame, a)
  <2>1. n \in Nat /\ nem \in Nems
    BY <1>2, OtaTypes
  <2>2. positions[nem] = PositionAt(nem, next)
    BY <2>1 DEF PositionsTell
  <2>3. lines = [s \in 1 .. n |-> OtaRow(frame, t, a, s, positions[nem])]
    BY <1>2 DEF AntennaLines, SegmentsOf
  <2>4. lines = [s \in 1 .. n |-> RowOf(next, t, a, s)]
    BY <2>2, <2>3 DEF RowOf
  <2> HIDE DEF n, frame
  <2>5. Len(lines) = n /\ DOMAIN lines = 1 .. n /\ \A s \in 1 .. n : lines[s] = RowOf(next, t, a, s)
    BY <2>1, <2>4
  <2> QED
    BY <1>2, <2>1, <2>4, <2>5 DEF n, frame
<1> QED
  BY <1>1, <1>2

LEMMA RowKeys ==
  ASSUME args \in Invocations, NEW i \in Frames, Recording[i].type = "ota", args.tool = "ota",
         RowKeysDiffer(Recording[i]),
         NEW t \in 1 .. Len(Recording[i].transmitters), NEW u \in 1 .. Len(Recording[i].transmitters),
         NEW a \in 1 .. Len(Recording[i].antennas), NEW b \in 1 .. Len(Recording[i].antennas),
         ~AntennaFails(Recording[i], a), ~AntennaFails(Recording[i], b),
         NEW s \in 1 .. Len(SegmentsOf(Recording[i], a)),
         NEW r \in 1 .. Len(SegmentsOf(Recording[i], b)),
         Key(RowOf(i, t, a, s)) = Key(RowOf(i, u, b, r))
  PROVE  t = u /\ a = b /\ s = r
<1> DEFINE frame == Recording[i]
           x == SegmentsOf(frame, a)[s]
           y == SegmentsOf(frame, b)[r]
<1>1. /\ frame.txTime \in Int /\ x.offset \in Int /\ y.offset \in Int
      /\ t \in DOMAIN frame.transmitters /\ u \in DOMAIN frame.transmitters
      /\ a \in DOMAIN frame.antennas /\ b \in DOMAIN frame.antennas
      /\ s \in DOMAIN SegmentsOf(frame, a) /\ r \in DOMAIN SegmentsOf(frame, b)
  BY OtaTypes
<1>2. /\ Key(RowOf(i, t, a, s)) = <<frame.source, frame.sequence, frame.antennas[a].index, x.freq,
                                    frame.txTime + x.offset>>
      /\ Key(RowOf(i, u, b, r)) = <<frame.source, frame.sequence, frame.antennas[b].index, y.freq,
                                    frame.txTime + y.offset>>
  BY DEF Key, RowOf, OtaRow, SegmentsOf
<1>3. <<frame.source, frame.sequence, frame.antennas[a].index, x.freq, frame.txTime + x.offset>>
        = <<frame.source, frame.sequence, frame.antennas[b].index, y.freq, frame.txTime + y.offset>>
  BY <1>2
<1>4. RowKeysDiffer(frame)
  OBVIOUS
<1> HIDE DEF x, y, frame
<1>5. /\ frame.antennas[a].index = frame.antennas[b].index /\ x.freq = y.freq
      /\ frame.txTime + x.offset = frame.txTime + y.offset
  BY <1>3
<1>6. x.offset = y.offset
  BY <1>1, <1>5
<1> QED
  BY <1>1, <1>4, <1>5, <1>6 DEF RowKeysDiffer, x, y

LEMMA TransmitterLinesAre ==
  ASSUME args \in Invocations, PositionsTell, next \in Frames, Recording[next].type = "ota",
         Recording[next].registration = EmulatorRegistration,
         NEW t \in 1 .. Len(Recording[next].transmitters),
         NEW lines,
         lines = FlattenSeq([a \in 1 .. Len(Recording[next].antennas) |->
                               AntennaLines(Recording[next], t, a)])
  PROVE  LET frame == Recording[next]
             As == 1 .. Len(frame.antennas)
         IN
         /\ lines \in Seq(LinesOf(next))
         /\ \A x \in Range(lines) : \E a \in As :
              \/ AntennaFails(frame, a) /\ x = Failure
              \/ /\ ~AntennaFails(frame, a)
                 /\ \E s \in 1 .. Len(SegmentsOf(frame, a)) : x = RowOf(next, t, a, s)
         /\ \A a \in As : ~AntennaFails(frame, a) =>
              \A s \in 1 .. Len(SegmentsOf(frame, a)) : RowOf(next, t, a, s) \in Range(lines)
         /\ /\ args.tool = "ota" /\ RowKeysDiffer(frame)
            /\ \A a \in As : ~AntennaFails(frame, a)
            => Distinct(lines, SameKey(LinesOf(next)))
<1> DEFINE frame == Recording[next]
           As == 1 .. Len(frame.antennas)
           S == LinesOf(next)
           Same == SameKey(S)
           Of(a) == AntennaLines(frame, t, a)
           seqs == [a \in As |-> Of(a)]
<1>1. Len(frame.antennas) \in Nat
  BY OtaTypes
<1>2. ASSUME NEW a \in As
      PROVE  /\ AntennaFails(frame, a) => Of(a) = <<Failure>>
             /\ ~AntennaFails(frame, a) =>
                  /\ Len(Of(a)) = Len(SegmentsOf(frame, a)) /\ Len(Of(a)) \in Nat
                  /\ DOMAIN Of(a) = 1 .. Len(Of(a))
                  /\ \A s \in 1 .. Len(Of(a)) : Of(a)[s] = RowOf(next, t, a, s)
                  /\ Of(a) = [s \in 1 .. Len(SegmentsOf(frame, a)) |-> RowOf(next, t, a, s)]
  BY AntennaLinesAre
<1>3. ASSUME NEW a \in As, ~AntennaFails(frame, a), NEW s \in 1 .. Len(SegmentsOf(frame, a))
      PROVE  RowOf(next, t, a, s) \in S
  BY <1>3, OtaRowsAre DEF LinesOf
<1>4. Failure \in S
  BY DEF LinesOf
<1>5. lines = FlattenSeq(seqs)
  OBVIOUS
<1> HIDE DEF Of, S
<1>6. ASSUME NEW a \in As
      PROVE  /\ Of(a) \in Seq(S)
             /\ \A x \in Range(Of(a)) :
                  \/ AntennaFails(frame, a) /\ x = Failure
                  \/ /\ ~AntennaFails(frame, a)
                     /\ \E s \in 1 .. Len(SegmentsOf(frame, a)) : x = RowOf(next, t, a, s)
             /\ ~AntennaFails(frame, a) =>
                  \A s \in 1 .. Len(SegmentsOf(frame, a)) : RowOf(next, t, a, s) \in Range(Of(a))
  <2>1. CASE AntennaFails(frame, a)
    <3>1. Of(a) = <<Failure>>
      BY <1>2, <2>1
    <3> HIDE DEF frame
    <3> QED
      BY <1>4, <2>1, <3>1 DEF Range
  <2>2. CASE ~AntennaFails(frame, a)
    <3> DEFINE n == Len(SegmentsOf(frame, a))
               q == Of(a)
    <3>1. /\ n \in Nat /\ Len(q) = n /\ DOMAIN q = 1 .. n
          /\ \A s \in 1 .. n : q[s] = RowOf(next, t, a, s) /\ RowOf(next, t, a, s) \in S
      BY <1>2, <1>3, <2>2
    <3>2. q = [s \in 1 .. n |-> RowOf(next, t, a, s)]
      BY <1>2, <2>2
    <3> HIDE DEF n, q, frame
    <3>3. q \in Seq(S)
      BY <3>1, <3>2
    <3> QED
      BY <2>2, <3>1, <3>3 DEF Range, n, q
  <2> QED
    BY <2>1, <2>2
<1>7. seqs \in Seq(Seq(S)) /\ Len(seqs) = Len(frame.antennas) /\ \A a \in As : seqs[a] = Of(a)
  BY <1>1, <1>6
<1> HIDE DEF seqs, As
<1>8. /\ lines \in Seq(S)
      /\ Range(lines) = UNION {Range(seqs[a]) : a \in 1 .. Len(seqs)}
      /\ AllApart(seqs, Same) => Distinct(lines, Same)
  BY <1>5, <1>7, FlatElements
<1>9. Range(lines) = UNION {Range(Of(a)) : a \in As}
  BY <1>7, <1>8 DEF As
<1>10. \A x \in Range(lines) : \E a \in As :
              \/ AntennaFails(frame, a) /\ x = Failure
              \/ /\ ~AntennaFails(frame, a)
                 /\ \E s \in 1 .. Len(SegmentsOf(frame, a)) : x = RowOf(next, t, a, s)
  <2> TAKE x \in Range(lines)
  <2>1. PICK a \in As : x \in Range(Of(a))
    BY <1>9
  <2> QED
    BY <1>6, <2>1
<1>11. \A a \in As : ~AntennaFails(frame, a) =>
              \A s \in 1 .. Len(SegmentsOf(frame, a)) : RowOf(next, t, a, s) \in Range(lines)
  BY <1>6, <1>9
<1>12. ASSUME args.tool = "ota", RowKeysDiffer(frame), \A a \in As : ~AntennaFails(frame, a)
       PROVE  Distinct(lines, Same)
  <2>1. ASSUME NEW a \in As, NEW b \in As,
               NEW s \in 1 .. Len(SegmentsOf(frame, a)), NEW r \in 1 .. Len(SegmentsOf(frame, b)),
               <<RowOf(next, t, a, s), RowOf(next, t, b, r)>> \in Same
        PROVE  a = b /\ s = r
    <3>1. Key(RowOf(next, t, a, s)) = Key(RowOf(next, t, b, r))
      BY <2>1 DEF SameKey
    <3>2. a \in 1 .. Len(frame.antennas) /\ b \in 1 .. Len(frame.antennas)
      BY DEF As
    <3> QED
      BY <1>12, <3>1, <3>2, RowKeys
  <2>2. ASSUME NEW a \in As PROVE Distinct(seqs[a], Same)
    <3>1. /\ Len(Of(a)) = Len(SegmentsOf(frame, a)) /\ seqs[a] = Of(a)
          /\ \A s \in 1 .. Len(Of(a)) : Of(a)[s] = RowOf(next, t, a, s)
      BY <1>2, <1>7, <1>12
    <3> HIDE DEF Same
    <3> QED
      BY <2>1, <3>1 DEF Distinct
  <2>3. ASSUME NEW a \in As, NEW b \in As, a # b PROVE Apart(Range(seqs[a]), Range(seqs[b]), Same)
    <3>1. /\ seqs[a] = Of(a) /\ seqs[b] = Of(b)
          /\ \A x \in Range(Of(a)) : \E s \in 1 .. Len(SegmentsOf(frame, a)) : x = RowOf(next, t, a, s)
          /\ \A x \in Range(Of(b)) : \E s \in 1 .. Len(SegmentsOf(frame, b)) : x = RowOf(next, t, b, s)
      BY <1>6, <1>7, <1>12
    <3> HIDE DEF Same
    <3> QED
      BY <2>1, <2>3, <3>1 DEF Apart
  <2>4. \A a, b \in As : a < b => a # b
    BY <1>1 DEF As
  <2>5. AllApart(seqs, Same)
    BY <1>7, <2>2, <2>3, <2>4 DEF AllApart, As
  <2> QED
    BY <1>8, <2>5
<1> QED
  BY <1>8, <1>10, <1>11, <1>12 DEF S, As
(* What ReadOta has the tool write of a frame.                             *)
LEMMA OtaLinesAre ==
  ASSUME args \in Invocations, PositionsTell, next \in Frames, Recording[next].type = "ota",
         NEW lines, lines = OtaLines(Recording[next])
  PROVE  LET frame == Recording[next]
             fails == \E a \in 1 .. Len(frame.antennas) : AntennaFails(frame, a)
         IN
         /\ lines \in Seq(LinesOf(next))
         /\ \A x \in Range(lines) : x \in RowsOf(next) \/ (fails /\ x = Failure)
         /\ RowsOf(next) \subseteq Range(lines)
         /\ /\ args.tool = "ota" /\ ~fails
            /\ frame.registration = EmulatorRegistration => RowKeysDiffer(frame)
            => Distinct(lines, SameKey(LinesOf(next)))
<1> DEFINE frame == Recording[next]
           As == 1 .. Len(frame.antennas)
           Ts == 1 .. Len(frame.transmitters)
           S == LinesOf(next)
           Same == SameKey(S)
           Of(t) == FlattenSeq([a \in As |-> AntennaLines(frame, t, a)])
           seqs == [t \in Ts |-> Of(t)]
           Segments(a) == 1 .. Len(SegmentsOf(frame, a))
<1>1. CASE frame.registration # EmulatorRegistration
  <2>1. lines = << >> /\ RowsOf(next) = {}
    BY <1>1 DEF OtaLines, RowsOf
  <2>2. << >> \in Seq(S) /\ Range(<< >>) = {} /\ Distinct(<< >>, Same)
    BY DEF Range, Distinct
  <2> HIDE DEF S, Same
  <2>3. lines \in Seq(S) /\ Range(lines) = {} /\ Distinct(lines, Same)
    BY <2>1, <2>2
  <2> QED
    BY <2>1, <2>3 DEF S, Same
<1>2. CASE frame.registration = EmulatorRegistration
  <2>1. Len(frame.transmitters) \in Nat
    BY OtaTypes
  <2>2. lines = FlattenSeq(seqs)
    BY <1>2 DEF OtaLines
  <2>3. ASSUME NEW t \in Ts
        PROVE  /\ Of(t) \in Seq(S)
               /\ \A x \in Range(Of(t)) : \E a \in As :
                    \/ AntennaFails(frame, a) /\ x = Failure
                    \/ ~AntennaFails(frame, a) /\ \E s \in Segments(a) : x = RowOf(next, t, a, s)
               /\ \A a \in As : ~AntennaFails(frame, a) =>
                    \A s \in Segments(a) : RowOf(next, t, a, s) \in Range(Of(t))
               /\ /\ args.tool = "ota" /\ RowKeysDiffer(frame)
                  /\ \A a \in As : ~AntennaFails(frame, a)
                  => Distinct(Of(t), Same)
    <3> DEFINE q == Of(t)
    <3>1. q = FlattenSeq([a \in 1 .. Len(Recording[next].antennas) |->
                               AntennaLines(Recording[next], t, a)])
      OBVIOUS
    <3>2. t \in 1 .. Len(Recording[next].transmitters)
      OBVIOUS
    <3>3. Recording[next].registration = EmulatorRegistration
      BY <1>2
    <3> HIDE DEF q
    <3> QED
      BY <3>1, <3>2, <3>3, TransmitterLinesAre DEF q
  <2>4. \A row : row \in RowsOf(next) <=>
          \E t \in Ts, a \in As : ~AntennaFails(frame, a)
                                  /\ \E s \in Segments(a) : row = RowOf(next, t, a, s)
    BY <1>2, OtaRowsAre
  <2> HIDE DEF Of
  <2>5. seqs \in Seq(Seq(S)) /\ Len(seqs) = Len(frame.transmitters) /\ \A t \in Ts : seqs[t] = Of(t)
    <3> HIDE DEF S
    <3> QED
      BY <2>1, <2>3
  <2> HIDE DEF seqs, S
  <2>6. /\ lines \in Seq(S)
        /\ Range(lines) = UNION {Range(seqs[t]) : t \in 1 .. Len(seqs)}
        /\ AllApart(seqs, Same) => Distinct(lines, Same)
    BY <2>2, <2>5, FlatElements
  <2>7. Range(lines) = UNION {Range(Of(t)) : t \in Ts}
    BY <2>5, <2>6
  <2> HIDE DEF As, Ts, Segments, Same
  <2>8. ASSUME NEW x \in Range(lines)
        PROVE  \/ x \in RowsOf(next)
               \/ (\E a \in As : AntennaFails(frame, a)) /\ x = Failure
    <3>1. PICK t \in Ts : x \in Range(Of(t))
      BY <2>7
    <3>2. PICK a \in As :
             \/ AntennaFails(frame, a) /\ x = Failure
             \/ ~AntennaFails(frame, a) /\ \E s \in Segments(a) : x = RowOf(next, t, a, s)
      BY <2>3, <3>1
    <3> QED
      BY <2>4, <3>2
  <2>9. RowsOf(next) \subseteq Range(lines)
    <3> SUFFICES ASSUME NEW row \in RowsOf(next) PROVE row \in Range(lines)
      OBVIOUS
    <3>1. PICK t \in Ts, a \in As : ~AntennaFails(frame, a)
                                    /\ \E s \in Segments(a) : row = RowOf(next, t, a, s)
      BY <2>4
    <3>2. row \in Range(Of(t))
      BY <2>3, <3>1
    <3> QED
      BY <2>7, <3>2
  <2>10. ASSUME args.tool = "ota", RowKeysDiffer(frame), \A a \in As : ~AntennaFails(frame, a)
         PROVE  Distinct(lines, Same)
    <3>1. ASSUME NEW t \in Ts, NEW u \in Ts, NEW x \in Range(seqs[t]), NEW y \in Range(seqs[u]),
                 <<x, y>> \in Same
          PROVE  t = u
      <4>1. x \in Range(Of(t)) /\ y \in Range(Of(u))
        BY <2>5
      <4>2. PICK a \in As : \E s \in Segments(a) : x = RowOf(next, t, a, s)
        BY <2>3, <2>10, <4>1
      <4>3. PICK s \in Segments(a) : x = RowOf(next, t, a, s)
        BY <4>2
      <4>4. PICK b \in As : \E r \in Segments(b) : y = RowOf(next, u, b, r)
        BY <2>3, <2>10, <4>1
      <4>5. PICK r \in Segments(b) : y = RowOf(next, u, b, r)
        BY <4>4
      <4>6. Key(RowOf(next, t, a, s)) = Key(RowOf(next, u, b, r))
        BY <3>1, <4>3, <4>5 DEF Same, SameKey
      <4>7. ~AntennaFails(frame, a) /\ ~AntennaFails(frame, b)
        BY <2>10
      <4> QED
        BY <2>10, <4>6, <4>7, RowKeys DEF As, Ts, Segments
    <3>2. \A t \in Ts : Distinct(seqs[t], Same)
      BY <2>3, <2>5, <2>10
    <3>3. \A t, u \in Ts : t < u => t # u
      BY <2>1 DEF Ts
    <3>4. \A t, u \in Ts : t # u => Apart(Range(seqs[t]), Range(seqs[u]), Same)
      BY <3>1 DEF Apart
    <3>5. AllApart(seqs, Same)
      BY <2>5, <3>2, <3>3, <3>4 DEF AllApart, Ts
    <3> QED
      BY <2>6, <3>5
  <2>11. ASSUME args.tool = "ota", ~ \E a \in As : AntennaFails(frame, a),
                frame.registration = EmulatorRegistration => RowKeysDiffer(frame)
         PROVE  Distinct(lines, Same)
    BY <1>2, <2>10, <2>11
  <2> QED
    BY <2>6, <2>8, <2>9, <2>11 DEF S, Same, As
<1> QED
  BY <1>1, <1>2
-----------------------------------------------------------------------------
(* What ReadEnergy has the tool write of a frame.                          *)
LEMMA EnergyTypes ==
  ASSUME args \in Invocations, NEW i \in Frames, Recording[i].type = "energy"
  PROVE  LET frame == Recording[i] IN
         /\ Len(frame.energies) \in Nat /\ DOMAIN frame.energies = 1 .. Len(frame.energies)
         /\ \A k \in 1 .. Len(frame.energies) : frame.energies[k].bins \in Nat
         /\ RowsOf(i) = {EnergyRow(frame, k) : k \in 1 .. Len(frame.energies)}
<1> DEFINE frame == Recording[i]
           Es == {frame.energies[k] : k \in DOMAIN frame.energies}
           RowFor(e) == [kind |-> "row", start |-> frame.start, sequence |-> frame.sequence,
                         subid |-> e.subid, freq |-> e.freq, position |-> frame.pov, bins |-> e.bins]
<1>1. IsFrame(frame) /\ frame.type = "energy"
  BY RecordingTypes
<1>2. RowsOf(i) = {RowFor(e) : e \in Es}
  BY DEF RowsOf, EnergyRowsOf
<1>3. \A k : EnergyRow(frame, k) = RowFor(frame.energies[k])
  BY DEF EnergyRow
<1> HIDE DEF RowFor, frame
<1>4. /\ IsSequence(frame.energies)
      /\ \A k \in DOMAIN frame.energies : frame.energies[k].bins \in Nat
  BY <1>1 DEF IsFrame
<1>5. Len(frame.energies) \in Nat /\ DOMAIN frame.energies = 1 .. Len(frame.energies)
  BY <1>4 DEF IsSequence
<1>6. {RowFor(e) : e \in Es} = {RowFor(frame.energies[k]) : k \in 1 .. Len(frame.energies)}
  BY <1>5
<1>7. RowsOf(i) = {EnergyRow(frame, k) : k \in 1 .. Len(frame.energies)}
  BY <1>2, <1>3, <1>6
<1> QED
  BY <1>4, <1>5, <1>7 DEF frame

LEMMA ConcatOne ==
  ASSUME NEW S, NEW a \in Seq(S), NEW b \in Seq(S), Len(a) = 1, Len(b) = 1
  PROVE  a \o b \in Seq(S) /\ Len(a \o b) = 2 /\ (a \o b)[1] = a[1] /\ (a \o b)[2] = b[1]
<1> DEFINE P(i) == IF i <= Len(a) THEN a[i] ELSE b[i - Len(a)]
<1>1. /\ a \o b \in Seq(S) /\ Len(a \o b) = Len(a) + Len(b)
      /\ \A i \in 1 .. Len(a) + Len(b) : (a \o b)[i] = P(i)
  BY Zenon, ConcatProperties
<1>2. P(1) = a[1] /\ P(2) = b[1]
  OBVIOUS
<1>3. Len(a) + Len(b) = 2 /\ 1 \in 1 .. Len(a) + Len(b) /\ 2 \in 1 .. Len(a) + Len(b)
  OBVIOUS
<1> HIDE DEF P
<1> QED
  BY <1>1, <1>2, <1>3, Zenon

LEMMA JoinOne ==
  ASSUME NEW S, NEW x \in S, NEW y \in S
  PROVE  << >> \o <<x>> = <<x>> /\ <<x>> \o <<y>> = <<x, y>>
<1>1. << >> \o <<x>> = <<x>>
  BY ConcatEmptySeq
<1> DEFINE a == <<x>>
           b == <<y>>
           c == <<x, y>>
<1>2. /\ a \in Seq(S) /\ Len(a) = 1 /\ a[1] = x
      /\ b \in Seq(S) /\ Len(b) = 1 /\ b[1] = y
      /\ c \in Seq(S) /\ Len(c) = 2 /\ c[1] = x /\ c[2] = y
  OBVIOUS
<1> HIDE DEF a, b, c
<1>3. a \o b \in Seq(S) /\ Len(a \o b) = 2 /\ (a \o b)[1] = x /\ (a \o b)[2] = y
  BY <1>2, ConcatOne
<1>4. \A i \in 1 .. 2 : i = 1 \/ i = 2
  OBVIOUS
<1>5. \A i \in 1 .. 2 : (a \o b)[i] = c[i]
  BY <1>2, <1>3, <1>4
<1>6. a \o b = c
  BY <1>2, <1>3, <1>5, SeqEqual
<1> QED
  BY <1>1, <1>6 DEF a, b, c

LEMMA OneOrTwo ==
  ASSUME NEW S, NEW x \in S, NEW y \in S
  PROVE  /\ <<x>> \in Seq(S) /\ Range(<<x>>) = {x}
         /\ <<x, y>> \in Seq(S) /\ Range(<<x, y>>) = {x, y}
         /\ \A Same : Distinct(<<x>>, Same)
         /\ \A Same : <<x, y>> \notin Same /\ <<y, x>> \notin Same => Distinct(<<x, y>>, Same)
<1> DEFINE a == <<x>>
           b == <<x, y>>
<1>2. /\ a \in Seq(S) /\ DOMAIN a = 1 .. 1 /\ Len(a) = 1 /\ a[1] = x
      /\ b \in Seq(S) /\ DOMAIN b = 1 .. 2 /\ Len(b) = 2 /\ b[1] = x /\ b[2] = y
  OBVIOUS
<1>3. \A p : (p \in 1 .. 1 <=> p = 1) /\ (p \in 1 .. 2 <=> p \in {1, 2})
  OBVIOUS
<1> HIDE DEF a, b
<1>4. Range(a) = {x} /\ Range(b) = {x, y}
  BY <1>2, <1>3 DEF Range
<1>5. \A Same : Distinct(a, Same)
  BY <1>2, <1>3 DEF Distinct
<1>6. \A Same : <<x, y>> \notin Same /\ <<y, x>> \notin Same => Distinct(b, Same)
  BY <1>2, <1>3 DEF Distinct
<1> QED
  BY <1>2, <1>4, <1>5, <1>6 DEF a, b

LEMMA EnergyLinesAre ==
  ASSUME args \in Invocations, next \in Frames, Recording[next].type = "energy",
         NEW lines, lines = EnergyLines(Recording[next])
  PROVE  LET frame == Recording[next] IN
         /\ lines \in Seq(LinesOf(next))
         /\ \A x \in Range(lines) :
              x \in RowsOf(next) \cup HeadersOf(next) \/ (AttitudeUnset(frame) /\ x = Failure)
         /\ RowsOf(next) \subseteq Range(lines) \/ Failure \in Range(lines)
         /\ args.tool = "energy" /\ EnergyKeysDiffer(frame) => Distinct(lines, SameKey(LinesOf(next)))
         /\ /\ setUp = Missing /\ lines # << >>
            /\ \A k \in 1 .. Len(frame.energies) : frame.energies[k].bins > 0
            => lines[1].kind = "header"
<1> DEFINE frame == Recording[next]
           Ks == 1 .. Len(frame.energies)
           S == LinesOf(next)
           Same == SameKey(S)
           H(k) == Header(frame.energies[k].bins)
           R(k) == IF AttitudeUnset(frame) THEN Failure ELSE EnergyRow(frame, k)
           Of(k) == (IF SetsUpAt(frame, k) THEN <<H(k)>> ELSE << >>) \o <<R(k)>>
           seqs == [k \in Ks |-> Of(k)]
<1>1. Len(frame.energies) \in Nat /\ RowsOf(next) = {EnergyRow(frame, k) : k \in Ks}
  BY EnergyTypes
<1>2. lines = FlattenSeq(seqs)
  BY DEF EnergyLines
<1>3. \A k \in Ks : H(k) \in HeadersOf(next) /\ H(k).kind = "header"
  BY DEF HeadersOf, Header
<1>4. \A k \in Ks : R(k) \in RowsOf(next) \/ (AttitudeUnset(frame) /\ R(k) = Failure)
  BY <1>1
<1> HIDE DEF H, R, Ks, frame
<1>5. \A k \in Ks : H(k) \in S /\ R(k) \in S
  <2>1. HeadersOf(next) \subseteq S /\ RowsOf(next) \subseteq S /\ Failure \in S
    BY DEF LinesOf
  <2> HIDE DEF S
  <2> QED
    BY <1>3, <1>4, <2>1
<1> USE DEF Ks, frame
<1> HIDE DEF S
<1>a. ASSUME NEW k \in Ks
      PROVE  <<H(k)>> \o <<R(k)>> = <<H(k), R(k)>> /\ << >> \o <<R(k)>> = <<R(k)>>
  <2> DEFINE h == H(k)
             r == R(k)
  <2>1. h \in S /\ r \in S
    BY <1>5
  <2> HIDE DEF h, r
  <2>2. <<h>> \o <<r>> = <<h, r>> /\ << >> \o <<r>> = <<r>>
    BY <2>1, JoinOne, Zenon
  <2> QED
    BY <2>2 DEF h, r
<1>6. \A k \in Ks : SetsUpAt(frame, k) => Of(k) = <<H(k), R(k)>>
  <2> TAKE k \in Ks
  <2> HAVE SetsUpAt(frame, k)
  <2>1. Of(k) = <<H(k)>> \o <<R(k)>>
    OBVIOUS
  <2> QED
    BY <1>a, <2>1, Zenon
<1>7. \A k \in Ks : ~SetsUpAt(frame, k) => Of(k) = <<R(k)>>
  <2> TAKE k \in Ks
  <2> HAVE ~SetsUpAt(frame, k)
  <2>1. Of(k) = << >> \o <<R(k)>>
    OBVIOUS
  <2> QED
    BY <1>a, <2>1, Zenon
<1> HIDE DEF Of
<1>8. ASSUME NEW k \in Ks
      PROVE  /\ Of(k) \in Seq(S)
             /\ \A x \in Range(Of(k)) : x = H(k) \/ x = R(k)
             /\ R(k) \in Range(Of(k))
  <2>1. CASE SetsUpAt(frame, k)
    <3> DEFINE h == H(k)
               r == R(k)
               q == Of(k)
    <3>1. h \in S /\ r \in S /\ q = <<h, r>>
      BY <1>5, <1>6, <2>1
    <3> HIDE DEF h, r, q
    <3>2. q \in Seq(S) /\ Range(q) = {h, r}
      BY <3>1, OneOrTwo
    <3> QED
      BY <3>2 DEF h, r, q
  <2>2. CASE ~SetsUpAt(frame, k)
    <3> DEFINE r == R(k)
    <3>a. r \in S /\ Of(k) = <<r>>
      BY <1>5, <1>7, <2>2
    <3> HIDE DEF r
    <3>b. <<r>> \in Seq(S) /\ Range(<<r>>) = {r}
      BY <3>a, OneOrTwo, Zenon
    <3>1. Of(k) \in Seq(S) /\ Range(Of(k)) = {R(k)}
      BY <3>a, <3>b, Zenon DEF r
    <3> QED
      BY <3>1
  <2> QED
    BY <2>1, <2>2
<1>9. seqs \in Seq(Seq(S)) /\ Len(seqs) = Len(frame.energies) /\ \A k \in Ks : seqs[k] = Of(k)
  BY <1>1, <1>8
<1> HIDE DEF seqs
<1>10. /\ lines \in Seq(S)
       /\ Range(lines) = UNION {Range(seqs[k]) : k \in 1 .. Len(seqs)}
       /\ AllApart(seqs, Same) => Distinct(lines, Same)
       /\ seqs # << >> => \A p \in 1 .. Len(seqs[1]) :
                              p \in 1 .. Len(lines) /\ lines[p] = seqs[1][p]
  BY <1>2, <1>9, FlatElements
<1>11. Range(lines) = UNION {Range(Of(k)) : k \in Ks}
  BY <1>9, <1>10
<1> HIDE DEF Ks
<1>12. \A x \in Range(lines) :
         x \in RowsOf(next) \cup HeadersOf(next) \/ (AttitudeUnset(frame) /\ x = Failure)
  <2> TAKE x \in Range(lines)
  <2>1. PICK k \in Ks : x \in Range(Of(k))
    BY <1>11
  <2> QED
    BY <1>3, <1>4, <1>8, <2>1
<1>13. RowsOf(next) \subseteq Range(lines) \/ Failure \in Range(lines)
  <2>1. \A k \in Ks : R(k) \in Range(lines)
    BY <1>8, <1>11
  <2>2. CASE AttitudeUnset(frame)
    <3>1. \A k \in Ks : R(k) = Failure
      BY <2>2 DEF R
    <3> QED
      BY <1>1, <2>1, <3>1
  <2>3. CASE ~AttitudeUnset(frame)
    <3>1. \A k \in Ks : R(k) = EnergyRow(frame, k)
      BY <2>3 DEF R
    <3> QED
      BY <1>1, <2>1, <3>1
  <2> QED
    BY <2>2, <2>3
<1>14. ASSUME args.tool = "energy", EnergyKeysDiffer(frame)
       PROVE  Distinct(lines, Same)
  <2>1. \A k \in Ks : R(k).kind = "row" => ~AttitudeUnset(frame) /\ R(k) = EnergyRow(frame, k)
    BY DEF R, Failure
  <2>2. ASSUME NEW k \in Ks, NEW l \in Ks, <<R(k), R(l)>> \in Same PROVE k = l
    <3>1. R(k).kind = "row" /\ R(l).kind = "row" /\ Key(R(k)) = Key(R(l))
      BY <2>2 DEF SameKey
    <3>2. Key(EnergyRow(frame, k)) = Key(EnergyRow(frame, l))
      BY <2>1, <3>1
    <3>3. /\ frame.energies[k].subid = frame.energies[l].subid
          /\ frame.energies[k].freq = frame.energies[l].freq
      BY <1>14, <3>2 DEF Key, EnergyRow
    <3>4. k \in DOMAIN frame.energies /\ l \in DOMAIN frame.energies
      BY EnergyTypes DEF Ks
    <3> QED
      BY <1>14, <3>3, <3>4 DEF EnergyKeysDiffer
  <2>3. ASSUME NEW k \in Ks, NEW x \in Range(Of(k)), NEW l \in Ks, NEW y \in Range(Of(l)),
               <<x, y>> \in Same
        PROVE  k = l /\ x = R(k) /\ y = R(l)
    <3>1. x.kind = "row" /\ y.kind = "row"
      BY <2>3 DEF SameKey
    <3>2. x # H(k) /\ y # H(l)
      BY <1>3, <3>1
    <3>3. x = R(k) /\ y = R(l)
      BY <1>8, <3>2
    <3> QED
      BY <2>2, <2>3, <3>3
  <2>4. ASSUME NEW k \in Ks PROVE Distinct(seqs[k], Same)
    <3>1. H(k).kind # "row"
      BY <1>3
    <3>2. <<H(k), R(k)>> \notin Same /\ <<R(k), H(k)>> \notin Same
      BY <3>1 DEF SameKey
    <3> DEFINE h == H(k)
               r == R(k)
               q == Of(k)
    <3>3. h \in S /\ r \in S /\ (q = <<h, r>> \/ q = <<r>>)
      BY <1>5, <1>6, <1>7
    <3>4. <<h, r>> \notin Same /\ <<r, h>> \notin Same
      BY <3>2
    <3> HIDE DEF Same, h, r, q
    <3>5. /\ \A X : Distinct(<<r>>, X)
          /\ \A X : <<h, r>> \notin X /\ <<r, h>> \notin X => Distinct(<<h, r>>, X)
      BY <3>3, OneOrTwo
    <3>6. Distinct(q, Same)
      BY <3>3, <3>4, <3>5, Zenon
    <3> QED
      BY <1>9, <3>6 DEF q
  <2>5. \A k, l \in Ks : k < l => k # l
    BY <1>1 DEF Ks
  <2>6. \A k, l \in Ks : k # l => Apart(Range(seqs[k]), Range(seqs[l]), Same)
    <3> HIDE DEF Same
    <3> QED
      BY <1>9, <2>3 DEF Apart
  <2>7. AllApart(seqs, Same)
    BY <1>9, <2>4, <2>5, <2>6 DEF AllApart, Ks
  <2> QED
    BY <1>10, <2>7
<1>15. ASSUME setUp = Missing, lines # << >>, \A k \in Ks : frame.energies[k].bins > 0
       PROVE  lines[1].kind = "header"
  <2>1. seqs # << >>
    BY <1>2, <1>15 DEF FlattenSeq
  <2>2. 1 \in Ks
    BY <1>1, <1>9, <2>1 DEF Ks
  <2>3. SetsUpAt(frame, 1)
    BY <1>15, <2>2 DEF SetsUpAt
  <2>4. seqs[1] = <<H(1), R(1)>>
    BY <1>6, <1>9, <2>2, <2>3
  <2>5. 1 \in 1 .. Len(seqs[1]) /\ seqs[1][1] = H(1)
    BY <2>4
  <2> QED
    BY <1>3, <1>10, <2>1, <2>2, <2>5
<1> QED
  BY <1>10, <1>12, <1>13, <1>14, <1>15 DEF S, Ks
-----------------------------------------------------------------------------
(* No step changes the recording, and what is said of its frames.          *)
LEMMA SameRecording ==
  ASSUME args' = args
  PROVE  /\ Recording' = Recording /\ Frames' = Frames
         /\ \A n, i : PositionAt(n, i)' = PositionAt(n, i)
         /\ \A i : RowsOf(i)' = RowsOf(i)
         /\ \A i : HeadersOf(i)' = HeadersOf(i)
         /\ \A i : LinesOf(i)' = LinesOf(i)
         /\ \A row : Key(row)' = Key(row)
<1>1. Recording' = Recording
  BY DEF Recording
<1>2. Frames' = Frames
  BY <1>1 DEF Frames
<1>3. \A n, i : PositionAt(n, i)' = PositionAt(n, i)
  BY <1>1 DEF PositionAt, LocatedBy
<1>4. \A i : RowsOf(i)' = RowsOf(i)
  BY <1>1, <1>3 DEF RowsOf, OtaRowsOf, EnergyRowsOf, SegmentsOf, AntennaFails
<1>5. \A i : HeadersOf(i)' = HeadersOf(i)
  BY <1>1 DEF HeadersOf, Header
<1>6. \A i : LinesOf(i)' = LinesOf(i)
  BY <1>4, <1>5 DEF LinesOf
<1>7. \A row : Key(row)' = Key(row)
  BY DEF Key
<1> QED
  BY <1>1, <1>2, <1>3, <1>4, <1>5, <1>6, <1>7

LEMMA SameConvertible ==
  ASSUME args' = args, Convertible'
  PROVE  Convertible
<1>1. Recording' = Recording /\ Frames' = Frames
  BY SameRecording
<1>2. \A i : RowsOf(i)' = RowsOf(i)
  BY SameRecording
<1>3. \A row : Key(row)' = Key(row)
  BY SameRecording
<1> QED
  BY <1>1, <1>2, <1>3 DEF Convertible

(* The last location event before a frame.                                 *)
LEMMA PositionNext ==
  ASSUME NEW n, NEW i \in Nat \ {0}
  PROVE  PositionAt(n, i + 1) = IF LocatedBy(n, i) THEN Recording[i].locations[n]
                                ELSE PositionAt(n, i)
<1> DEFINE before == {j \in 1 .. i - 1 : LocatedBy(n, j)}
           upto == {j \in 1 .. i + 1 - 1 : LocatedBy(n, j)}
           LatestOf(located) == CHOOSE j \in located : \A k \in located : k <= j
<1>1. \A j : j \in upto <=> j \in before \/ (j = i /\ LocatedBy(n, i))
  <2>1. \A j : j \in 1 .. i + 1 - 1 <=> j \in 1 .. i - 1 \/ j = i
    OBVIOUS
  <2> QED
    BY <2>1
<1>2. PositionAt(n, i + 1) = IF upto = {} THEN Missing ELSE Recording[LatestOf(upto)].locations[n]
  BY DEF PositionAt
<1>3. PositionAt(n, i) = IF before = {} THEN Missing ELSE Recording[LatestOf(before)].locations[n]
  BY DEF PositionAt
<1>4. \A j \in before : j \in Int /\ j < i
  OBVIOUS
<1> HIDE DEF before, upto
<1>5. CASE LocatedBy(n, i)
  <2>1. i \in upto /\ \A k \in upto : k \in Int /\ k <= i
    BY <1>1, <1>4, <1>5
  <2>2. \A j \in upto : (\A k \in upto : k <= j) => j = i
    BY <2>1
  <2>3. LatestOf(upto) = i
    BY <2>1, <2>2
  <2> HIDE DEF LatestOf
  <2> QED
    BY <1>2, <1>5, <2>1, <2>3
<1>6. CASE ~LocatedBy(n, i)
  <2>1. upto = before
    BY <1>1, <1>6
  <2> QED
    BY <1>2, <1>3, <1>6, <2>1
<1> QED
  BY <1>5, <1>6

LEMMA PositionFirst ==
  ASSUME NEW n
  PROVE  PositionAt(n, 1) = Missing
<1>1. {j \in 1 .. 1 - 1 : LocatedBy(n, j)} = {}
  OBVIOUS
<1> QED
  BY <1>1 DEF PositionAt
-----------------------------------------------------------------------------
(* The inductive invariant: the positions are those of the recording so    *)
(* far; what is written and what is still to write are lines of the frames *)
(* read; and the rows of these are written or still to write, unless the   *)
(* tool is to fail over the last frame.                                    *)
PendingLines == IF next = 1 THEN {} ELSE LinesOf(next - 1)
LinesUpto(i) == {Header(0)} \cup UNION {LinesOf(j) : j \in 1 .. i}

KeysDiffer(seq) ==
  \A j, k \in 1 .. Len(seq) :
     seq[j].kind = "row" /\ seq[k].kind = "row" /\ j # k => Key(seq[j]) # Key(seq[k])

StateTypes ==
  /\ args \in Invocations
  /\ phase \in {"starting", "reading", "done", "failed", "interrupted"}
  /\ next \in 1 .. Len(Recording) + 1
  /\ unset \in BOOLEAN
  /\ pending \in Seq(PendingLines)
  /\ phase = "done" => next = Len(Recording) + 1 /\ pending = << >>

OutputTypes ==
  /\ phase = "starting" => next = 1 /\ output = <<Old>>
  /\ phase # "starting" => output \in Seq(LinesUpto(next - 1))

TableKeys == args.format = "sqlitedb" => KeysDiffer(output)

RowsWritten ==
  \A i \in 1 .. next - 1 :
     \/ RowsOf(i) \subseteq Range(output)
     \/ /\ i = next - 1
        /\ RowsOf(i) \subseteq Range(output) \cup Range(pending) \/ Failure \in Range(pending)

RInv == StateTypes /\ PositionsTell /\ OutputTypes /\ TableKeys /\ RowsWritten

(* What kinds of lines there are.                                          *)
LEMMA LineKinds ==
  ASSUME args \in Invocations, NEW i \in Frames
  PROVE  /\ \A x \in RowsOf(i) : x.kind = "row"
         /\ \A x \in HeadersOf(i) : x.kind = "header" /\ x.bins \in Nat
         /\ Failure.kind = "failure"
<1>1. \A x \in RowsOf(i) : x.kind = "row"
  <2>1. Recording[i].type \in {"event", "ota", "energy"}
    BY RecordingTypes DEF IsFrame
  <2>2. CASE Recording[i].type = "event"
    BY <2>2 DEF RowsOf
  <2>3. CASE Recording[i].type = "ota"
    <3>1. CASE Recording[i].registration = EmulatorRegistration
      <4>1. \A t, a, s : RowOf(i, t, a, s).kind = "row"
        BY DEF RowOf, OtaRow
      <4> QED
        BY <2>3, <3>1, <4>1, OtaRowsAre
    <3>2. CASE Recording[i].registration # EmulatorRegistration
      BY <2>3, <3>2 DEF RowsOf
    <3> QED
      BY <3>1, <3>2
  <2>4. CASE Recording[i].type = "energy"
    <3>1. \A k : EnergyRow(Recording[i], k).kind = "row"
      BY DEF EnergyRow
    <3> QED
      BY <2>4, <3>1, EnergyTypes
  <2> QED
    BY <2>1, <2>2, <2>3, <2>4
<1>2. \A x \in HeadersOf(i) : x.kind = "header" /\ x.bins \in Nat
  <2>1. CASE Recording[i].type = "energy"
    <3>1. \A k \in 1 .. Len(Recording[i].energies) : Recording[i].energies[k].bins \in Nat
      BY <2>1, EnergyTypes
    <3> QED
      BY <3>1 DEF HeadersOf, Header
  <2>2. CASE Recording[i].type # "energy"
    BY <2>2 DEF HeadersOf
  <2> QED
    BY <2>1, <2>2
<1> QED
  BY <1>1, <1>2 DEF Failure

LEMMA OutputSequence ==
  ASSUME RInv
  PROVE  /\ Len(Recording) \in Nat /\ next \in Nat \ {0}
         /\ \A i \in 1 .. next - 1 : i \in Frames
         /\ Len(output) \in Nat /\ DOMAIN output = 1 .. Len(output)
         /\ \A x \in Range(output) : x.kind = "row" => \E i \in 1 .. next - 1 : x \in RowsOf(i)
         /\ phase # "starting" => Old \notin Range(output)
         /\ OutputRows = {x \in Range(output) : x.kind = "row"}
<1>1. Len(Recording) \in Nat
  BY RecordingTypes DEF RInv, StateTypes
<1>2. next \in Nat \ {0} /\ \A i \in 1 .. next - 1 : i \in Frames
  BY <1>1 DEF RInv, StateTypes, Frames
<1>3. CASE phase = "starting"
  <2>1. output = <<Old>>
    BY <1>3 DEF RInv, OutputTypes
  <2> DEFINE q == <<Old>>
  <2>2. Len(q) = 1 /\ DOMAIN q = 1 .. Len(q) /\ \A p \in 1 .. 1 : q[p] = Old
    OBVIOUS
  <2> HIDE DEF q
  <2>3. Len(output) = 1 /\ DOMAIN output = 1 .. Len(output) /\ \A p \in 1 .. 1 : output[p] = Old
    BY <2>1, <2>2 DEF q
  <2>4. \A x \in Range(output) : x.kind # "row"
    BY <2>3 DEF Range, Old
  <2>5. OutputRows = {x \in Range(output) : x.kind = "row"}
    BY <2>3 DEF OutputRows, Range
  <2> QED
    BY <1>1, <1>2, <1>3, <2>3, <2>4, <2>5
<1>4. CASE phase # "starting"
  <2>1. output \in Seq(LinesUpto(next - 1))
    BY <1>4 DEF RInv, OutputTypes
  <2>2. Len(output) \in Nat /\ DOMAIN output = 1 .. Len(output)
    BY <2>1
  <2>3. \A x \in Range(output) : x \in LinesUpto(next - 1)
    BY <2>1, <2>2 DEF Range
  <2>4. \A x \in LinesUpto(next - 1) :
           \/ \E i \in 1 .. next - 1 : x \in LinesOf(i)
           \/ x.kind = "header"
    <3>1. Header(0).kind = "header"
      BY DEF Header
    <3>2. \A x \in LinesUpto(next - 1) :
             (\E i \in 1 .. next - 1 : x \in LinesOf(i)) \/ x = Header(0)
      BY DEF LinesUpto
    <3> QED
      BY <3>1, <3>2
  <2>5. ASSUME NEW i \in 1 .. next - 1, NEW x \in LinesOf(i)
        PROVE  x.kind # "old" /\ (x.kind = "row" => x \in RowsOf(i))
    <3>1. i \in Frames /\ args \in Invocations
      BY <1>2 DEF RInv, StateTypes
    <3> QED
      BY <3>1, LineKinds DEF LinesOf
  <2>6. \A x \in Range(output) : /\ x.kind # "old"
                                 /\ x.kind = "row" => \E i \in 1 .. next - 1 : x \in RowsOf(i)
    BY <2>3, <2>4, <2>5
  <2>7. Old.kind = "old"
    BY DEF Old
  <2>8. OutputRows = {x \in Range(output) : x.kind = "row"}
    BY <2>2 DEF OutputRows, Range
  <2> QED
    BY <1>1, <1>2, <1>4, <2>2, <2>6, <2>7, <2>8
<1> QED
  BY <1>3, <1>4

(* The invariant implies the properties.                                   *)
LEMMA InvariantTells ==
  ASSUME RInv
  PROVE  TypeOK /\ RowsTellRecording
<1>1. /\ next \in Nat \ {0} /\ \A i \in 1 .. next - 1 : i \in Frames
      /\ \A x \in Range(output) : x.kind = "row" => \E i \in 1 .. next - 1 : x \in RowsOf(i)
      /\ phase # "starting" => Old \notin Range(output)
      /\ OutputRows = {x \in Range(output) : x.kind = "row"}
  BY OutputSequence
<1>2. DOMAIN positions = Nems
  BY DEF RInv, PositionsTell
<1>3. TypeOK
  BY <1>1, <1>2 DEF RInv, StateTypes, TableKeys, KeysDiffer, TypeOK
<1>4. ASSUME NEW i \in 1 .. next - 1, i < next - 1 \/ pending = << >>
      PROVE  RowsOf(i) \subseteq OutputRows
  <2>1. \A x \in RowsOf(i) : x.kind = "row"
    BY <1>1, LineKinds DEF RInv, StateTypes
  <2>2. pending = << >> => Range(pending) = {}
    BY DEF Range
  <2>3. RowsOf(i) \subseteq Range(output)
    BY <1>1, <1>4, <2>2 DEF RInv, RowsWritten
  <2> QED
    BY <1>1, <2>1, <2>3
<1>5. RowsTellRecording
  BY <1>1, <1>4 DEF RowsTellRecording
<1> QED
  BY <1>3, <1>5
(* A line taken from the front of one sequence to the end of another.      *)
LEMMA TakeHead ==
  ASSUME NEW S, NEW from \in Seq(S), from # << >>, NEW T, NEW to \in Seq(T), Head(from) \in T
  PROVE  /\ Head(from) \in S /\ Head(from) \in Range(from) /\ Tail(from) \in Seq(S)
         /\ Range(from) = {Head(from)} \cup Range(Tail(from))
         /\ Append(to, Head(from)) \in Seq(T)
         /\ Range(Append(to, Head(from))) = Range(to) \cup {Head(from)}
         /\ Len(to) \in Nat /\ Len(Append(to, Head(from))) = Len(to) + 1
         /\ \A p \in 1 .. Len(to) : Append(to, Head(from))[p] = to[p]
         /\ Append(to, Head(from))[Len(to) + 1] = Head(from)
         /\ Len(from) \in Nat /\ Len(from) = Len(Tail(from)) + 1
         /\ from[1] = Head(from) /\ \A p \in 1 .. Len(from) - 1 : Tail(from)[p] = from[p + 1]
<1> DEFINE h == Head(from)
           t == Tail(from)
           a == Append(to, h)
           n == Len(from)
           m == Len(to)
<1>1. /\ h \in S /\ h = from[1] /\ t \in Seq(S) /\ n \in Nat /\ n >= 1 /\ Len(t) = n - 1
      /\ \A p \in 1 .. n - 1 : t[p] = from[p + 1]
  BY HeadTailProperties
<1>2. /\ a \in Seq(T) /\ m \in Nat /\ Len(a) = m + 1
      /\ \A p \in 1 .. m : a[p] = to[p]
      /\ a[m + 1] = h
  BY AppendProperties
<1>3. /\ \A p \in 1 .. n : from[p] \in Range(from)
      /\ \A x \in Range(from) : \E p \in 1 .. n : from[p] = x
      /\ \A p \in 1 .. m : to[p] \in Range(to)
      /\ \A x \in Range(to) : \E p \in 1 .. m : to[p] = x
  BY ElementsOf
<1>4. /\ \A p \in 1 .. Len(t) : t[p] \in Range(t)
      /\ \A x \in Range(t) : \E p \in 1 .. Len(t) : t[p] = x
  BY <1>1, ElementsOf
<1>5. /\ \A p \in 1 .. Len(a) : a[p] \in Range(a)
      /\ \A x \in Range(a) : \E p \in 1 .. Len(a) : a[p] = x
  BY <1>2, ElementsOf
<1> HIDE DEF h, t, a, n, m
<1>6. /\ 1 \in 1 .. n /\ \A p \in 1 .. n : p = 1 \/ (p - 1 \in 1 .. n - 1 /\ p - 1 + 1 = p)
      /\ \A p \in 1 .. n - 1 : p + 1 \in 1 .. n
      /\ m + 1 \in 1 .. m + 1 /\ \A p \in 1 .. m + 1 : p = m + 1 \/ p \in 1 .. m
      /\ \A p \in 1 .. m : p \in 1 .. m + 1
  BY <1>1, <1>2
<1>7. Range(from) = {h} \cup Range(t)
  <2>1. ASSUME NEW x \in Range(from) PROVE x = h \/ x \in Range(t)
    <3>1. PICK p \in 1 .. n : from[p] = x
      BY <1>3
    <3>2. CASE p = 1
      BY <1>1, <3>1, <3>2
    <3>3. CASE p - 1 \in 1 .. n - 1 /\ p - 1 + 1 = p
      <4> DEFINE q == p - 1
      <4>1. q \in 1 .. n - 1 /\ q + 1 = p
        BY <3>3
      <4> HIDE DEF q
      <4>2. t[q] = x
        BY <1>1, <3>1, <4>1
      <4> QED
        BY <1>1, <1>4, <4>1, <4>2
    <3> QED
      BY <1>6, <3>2, <3>3
  <2>2. ASSUME NEW x \in Range(t) PROVE x \in Range(from)
    <3>1. PICK p \in 1 .. n - 1 : t[p] = x
      BY <1>1, <1>4
    <3>2. from[p + 1] = x /\ p + 1 \in 1 .. n
      BY <1>1, <1>6, <3>1
    <3> QED
      BY <1>3, <3>2
  <2>3. h \in Range(from)
    BY <1>1, <1>3, <1>6
  <2> QED
    BY <2>1, <2>2, <2>3
<1>8. Range(a) = Range(to) \cup {h}
  <2>1. \A x \in Range(a) : x \in Range(to) \/ x = h
    BY <1>2, <1>3, <1>5, <1>6
  <2>2. \A x \in Range(to) : x \in Range(a)
    <3> TAKE x \in Range(to)
    <3>1. PICK p \in 1 .. m : to[p] = x
      BY <1>3
    <3>2. p \in 1 .. Len(a) /\ a[p] = x
      BY <1>2, <1>6, <3>1
    <3> QED
      BY <1>5, <3>2
  <2>3. h \in Range(a)
    BY <1>2, <1>5, <1>6
  <2> QED
    BY <2>1, <2>2, <2>3
<1>9. n = n - 1 + 1
  BY <1>1
<1> QED
  BY <1>1, <1>2, <1>7, <1>8, <1>9 DEF h, t, a, n, m
-----------------------------------------------------------------------------
(* The invariant holds at first, and every step keeps it.                  *)
LEMMA RInvInit ==
  ASSUME Init
  PROVE  RInv
<1>1. Len(Recording) \in Nat
  BY RecordingTypes DEF Init
<1>2. StateTypes
  <2>1. 1 \in 1 .. Len(Recording) + 1 /\ << >> \in Seq(PendingLines)
    BY <1>1
  <2> QED
    BY <2>1 DEF Init, StateTypes
<1>3. PositionsTell
  BY PositionFirst DEF Init, PositionsTell
<1>4. OutputTypes
  BY DEF Init, OutputTypes
<1>5. TableKeys
  <2> DEFINE q == <<Old>>
  <2>1. Len(q) = 1
    OBVIOUS
  <2>2. output = q
    BY DEF Init
  <2> HIDE DEF q
  <2>3. Len(output) = 1
    BY <2>1, <2>2
  <2>4. \A j \in 1 .. 1 : j = 1
    OBVIOUS
  <2> QED
    BY <2>3, <2>4 DEF TableKeys, KeysDiffer
<1>6. RowsWritten
  BY DEF Init, RowsWritten
<1> QED
  BY <1>2, <1>3, <1>4, <1>5, <1>6 DEF RInv

(* A step of the phase alone: the tool ends, or nothing happens.           *)
LEMMA RInvEnd ==
  ASSUME RInv, UNCHANGED <<args, next, positions, unset, pending, output>>,
         phase' \in {"starting", "reading", "done", "failed", "interrupted"},
         phase' = "starting" <=> phase = "starting",
         phase' = "done" => next = Len(Recording) + 1 /\ pending = << >>
  PROVE  RInv'
<1> USE SameRecording
<1>1. StateTypes'
  BY DEF RInv, StateTypes, PendingLines
<1>2. PositionsTell'
  BY DEF RInv, PositionsTell
<1>3. OutputTypes'
  BY DEF RInv, OutputTypes, LinesUpto
<1>4. TableKeys'
  BY DEF RInv, TableKeys, KeysDiffer
<1>5. RowsWritten'
  BY DEF RInv, RowsWritten
<1> QED
  BY <1>1, <1>2, <1>3, <1>4, <1>5 DEF RInv

LEMMA RInvStart ==
  ASSUME RInv, Start
  PROVE  RInv'
<1> USE SameRecording
<1>1. /\ phase = "starting" /\ next = 1 /\ phase' = "reading"
      /\ UNCHANGED <<args, next, positions, unset, pending>>
      /\ output' \in {<< >>, <<Header(0)>>}
  BY DEF RInv, OutputTypes, Start
<1>2. StateTypes'
  BY <1>1 DEF RInv, StateTypes, PendingLines
<1>3. PositionsTell'
  BY <1>1 DEF RInv, PositionsTell
<1>4. output' \in Seq({Header(0)}) /\ \A p \in 1 .. Len(output') : p = 1
  <2> DEFINE h == Header(0)
  <2>1. output' = << >> \/ output' = <<h>>
    BY <1>1
  <2> HIDE DEF h
  <2>2. << >> \in Seq({h}) /\ Len(<< >>) = 0 /\ <<h>> \in Seq({h}) /\ Len(<<h>>) = 1
    OBVIOUS
  <2>3. (\A p \in 1 .. 0 : p = 1) /\ (\A p \in 1 .. 1 : p = 1)
    OBVIOUS
  <2>4. output' \in Seq({h}) /\ \A p \in 1 .. Len(output') : p = 1
    <3>1. CASE output' = << >>
      BY <2>2, <2>3, <3>1
    <3>2. CASE output' = <<h>>
      <4>1. Len(output') = 1
        BY <2>2, <3>2
      <4> QED
        BY <2>2, <2>3, <3>2, <4>1
    <3> QED
      BY <2>1, <3>1, <3>2
  <2> QED
    BY <2>4 DEF h
<1>5. OutputTypes'
  <2>1. Header(0) \in LinesUpto(next - 1)'
    BY DEF LinesUpto, Header
  <2>2. {Header(0)} \subseteq LinesUpto(next - 1)'
    BY <2>1
  <2>3. output' \in Seq(LinesUpto(next - 1)')
    BY <1>4, <2>2
  <2> QED
    BY <1>1, <2>3 DEF OutputTypes
<1>6. TableKeys'
  BY <1>4 DEF TableKeys, KeysDiffer
<1>7. RowsWritten'
  BY <1>1 DEF RowsWritten
<1> QED
  BY <1>2, <1>3, <1>5, <1>6, <1>7 DEF RInv

(* A frame is read, and its lines are what is to write next.               *)
LEMMA RInvRead ==
  ASSUME RInv, phase = "reading", pending = << >>, next \in Frames,
         UNCHANGED <<args, phase, output>>, next' = next + 1,
         positions' = [n \in Nems |-> PositionAt(n, next + 1)],
         unset' \in BOOLEAN, pending' \in Seq(LinesOf(next)),
         RowsOf(next) \subseteq Range(pending') \/ Failure \in Range(pending')
  PROVE  RInv'
<1> USE SameRecording
<1>1. /\ Len(Recording) \in Nat /\ next \in Nat \ {0} /\ next <= Len(Recording)
  BY OutputSequence DEF Frames
<1>2. next + 1 # 1 /\ next + 1 - 1 = next /\ next + 1 \in 1 .. Len(Recording) + 1
  BY <1>1
<1>3. StateTypes'
  <2>1. next' # 1 /\ next' - 1 = next
    BY <1>1
  <2>2. PendingLines' = LinesOf(next)
    BY <2>1 DEF PendingLines
  <2> QED
    BY <1>2, <2>2 DEF RInv, StateTypes
<1>4. PositionsTell'
  BY DEF PositionsTell
<1>5. OutputTypes'
  <2>1. \A j : j \in 1 .. next - 1 => j \in 1 .. next + 1 - 1
    BY <1>1
  <2>2. LinesUpto(next - 1) \subseteq LinesUpto(next + 1 - 1)
    BY <2>1 DEF LinesUpto
  <2>3. \A q : q \in Seq(LinesUpto(next - 1)) => q \in Seq(LinesUpto(next + 1 - 1))
    BY <2>2
  <2>4. output \in Seq(LinesUpto(next - 1))
    BY DEF RInv, OutputTypes
  <2>5. \A i : LinesUpto(i)' = LinesUpto(i)
    BY DEF LinesUpto, Header
  <2>6. LinesUpto(next - 1)' = LinesUpto(next + 1 - 1)
    <3> DEFINE m == next + 1 - 1
    <3>1. (next - 1)' = m
      BY <1>1
    <3> HIDE DEF m
    <3>2. LinesUpto(next - 1)' = LinesUpto(m)
      BY <2>5, <3>1
    <3> QED
      BY <3>2 DEF m
  <2> QED
    BY <2>3, <2>4, <2>6 DEF OutputTypes
<1>6. TableKeys'
  BY DEF RInv, TableKeys, KeysDiffer
<1>7. RowsWritten'
  <2> SUFFICES ASSUME NEW i \in 1 .. next
               PROVE  \/ RowsOf(i) \subseteq Range(output)
                      \/ /\ i = next
                         /\ \/ RowsOf(i) \subseteq Range(output) \cup Range(pending')
                            \/ Failure \in Range(pending')
    BY <1>1, <1>2 DEF RowsWritten
  <2>1. CASE i = next
    BY <2>1
  <2>2. CASE i # next
    <3>1. i \in 1 .. next - 1
      BY <1>1, <2>2
    <3>2. Range(pending) = {}
      BY DEF Range
    <3> QED
      BY <3>1, <3>2 DEF RInv, RowsWritten
  <2> QED
    BY <2>1, <2>2
<1> QED
  BY <1>3, <1>4, <1>5, <1>6, <1>7 DEF RInv

(* A line is written.                                                      *)
LEMMA RInvWrite ==
  ASSUME RInv, phase = "reading", pending # << >>, Head(pending) # Failure,
         UNCHANGED <<args, phase, next, positions, unset>>,
         output' = Append(output, Head(pending)), pending' = Tail(pending),
         Head(pending).kind = "row" => ~InsertFails(Head(pending))
  PROVE  RInv'
<1> USE SameRecording
<1> DEFINE S == PendingLines
           T == LinesUpto(next - 1)
<1>1. next \in Nat \ {0} /\ pending \in Seq(S) /\ output \in Seq(T)
  BY OutputSequence DEF RInv, StateTypes, OutputTypes
<1>2. S \subseteq T
  <2>1. next # 1 => next - 1 \in 1 .. next - 1
    BY <1>1
  <2> QED
    BY <2>1 DEF PendingLines, LinesUpto
<1> HIDE DEF S, T
<1>3. Head(pending) \in T
  <2>1. Head(pending) \in S
    BY <1>1, HeadTailProperties
  <2> QED
    BY <1>2, <2>1
<1>4. /\ pending' \in Seq(S) /\ output' \in Seq(T)
      /\ Range(pending) = {Head(pending)} \cup Range(pending')
      /\ Range(output') = Range(output) \cup {Head(pending)}
      /\ Len(output) \in Nat /\ Len(output') = Len(output) + 1
      /\ \A p \in 1 .. Len(output) : output'[p] = output[p]
      /\ output'[Len(output) + 1] = Head(pending)
  BY <1>1, <1>3, TakeHead
<1>5. StateTypes'
  BY <1>4 DEF RInv, StateTypes, PendingLines, S
<1>6. PositionsTell'
  BY DEF RInv, PositionsTell
<1>7. OutputTypes'
  BY <1>4 DEF OutputTypes, LinesUpto, Header, T
<1>8. TableKeys'
  <2> SUFFICES ASSUME args.format = "sqlitedb",
                      NEW j \in 1 .. Len(output'), NEW k \in 1 .. Len(output'), j # k,
                      output'[j].kind = "row", output'[k].kind = "row"
               PROVE  Key(output'[j]) # Key(output'[k])
    BY DEF TableKeys, KeysDiffer, Key
  <2> DEFINE m == Len(output)
  <2>1. /\ j \in 1 .. m \/ j = m + 1
        /\ k \in 1 .. m \/ k = m + 1
    BY <1>4
  <2>2. KeysDiffer(output)
    BY DEF RInv, TableKeys
  <2>3. Head(pending).kind = "row" =>
          \A i \in 1 .. m : output[i].kind = "row" => Key(output[i]) # Key(Head(pending))
    BY DEF InsertFails
  <2> HIDE DEF m
  <2>4. CASE j \in 1 .. m /\ k \in 1 .. m
    BY <1>4, <2>2, <2>4 DEF KeysDiffer, m
  <2>5. CASE j \in 1 .. m /\ k = m + 1
    BY <1>4, <2>3, <2>5 DEF m
  <2>6. CASE j = m + 1 /\ k \in 1 .. m
    BY <1>4, <2>3, <2>6 DEF m
  <2> QED
    BY <2>1, <2>4, <2>5, <2>6
<1>9. RowsWritten'
  BY <1>4 DEF RInv, RowsWritten
<1> QED
  BY <1>5, <1>6, <1>7, <1>8, <1>9 DEF RInv
LEMMA PositionsNext ==
  ASSUME RInv, next \in Frames
  PROVE  /\ Recording[next].type = "event" =>
              [n \in Nems |-> PositionAt(n, next + 1)]
                = [n \in Nems |-> IF n \in DOMAIN Recording[next].locations
                                  THEN Recording[next].locations[n] ELSE positions[n]]
         /\ Recording[next].type # "event" =>
              [n \in Nems |-> PositionAt(n, next + 1)] = positions
<1>1. next \in Nat \ {0}
  BY OutputSequence
<1>2. \A n : PositionAt(n, next + 1) = IF LocatedBy(n, next) THEN Recording[next].locations[n]
                                       ELSE PositionAt(n, next)
  BY <1>1, PositionNext
<1>3. \A n \in Nems : positions[n] = PositionAt(n, next)
  BY DEF RInv, PositionsTell
<1>4. CASE Recording[next].type = "event"
  <2>1. \A n \in Nems : PositionAt(n, next + 1) = IF n \in DOMAIN Recording[next].locations
                                                  THEN Recording[next].locations[n] ELSE positions[n]
    BY <1>2, <1>3, <1>4 DEF LocatedBy
  <2> QED
    BY <1>4, <2>1
<1>5. CASE Recording[next].type # "event"
  <2>1. \A n \in Nems : PositionAt(n, next + 1) = positions[n]
    BY <1>2, <1>3, <1>5 DEF LocatedBy
  <2>2. positions = [n \in Nems |-> positions[n]]
    BY DEF RInv, PositionsTell
  <2> QED
    BY <1>5, <2>1, <2>2
<1> QED
  BY <1>4, <1>5

LEMMA RInvNext ==
  ASSUME RInv, [Next]_vars
  PROVE  RInv'
<1>1. args \in Invocations /\ PositionsTell /\ Len(Recording) \in Nat /\ next \in Nat \ {0}
  BY OutputSequence DEF RInv, StateTypes
<1>2. next <= Len(Recording) => next \in Frames
  BY <1>1 DEF Frames
<1>3. CASE Start
  BY <1>3, RInvStart
<1>4. CASE ProgressFails
  BY <1>4, RInvEnd DEF ProgressFails, ReadsNext
<1>5. CASE EndOfInput
  <2>1. next = Len(Recording) + 1
    BY <1>1, <1>5 DEF EndOfInput, RInv, StateTypes
  <2> QED
    BY <1>5, <2>1, RInvEnd DEF EndOfInput, ReadsNext
<1>6. CASE ReadEvent
  <2>1. /\ phase = "reading" /\ pending = << >> /\ next \in Frames /\ next' = next + 1
        /\ Recording[next].type = "event"
        /\ UNCHANGED <<args, phase, unset, pending, output>>
    BY <1>2, <1>6 DEF ReadEvent, ReadFrame, ReadsNext
  <2>2. positions' = [n \in Nems |-> PositionAt(n, next + 1)]
    BY <1>6, <2>1, PositionsNext DEF ReadEvent
  <2>3. RowsOf(next) = {} /\ pending' \in Seq(LinesOf(next)) /\ unset' \in BOOLEAN
    BY <2>1 DEF RowsOf, RInv, StateTypes
  <2> QED
    BY <2>1, <2>2, <2>3, RInvRead
<1>7. CASE ReadOta
  <2>1. /\ phase = "reading" /\ pending = << >> /\ next \in Frames /\ next' = next + 1
        /\ Recording[next].type = "ota" /\ pending' = OtaLines(Recording[next])
        /\ UNCHANGED <<args, phase, positions, unset, output>>
    BY <1>2, <1>7 DEF ReadOta, ReadFrame, ReadsNext
  <2>2. positions' = [n \in Nems |-> PositionAt(n, next + 1)]
    BY <2>1, PositionsNext
  <2>3. pending' \in Seq(LinesOf(next)) /\ RowsOf(next) \subseteq Range(pending')
    BY <1>1, <2>1, OtaLinesAre
  <2>4. unset' \in BOOLEAN
    BY <2>1 DEF RInv, StateTypes
  <2> QED
    BY <2>1, <2>2, <2>3, <2>4, RInvRead
<1>8. CASE ReadEnergy
  <2>1. /\ phase = "reading" /\ pending = << >> /\ next \in Frames /\ next' = next + 1
        /\ Recording[next].type = "energy" /\ pending' = EnergyLines(Recording[next])
        /\ unset' = (unset /\ Recording[next].pov # Missing)
        /\ UNCHANGED <<args, phase, positions, output>>
    BY <1>2, <1>8 DEF ReadEnergy, ReadFrame, ReadsNext
  <2>2. positions' = [n \in Nems |-> PositionAt(n, next + 1)]
    BY <2>1, PositionsNext
  <2>3. /\ pending' \in Seq(LinesOf(next))
        /\ RowsOf(next) \subseteq Range(pending') \/ Failure \in Range(pending')
    BY <1>1, <2>1, EnergyLinesAre
  <2>4. unset' \in BOOLEAN
    BY <2>1 DEF RInv, StateTypes
  <2> QED
    BY <2>1, <2>2, <2>3, <2>4, RInvRead
<1>9. CASE WriteHeader
  <2>1. Head(pending) # Failure /\ Head(pending).kind # "row"
    BY <1>9 DEF WriteHeader, Failure
  <2> QED
    BY <1>9, <2>1, RInvWrite DEF WriteHeader
<1>10. CASE WriteRow
  <2>1. Head(pending) # Failure
    BY <1>10 DEF WriteRow, Failure
  <2> QED
    BY <1>10, <2>1, RInvWrite DEF WriteRow
<1>11. CASE Fails
  BY <1>11, RInvEnd DEF Fails
<1>12. CASE Interrupted
  BY <1>12, RInvEnd DEF Interrupted
<1>13. CASE UNCHANGED vars
  BY <1>13, RInvEnd DEF vars, RInv, StateTypes
<1> QED
  BY <1>3, <1>4, <1>5, <1>6, <1>7, <1>8, <1>9, <1>10, <1>11, <1>12, <1>13 DEF Next, ToolStep

LEMMA RecordingInvariant == Spec => []RInv
<1> QED
  BY RInvInit, RInvNext, PTL DEF Spec

(* The types; a table never holds two rows of a key; and the tool is done  *)
(* only when it has read all frames and written all rows: for every        *)
(* recording, and wherever the tools fail or are interrupted.              *)
THEOREM RecordingTypesKept == Spec => []TypeOK
<1> QED
  BY RecordingInvariant, InvariantTells, PTL

(* emane-spectrum-ota-record-tool and emane-spectrum-energy-recording-tool:*)
(* every row written is one of a frame read, with the position of its      *)
(* transmitter at that point of the recording, and no row is missing of a  *)
(* frame that the tool has done with.                                      *)
THEOREM RowsTell == Spec => []RowsTellRecording
<1> QED
  BY RecordingInvariant, InvariantTells, PTL
-----------------------------------------------------------------------------
(* A recording that the tools can convert: no line to write is the end of  *)
(* the tool, none has the key of another or of a row written, the table is *)
(* set up before its first row and for the bins of every measurement, and  *)
(* a measurement without a position was read before one with one.          *)
NoFailure == phase # "failed" /\ Failure \notin Range(pending)

KeysApart ==
  args.format = "sqlitedb" =>
    /\ KeysDiffer(pending)
    /\ \A x \in Range(output), y \in Range(pending) :
         x.kind = "row" /\ y.kind = "row" => Key(x) # Key(y)

AttitudeRead == args.tool = "energy" /\ unset => \A j \in 1 .. next - 1 : Recording[j].pov # Missing

TableFits ==
  args.tool = "energy" =>
    /\ setUp # Missing =>
         \A i \in Frames : \A k \in 1 .. Len(Recording[i].energies) : Recording[i].energies[k].bins = setUp
    /\ setUp = Missing /\ pending # << >> => pending[1].kind = "header"

CInv == Convertible => NoFailure /\ KeysApart /\ AttitudeRead /\ TableFits

LEMMA DistinctKeys ==
  ASSUME NEW S, NEW seq \in Seq(S), Distinct(seq, SameKey(S))
  PROVE  KeysDiffer(seq)
<1> SUFFICES ASSUME NEW j \in 1 .. Len(seq), NEW k \in 1 .. Len(seq), j # k,
                    seq[j].kind = "row", seq[k].kind = "row"
             PROVE  Key(seq[j]) # Key(seq[k])
  BY DEF KeysDiffer
<1>1. seq[j] \in S /\ seq[k] \in S
  OBVIOUS
<1>2. <<seq[j], seq[k]>> \notin SameKey(S)
  BY DEF Distinct
<1> QED
  BY <1>1, <1>2 DEF SameKey

LEMMA ConvertibleKeys ==
  ASSUME Convertible, args.format = "sqlitedb", NEW i \in Frames, NEW j \in Frames,
         NEW r \in RowsOf(i), NEW s \in RowsOf(j), Key(r) = Key(s)
  PROVE  i = j
<1>1. \A l, k \in Frames : \A x \in RowsOf(l), y \in RowsOf(k) : Key(x) = Key(y) => l = k
  BY DEF Convertible
<1> QED
  BY <1>1

LEMMA ConvertibleOta ==
  ASSUME Convertible, args \in Invocations, NEW i \in Frames, Recording[i].type = "ota"
  PROVE  /\ args.tool = "ota"
         /\ \A a \in 1 .. Len(Recording[i].antennas) : ~AntennaFails(Recording[i], a)
         /\ args.format = "sqlitedb" /\ Recording[i].registration = EmulatorRegistration
            => RowKeysDiffer(Recording[i])
<1> DEFINE frame == Recording[i]
<1>1. args.tool = "ota"
  BY RecordingTypes
<1>2. /\ \A a \in DOMAIN frame.antennas :
           ~frame.antennas[a].pointing /\ frame.antennas[a].group \in DOMAIN frame.groups
      /\ args.format = "sqlitedb" /\ frame.registration = EmulatorRegistration => RowKeysDiffer(frame)
  BY DEF Convertible
<1>3. DOMAIN frame.antennas = 1 .. Len(frame.antennas)
  BY OtaTypes
<1>4. IsFrame(frame) /\ frame.type = "ota"
  BY RecordingTypes
<1> HIDE DEF frame
<1>5. DOMAIN frame.groups = 1 .. Len(frame.groups)
  BY <1>4 DEF IsFrame, IsSequence
<1>6. \A a \in 1 .. Len(frame.antennas) : ~AntennaFails(frame, a)
  BY <1>2, <1>3, <1>5 DEF AntennaFails
<1> QED
  BY <1>1, <1>2, <1>6 DEF frame

LEMMA ConvertibleEnergy ==
  ASSUME Convertible, args \in Invocations, NEW i \in Frames, Recording[i].type = "energy"
  PROVE  /\ args.tool = "energy"
         /\ Recording[i].pov # Missing => \E j \in 1 .. i - 1 : Recording[j].pov = Missing
         /\ \A k \in 1 .. Len(Recording[i].energies) :
              /\ Recording[i].energies[k].bins > 0
              /\ \A j \in Frames : \A l \in 1 .. Len(Recording[j].energies) :
                   Recording[j].energies[l].bins = Recording[i].energies[k].bins
         /\ args.format = "sqlitedb" => EnergyKeysDiffer(Recording[i])
<1>1. args.tool = "energy"
  BY RecordingTypes
<1>2. \A j \in Frames : DOMAIN Recording[j].energies = 1 .. Len(Recording[j].energies)
  BY <1>1, RecordingTypes, EnergyTypes
<1>3. /\ Recording[i].pov # Missing => \E j \in 1 .. i - 1 : Recording[j].pov = Missing
      /\ \A k \in DOMAIN Recording[i].energies :
           /\ Recording[i].energies[k].bins > 0
           /\ \A j \in Frames : \A l \in DOMAIN Recording[j].energies :
                Recording[j].energies[l].bins = Recording[i].energies[k].bins
      /\ args.format = "sqlitedb" => EnergyKeysDiffer(Recording[i])
  BY DEF Convertible
<1> QED
  BY <1>1, <1>2, <1>3
(* A frame of such a recording is read.                                    *)
LEMMA CInvRead ==
  ASSUME RInv, CInv, Convertible, phase = "reading", next \in Frames,
         UNCHANGED <<args, phase, setUp, output>>, next' = next + 1,
         pending' \in Seq(LinesOf(next)), Failure \notin Range(pending'),
         args.format = "sqlitedb" => Distinct(pending', SameKey(LinesOf(next))),
         args.tool = "energy" =>
           /\ unset' => unset /\ Recording[next].pov # Missing
           /\ setUp = Missing /\ pending' # << >> => pending'[1].kind = "header"
  PROVE  NoFailure' /\ KeysApart' /\ AttitudeRead' /\ TableFits'
<1>1. /\ args \in Invocations /\ next \in Nat \ {0}
      /\ \A i \in 1 .. next - 1 : i \in Frames
      /\ \A x \in Range(output) : x.kind = "row" => \E i \in 1 .. next - 1 : x \in RowsOf(i)
  BY OutputSequence DEF RInv, StateTypes
<1>2. NoFailure /\ KeysApart /\ AttitudeRead /\ TableFits
  BY DEF CInv
<1>3. NoFailure'
  BY DEF NoFailure
<1>4. KeysApart'
  <2> SUFFICES ASSUME args.format = "sqlitedb"
               PROVE  /\ KeysDiffer(pending')
                      /\ \A x \in Range(output), y \in Range(pending') :
                           x.kind = "row" /\ y.kind = "row" => Key(x) # Key(y)
    BY SameRecording DEF KeysApart, KeysDiffer
  <2>1. KeysDiffer(pending')
    <3> DEFINE q == pending'
    <3>1. q \in Seq(LinesOf(next)) /\ Distinct(q, SameKey(LinesOf(next)))
      OBVIOUS
    <3> HIDE DEF q
    <3>2. KeysDiffer(q)
      BY <3>1, DistinctKeys
    <3> QED
      BY <3>2 DEF q
  <2>2. ASSUME NEW x \in Range(output), NEW y \in Range(pending'), x.kind = "row", y.kind = "row"
        PROVE  Key(x) # Key(y)
    <3>1. PICK i \in 1 .. next - 1 : x \in RowsOf(i)
      BY <1>1, <2>2
    <3>2. y \in LinesOf(next)
      BY ElementsOf
    <3>3. y \in RowsOf(next)
      BY <1>1, <2>2, <3>2, LineKinds DEF LinesOf
    <3>4. i \in Frames /\ i # next
      BY <1>1
    <3> QED
      BY <3>1, <3>3, <3>4, ConvertibleKeys
  <2> QED
    BY <2>1, <2>2
<1>5. AttitudeRead'
  <2> SUFFICES ASSUME args.tool = "energy", unset', NEW j \in 1 .. next + 1 - 1
               PROVE  Recording[j].pov # Missing
    BY <1>1 DEF AttitudeRead, Recording
  <2>1. unset /\ Recording[next].pov # Missing
    OBVIOUS
  <2>2. j \in 1 .. next - 1 \/ j = next
    BY <1>1
  <2> QED
    BY <1>2, <2>1, <2>2 DEF AttitudeRead
<1>6. TableFits'
  BY <1>2, SameRecording DEF TableFits
<1> QED
  BY <1>3, <1>4, <1>5, <1>6

(* A line is written.                                                      *)
LEMMA CInvWrite ==
  ASSUME RInv, CInv, Convertible, phase = "reading", pending # << >>,
         UNCHANGED <<args, phase, next, unset>>,
         output' = Append(output, Head(pending)), pending' = Tail(pending),
         TableFits'
  PROVE  NoFailure' /\ KeysApart' /\ AttitudeRead'
<1> DEFINE S == PendingLines
           T == LinesUpto(next - 1) \cup PendingLines
<1>1. next \in Nat \ {0} /\ pending \in Seq(S) /\ output \in Seq(T)
  <2>1. \A q : q \in Seq(LinesUpto(next - 1)) => q \in Seq(T)
    OBVIOUS
  <2> QED
    BY <2>1, OutputSequence DEF RInv, StateTypes, OutputTypes
<1>2. Head(pending) \in T
  BY <1>1, HeadTailProperties
<1> HIDE DEF S, T
<1>3. /\ Range(pending) = {Head(pending)} \cup Range(pending')
      /\ Range(output') = Range(output) \cup {Head(pending)}
      /\ Len(pending) \in Nat /\ Len(pending) = Len(pending') + 1 /\ pending[1] = Head(pending)
      /\ \A p \in 1 .. Len(pending) - 1 : pending'[p] = pending[p + 1]
      /\ Head(pending) \in Range(pending) /\ pending' \in Seq(S)
  BY <1>1, <1>2, TakeHead
<1>4. NoFailure /\ KeysApart /\ AttitudeRead
  BY DEF CInv
<1>5. NoFailure'
  BY <1>3, <1>4 DEF NoFailure
<1>6. KeysApart'
  <2> SUFFICES ASSUME args.format = "sqlitedb"
               PROVE  /\ KeysDiffer(pending')
                      /\ \A x \in Range(output'), y \in Range(pending') :
                           x.kind = "row" /\ y.kind = "row" => Key(x) # Key(y)
    BY SameRecording DEF KeysApart, KeysDiffer
  <2>1. /\ KeysDiffer(pending)
        /\ \A x \in Range(output), y \in Range(pending) :
             x.kind = "row" /\ y.kind = "row" => Key(x) # Key(y)
    BY <1>4 DEF KeysApart
  <2> DEFINE n == Len(pending')
  <2>2. n \in Nat /\ Len(pending) = n + 1
    BY <1>3
  <2>3. \A p \in 1 .. n : /\ p + 1 \in 1 .. Len(pending) /\ p + 1 # 1
                          /\ pending'[p] = pending[p + 1]
    BY <1>3, <2>2
  <2>4. 1 \in 1 .. Len(pending)
    BY <2>2
  <2> HIDE DEF n
  <2>5. ASSUME NEW j \in 1 .. n, NEW k \in 1 .. n, j # k,
               pending'[j].kind = "row", pending'[k].kind = "row"
        PROVE  Key(pending'[j]) # Key(pending'[k])
    <3> DEFINE a == j + 1
               b == k + 1
    <3>1. /\ a \in 1 .. Len(pending) /\ pending'[j] = pending[a]
          /\ b \in 1 .. Len(pending) /\ pending'[k] = pending[b]
      BY <2>3
    <3>2. a # b
      BY <2>2, <2>5
    <3> HIDE DEF a, b
    <3> QED
      BY <2>1, <2>5, <3>1, <3>2 DEF KeysDiffer
  <2>6. ASSUME NEW y \in Range(pending'), Head(pending).kind = "row", y.kind = "row"
        PROVE  Key(Head(pending)) # Key(y)
    <3>1. PICK p \in 1 .. n : pending'[p] = y
      BY <1>3, ElementsOf DEF n
    <3> DEFINE a == p + 1
    <3>2. a \in 1 .. Len(pending) /\ a # 1 /\ pending[a] = y
      BY <2>3, <3>1
    <3> HIDE DEF a
    <3> QED
      BY <1>3, <2>1, <2>4, <2>6, <3>2 DEF KeysDiffer
  <2>7. KeysDiffer(pending')
    BY <2>5 DEF KeysDiffer, n
  <2> QED
    BY <1>3, <2>1, <2>6, <2>7
<1>7. AttitudeRead'
  BY <1>4 DEF AttitudeRead, Recording
<1> QED
  BY <1>5, <1>6, <1>7
LEMMA CInvInit ==
  ASSUME Init
  PROVE  CInv
<1>1. NoFailure
  BY DEF Init, NoFailure, Range
<1>2. KeysApart
  BY DEF Init, KeysApart, KeysDiffer, Range
<1>3. AttitudeRead
  BY DEF Init, AttitudeRead
<1>4. TableFits
  BY DEF Init, TableFits
<1> QED
  BY <1>1, <1>2, <1>3, <1>4 DEF CInv

(* The tool does not fail over a line to write.                            *)
LEMMA NoLineFails ==
  ASSUME RInv, CInv, Convertible, phase = "reading"
  PROVE  ~Fails
<1> SUFFICES ASSUME Fails PROVE FALSE
  OBVIOUS
<1> DEFINE h == Head(pending)
<1>1. NoFailure /\ KeysApart /\ TableFits /\ args \in Invocations
  BY DEF CInv, RInv, StateTypes
<1>2. pending # << >> /\ (h.kind = "failure" \/ (h.kind = "row" /\ InsertFails(h)))
  BY DEF Fails
<1>3. pending \in Seq(PendingLines)
  BY DEF RInv, StateTypes
<1>4. h \in PendingLines /\ h = pending[1] /\ h \in Range(pending)
  <2>1. h \in PendingLines /\ Len(pending) \in Nat /\ Len(pending) >= 1
    BY <1>2, <1>3, HeadTailProperties
  <2>2. h = pending[1]
    BY <1>2, <1>3
  <2>3. 1 \in 1 .. Len(pending)
    BY <2>1
  <2> QED
    BY <1>3, <2>1, <2>2, <2>3, ElementsOf
<1> HIDE DEF h
<1>5. next # 1 /\ h \in LinesOf(next - 1)
  BY <1>4 DEF PendingLines
<1>6. /\ next \in Nat \ {0} /\ next - 1 \in Frames
      /\ Len(output) \in Nat /\ DOMAIN output = 1 .. Len(output)
  <2>1. next \in Nat \ {0} /\ \A i \in 1 .. next - 1 : i \in Frames
    BY OutputSequence
  <2>2. next - 1 \in 1 .. next - 1
    BY <1>5, <2>1
  <2> QED
    BY <2>1, <2>2, OutputSequence
<1>7. h # Failure
  BY <1>1, <1>4 DEF NoFailure
<1>8. h.kind = "row" /\ h \in RowsOf(next - 1) /\ InsertFails(h)
  BY <1>1, <1>2, <1>5, <1>6, <1>7, LineKinds DEF LinesOf
<1>9. \A j \in 1 .. Len(output) : output[j] \in Range(output)
  BY <1>6 DEF Range
<1>10. args.tool = "energy" /\ setUp # h.bins
  BY <1>1, <1>4, <1>8, <1>9 DEF InsertFails, KeysApart
<1>11. setUp # Missing
  BY <1>1, <1>2, <1>4, <1>8, <1>10 DEF TableFits
<1>12. Recording[next - 1].type = "energy"
  BY <1>1, <1>6, <1>10, RecordingTypes
<1>13. PICK k \in 1 .. Len(Recording[next - 1].energies) : h = EnergyRow(Recording[next - 1], k)
  BY <1>1, <1>6, <1>8, <1>12, EnergyTypes
<1>14. h.bins = Recording[next - 1].energies[k].bins
  BY <1>13 DEF EnergyRow
<1>15. Recording[next - 1].energies[k].bins = setUp
  BY <1>1, <1>6, <1>10, <1>11 DEF TableFits
<1> QED
  BY <1>10, <1>14, <1>15

LEMMA CInvNext ==
  ASSUME RInv, CInv, [Next]_vars
  PROVE  CInv'
<1> SUFFICES ASSUME Convertible, args' = args
             PROVE  NoFailure' /\ KeysApart' /\ AttitudeRead' /\ TableFits'
  <2>1. args' = args
    BY DEF Next, ToolStep, Start, ProgressFails, EndOfInput, ReadEvent, ReadOta, ReadEnergy,
           WriteHeader, WriteRow, Fails, Interrupted, vars
  <2> QED
    BY <2>1, SameConvertible DEF CInv
<1>1. /\ args \in Invocations /\ PositionsTell /\ Len(Recording) \in Nat /\ next \in Nat \ {0}
      /\ \A i \in 1 .. next - 1 : i \in Frames
  BY OutputSequence DEF RInv, StateTypes
<1>2. next <= Len(Recording) => next \in Frames
  BY <1>1 DEF Frames
<1>3. NoFailure /\ KeysApart /\ AttitudeRead /\ TableFits
  BY DEF CInv
<1>4. ASSUME UNCHANGED <<next, unset, setUp, pending, output>>, phase' # "failed"
      PROVE  NoFailure' /\ KeysApart' /\ AttitudeRead' /\ TableFits'
  <2>1. NoFailure'
    BY <1>3, <1>4 DEF NoFailure
  <2>2. KeysApart'
    BY <1>3, <1>4, SameRecording DEF KeysApart, KeysDiffer
  <2>3. AttitudeRead'
    BY <1>3, <1>4 DEF AttitudeRead, Recording
  <2>4. TableFits'
    BY <1>3, <1>4 DEF TableFits, Recording, Frames
  <2> QED
    BY <2>1, <2>2, <2>3, <2>4
<1>5. CASE Start
  <2>1. /\ phase' = "reading" /\ pending = << >> /\ UNCHANGED <<next, unset, setUp, pending>>
    <3>1. PendingLines = {}
      BY <1>5 DEF Start, RInv, OutputTypes, PendingLines
    <3>2. pending \in Seq({})
      BY <3>1 DEF RInv, StateTypes
    <3>3. pending = << >>
      BY <3>2
    <3> QED
      BY <1>5, <3>3 DEF Start
  <2>2. Range(pending') = {} /\ Len(pending') = 0
    BY <2>1 DEF Range
  <2>3. NoFailure' /\ KeysApart'
    BY <2>1, <2>2 DEF NoFailure, KeysApart, KeysDiffer
  <2>4. AttitudeRead' /\ TableFits'
    BY <1>3, <2>1 DEF AttitudeRead, TableFits, Recording, Frames
  <2> QED
    BY <2>3, <2>4
<1>6. CASE ProgressFails
  <2>1. args.progress /\ (args.stdin \/ (Recording = << >> /\ ~args.torn))
    BY <1>6 DEF ProgressFails, TotalIsZero
  <2> QED
    BY <1>1, <2>1, InvocationsAssumption DEF Convertible
<1>7. CASE EndOfInput
  BY <1>4, <1>7 DEF EndOfInput
<1>8. CASE ReadEvent
  <2>1. /\ phase = "reading" /\ pending = << >> /\ next \in Frames /\ next' = next + 1
        /\ UNCHANGED <<args, phase, unset, setUp, pending, output>>
        /\ Recording[next].type = "event"
    BY <1>2, <1>8 DEF ReadEvent, ReadFrame, ReadsNext
  <2>2. pending' \in Seq(LinesOf(next)) /\ Range(pending') = {} /\ Len(pending') = 0
    BY <2>1 DEF Range
  <2>3. Distinct(pending', SameKey(LinesOf(next)))
    BY <2>2 DEF Distinct
  <2>4. args.tool # "energy"
    BY <1>1, <2>1, RecordingTypes
  <2> QED
    BY <2>1, <2>2, <2>3, <2>4, CInvRead
<1>9. CASE ReadOta
  <2>1. /\ phase = "reading" /\ pending = << >> /\ next \in Frames /\ next' = next + 1
        /\ Recording[next].type = "ota" /\ pending' = OtaLines(Recording[next])
        /\ UNCHANGED <<args, phase, unset, setUp, output>>
    BY <1>2, <1>9 DEF ReadOta, ReadFrame, ReadsNext
  <2>2. /\ args.tool = "ota"
        /\ ~ \E a \in 1 .. Len(Recording[next].antennas) : AntennaFails(Recording[next], a)
        /\ args.format = "sqlitedb" /\ Recording[next].registration = EmulatorRegistration
           => RowKeysDiffer(Recording[next])
    BY <1>1, <2>1, ConvertibleOta
  <2>3. /\ pending' \in Seq(LinesOf(next))
        /\ \A x \in Range(pending') : x \in RowsOf(next)
        /\ args.format = "sqlitedb" => Distinct(pending', SameKey(LinesOf(next)))
    BY <1>1, <2>1, <2>2, OtaLinesAre
  <2>4. Failure \notin Range(pending')
    BY <1>1, <2>1, <2>3, LineKinds
  <2>5. args.tool # "energy"
    BY <2>2
  <2> QED
    BY <2>1, <2>3, <2>4, <2>5, CInvRead
<1>10. CASE ReadEnergy
  <2>1. /\ phase = "reading" /\ pending = << >> /\ next \in Frames /\ next' = next + 1
        /\ Recording[next].type = "energy" /\ pending' = EnergyLines(Recording[next])
        /\ unset' = (unset /\ Recording[next].pov # Missing)
        /\ UNCHANGED <<args, phase, setUp, output>>
    BY <1>2, <1>10 DEF ReadEnergy, ReadFrame, ReadsNext
  <2>2. /\ args.tool = "energy"
        /\ Recording[next].pov # Missing => \E j \in 1 .. next - 1 : Recording[j].pov = Missing
        /\ \A k \in 1 .. Len(Recording[next].energies) : Recording[next].energies[k].bins > 0
        /\ args.format = "sqlitedb" => EnergyKeysDiffer(Recording[next])
    BY <1>1, <2>1, ConvertibleEnergy
  <2>3. ~AttitudeUnset(Recording[next])
    BY <1>3, <2>2 DEF AttitudeUnset, AttitudeRead
  <2>4. /\ pending' \in Seq(LinesOf(next))
        /\ \A x \in Range(pending') : x \in RowsOf(next) \cup HeadersOf(next)
        /\ args.format = "sqlitedb" => Distinct(pending', SameKey(LinesOf(next)))
        /\ setUp = Missing /\ pending' # << >> => pending'[1].kind = "header"
    BY <1>1, <2>1, <2>2, <2>3, EnergyLinesAre
  <2>5. Failure \notin Range(pending')
    BY <1>1, <2>1, <2>4, LineKinds
  <2>6. unset' => unset /\ Recording[next].pov # Missing
    BY <2>1
  <2> QED
    BY <2>1, <2>4, <2>5, <2>6, CInvRead
<1>11. CASE WriteHeader
  <2>1. /\ phase = "reading" /\ pending # << >> /\ Head(pending).kind = "header"
        /\ setUp' = Head(pending).bins
        /\ output' = Append(output, Head(pending)) /\ pending' = Tail(pending)
        /\ UNCHANGED <<args, phase, next, unset>>
    BY <1>11 DEF WriteHeader
  <2>2. TableFits'
    <3> SUFFICES ASSUME args.tool = "energy"
                 PROVE  /\ setUp' # Missing
                        /\ \A i \in Frames : \A k \in 1 .. Len(Recording[i].energies) :
                              Recording[i].energies[k].bins = setUp'
      BY <2>1 DEF TableFits, Recording, Frames
    <3> DEFINE h == Head(pending)
    <3>1. h \in PendingLines
      BY <2>1, HeadTailProperties DEF RInv, StateTypes
    <3>2. h.kind = "header" /\ setUp' = h.bins
      BY <2>1
    <3> HIDE DEF h
    <3>3. next # 1 /\ h \in LinesOf(next - 1)
      BY <3>1 DEF PendingLines
    <3>4. next - 1 \in Frames
      <4>1. next - 1 \in 1 .. next - 1
        BY <1>1, <3>3
      <4> QED
        BY <1>1, <4>1
    <3>5. h \in HeadersOf(next - 1) /\ h.bins \in Nat
      BY <1>1, <3>2, <3>3, <3>4, LineKinds DEF LinesOf
    <3>6. Recording[next - 1].type = "energy"
      BY <3>5 DEF HeadersOf
    <3>7. PICK k \in 1 .. Len(Recording[next - 1].energies) :
                 h = Header(Recording[next - 1].energies[k].bins)
      BY <3>5, <3>6 DEF HeadersOf
    <3>8. h.bins = Recording[next - 1].energies[k].bins
      BY <3>7 DEF Header
    <3> QED
      BY <1>1, <3>2, <3>4, <3>5, <3>6, <3>8, ConvertibleEnergy, MissingAssumption
  <2> QED
    BY <2>1, <2>2, CInvWrite
<1>12. CASE WriteRow
  <2>1. /\ phase = "reading" /\ pending # << >> /\ Head(pending).kind = "row"
        /\ output' = Append(output, Head(pending)) /\ pending' = Tail(pending)
        /\ UNCHANGED <<args, phase, next, unset, setUp>>
    BY <1>12 DEF WriteRow
  <2>2. Head(pending) = pending[1]
    BY <2>1 DEF RInv, StateTypes
  <2>3. args.tool = "energy" => setUp # Missing
    BY <1>3, <2>1, <2>2 DEF TableFits
  <2>4. TableFits'
    BY <1>3, <2>1, <2>3 DEF TableFits, Recording, Frames
  <2> QED
    BY <2>1, <2>4, CInvWrite
<1>13. CASE Fails
  BY <1>13, NoLineFails DEF Fails
<1>14. CASE Interrupted
  BY <1>4, <1>14 DEF Interrupted
<1>15. CASE UNCHANGED vars
  BY <1>3, <1>4, <1>15 DEF vars, NoFailure
<1> QED
  BY <1>5, <1>6, <1>7, <1>8, <1>9, <1>10, <1>11, <1>12, <1>13, <1>14, <1>15 DEF Next, ToolStep

(* A recording that the tools can convert is never given up: no frame of   *)
(* it leaves behind what makes the tools fail over a later one.            *)
THEOREM ConvertibleIsConverted == Spec => []ConvertsConvertible
<1>1. Spec => []CInv
  BY RecordingInvariant, CInvInit, CInvNext, PTL DEF Spec
<1>2. CInv => ConvertsConvertible
  BY DEF CInv, NoFailure, ConvertsConvertible
<1> QED
  BY <1>1, <1>2, PTL
===============================================================================
