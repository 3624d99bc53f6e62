------------------------- MODULE OtaReassemblyProofs -------------------------
(***************************************************************************)
(* What OTAExtractor records of the messages sent, for any messages, any   *)
(* size of their parts, every order in which these arrive, and whatever    *)
(* the timeout is.                                                         *)
(*                                                                         *)
(* First what one read takes out of a vector of parts (the loop of         *)
(* stringFromVectorIO, turn by turn), then what handleOTAMessage makes of  *)
(* a message's own bytes, then that an assembly that counts as complete    *)
(* has them, and last the invariant.                                       *)
(***************************************************************************)
EXTENDS OtaReassembly, NumberInduction, SequenceTheorems, FiniteSetTheorems

(* The sizes of a message, and where its fields are.                       *)
LEMMA MessageSizes ==
  ASSUME NEW m \in Messages
  PROVE  /\ m.events \in Nat /\ m.controls \in Nat /\ m.data \in Nat
         /\ m.phy \in Nat \ {0} /\ m.mac \in Nat \ {0}
         /\ m.data >= m.phy + m.mac + 4 /\ PrefixSize = 2
         /\ Size(m) \in Nat \ {0} /\ Size(m) = m.events + m.controls + m.data
         /\ PhyPrefixAt(m) \in Nat /\ PhyPrefixAt(m) = m.events + m.controls
         /\ MacPrefixAt(m) \in Nat /\ MacPrefixAt(m) = PhyPrefixAt(m) + 2 + m.phy
         /\ MacPrefixAt(m) + 2 + m.mac <= Size(m)
  BY MessagesAssumption DEF PrefixSize, Size, PhyPrefixAt, MacPrefixAt

-----------------------------------------------------------------------------
(* The bytes of a message between two places.                              *)
SentBytes(m) == [of : {m}, at : Int]

LEMMA BytesBetween ==
  ASSUME NEW m, NEW from \in Nat, NEW to \in Nat, from <= to
  PROVE  /\ Bytes(m, from, to) \in Seq(SentBytes(m))
         /\ Len(Bytes(m, from, to)) = to - from
         /\ \A i \in 1 .. to - from : Bytes(m, from, to)[i] = [of |-> m, at |-> from + i - 1]
<1> DEFINE n == to - from
<1>1. n \in Nat
  OBVIOUS
<1> HIDE DEF n
<1>2. Bytes(m, from, to) = [i \in 1 .. n |-> [of |-> m, at |-> from + i - 1]]
  BY DEF Bytes, n
<1> DEFINE s == Bytes(m, from, to)
<1> HIDE DEF s
<1>3. s \in [1 .. n -> SentBytes(m)] /\ \A i \in 1 .. n : s[i] = [of |-> m, at |-> from + i - 1]
  BY <1>1, <1>2 DEF SentBytes, s
<1>4. s \in Seq(SentBytes(m)) /\ Len(s) = n
  BY <1>1, <1>3
<1> QED
  BY <1>3, <1>4 DEF n, s

Taken(part, first, end) == SubSeq(part, first + 1, end)

LEMMA SubBytes ==
  ASSUME NEW m, NEW from \in Nat, NEW to \in Nat, NEW first \in Nat, NEW end \in Nat,
         first <= end, from + end <= to
  PROVE  Taken(Bytes(m, from, to), first, end) = Bytes(m, from + first, from + end)
<1> DEFINE S == SentBytes(m)
           s == Bytes(m, from, to)
           t == Bytes(m, from + first, from + end)
           sub == SubSeq(s, first + 1, end)
<1>1. /\ s \in Seq(S) /\ Len(s) = to - from
      /\ \A i \in 1 .. to - from : s[i] = [of |-> m, at |-> from + i - 1]
  <2>1. from <= to
    OBVIOUS
  <2> QED
    BY <2>1, BytesBetween
<1>2. /\ t \in Seq(S) /\ Len(t) = end - first
      /\ \A i \in 1 .. end - first : t[i] = [of |-> m, at |-> from + first + i - 1]
  <2> DEFINE a == from + first
             b == from + end
  <2>0. a \in Nat /\ b \in Nat /\ a <= b
    OBVIOUS
  <2>1. b - a = end - first
    OBVIOUS
  <2> HIDE DEF a, b
  <2>2. /\ Bytes(m, a, b) \in Seq(S) /\ Len(Bytes(m, a, b)) = b - a
        /\ \A i \in 1 .. b - a : Bytes(m, a, b)[i] = [of |-> m, at |-> a + i - 1]
    BY <2>0, BytesBetween
  <2>3. t = Bytes(m, a, b)
    BY DEF a, b
  <2> HIDE DEF t, S
  <2>4. \A i \in 1 .. end - first : t[i] = [of |-> m, at |-> a + i - 1]
    BY <2>1, <2>2, <2>3
  <2> QED
    BY <2>1, <2>2, <2>3, <2>4 DEF a
<1> HIDE DEF s, t, S
<1>3. \A i \in first + 1 .. end : s[i] \in S
  <2> TAKE i \in first + 1 .. end
  <2>1. i \in 1 .. Len(s)
    BY <1>1
  <2> QED
    BY <1>1, <2>1, ElementOfSeq
<1>4. /\ sub \in Seq(S)
      /\ Len(sub) = end - first
      /\ \A i \in 1 .. end - first : sub[i] = s[first + 1 + i - 1]
  <2>1. first + 1 \in Int /\ end \in Int
    OBVIOUS
  <2>2. /\ sub \in Seq(S)
        /\ Len(sub) = IF first + 1 <= end THEN end - (first + 1) + 1 ELSE 0
        /\ \A i \in 1 .. end - (first + 1) + 1 : sub[i] = s[first + 1 + i - 1]
    BY <1>3, <2>1, SubSeqProperties
  <2>3. end - (first + 1) + 1 = end - first
    OBVIOUS
  <2> HIDE DEF sub
  <2> QED
    BY <2>2, <2>3
<1> HIDE DEF sub
<1>5. ASSUME NEW i \in 1 .. end - first PROVE sub[i] = t[i]
  <2>1. first + 1 + i - 1 \in 1 .. to - from /\ from + (first + 1 + i - 1) - 1 = from + first + i - 1
    OBVIOUS
  <2> QED
    BY <1>1, <1>2, <1>4, <2>1
<1>6. sub = t
  BY <1>2, <1>4, <1>5, SeqEqual
<1> QED
  BY <1>6 DEF sub, s, t, Taken

LEMMA JoinBytes ==
  ASSUME NEW m, NEW a \in Nat, NEW b \in Nat, NEW c \in Nat, a <= b, b <= c
  PROVE  Bytes(m, a, b) \o Bytes(m, b, c) = Bytes(m, a, c)
<1> DEFINE S == SentBytes(m)
           s == Bytes(m, a, b)
           t == Bytes(m, b, c)
           u == Bytes(m, a, c)
<1>1. /\ s \in Seq(S) /\ Len(s) = b - a
      /\ \A i \in 1 .. b - a : s[i] = [of |-> m, at |-> a + i - 1]
  BY BytesBetween
<1>2. /\ t \in Seq(S) /\ Len(t) = c - b
      /\ \A i \in 1 .. c - b : t[i] = [of |-> m, at |-> b + i - 1]
  BY BytesBetween
<1>3. /\ u \in Seq(S) /\ Len(u) = c - a
      /\ \A i \in 1 .. c - a : u[i] = [of |-> m, at |-> a + i - 1]
  <2>1. a <= c
    OBVIOUS
  <2> QED
    BY <2>1, BytesBetween
<1> HIDE DEF s, t, u, S
<1>4. /\ s \o t \in Seq(S) /\ Len(s \o t) = c - a
      /\ \A i \in 1 .. c - a : (s \o t)[i] = IF i <= b - a THEN s[i] ELSE t[i - (b - a)]
  <2>1. /\ s \o t \in Seq(S) /\ Len(s \o t) = Len(s) + Len(t)
        /\ \A i \in 1 .. Len(s) + Len(t) :
              (s \o t)[i] = IF i <= Len(s) THEN s[i] ELSE t[i - Len(s)]
    BY <1>1, <1>2, ConcatProperties
  <2>2. Len(s) + Len(t) = c - a
    BY <1>1, <1>2
  <2> QED
    BY <1>1, <2>1, <2>2
<1>5. ASSUME NEW i \in 1 .. c - a PROVE (s \o t)[i] = u[i]
  <2>1. CASE i <= b - a
    <3>1. i \in 1 .. b - a
      BY <2>1
    <3>2. (s \o t)[i] = s[i]
      BY <1>4, <2>1
    <3> QED
      BY <1>1, <1>3, <3>1, <3>2
  <2>2. CASE ~(i <= b - a)
    <3> DEFINE j == i - (b - a)
    <3>1. j \in 1 .. c - b /\ b + j - 1 = a + i - 1
      BY <2>2
    <3>2. (s \o t)[i] = t[j]
      BY <1>4, <2>2
    <3> HIDE DEF j
    <3> QED
      BY <1>2, <1>3, <3>1, <3>2
  <2> QED
    BY <2>1, <2>2
<1>6. s \o t = u
  <2> DEFINE st == s \o t
  <2>1. st \in Seq(S) /\ Len(st) = Len(u) /\ \A i \in 1 .. Len(st) : st[i] = u[i]
    BY <1>3, <1>4, <1>5
  <2> HIDE DEF st
  <2>2. st = u
    BY <1>3, <2>1, SeqEqual
  <2> QED
    BY <2>2 DEF st
<1> QED
  BY <1>6 DEF s, t, u
-----------------------------------------------------------------------------
(* The loop of stringFromVectorIO: what holds before its first turn and is *)
(* kept by each of the others holds after it.                              *)
FirstTurn(cursor, size) == [cursor EXCEPT !.text = << >>, !.target = size]

LEMMA LoopTurns ==
  ASSUME NEW vector, Len(vector) \in Nat, NEW cursor, NEW size, NEW S,
         <<0, FirstTurn(cursor, size)>> \in S,
         \A turn \in 0 .. Len(vector) : \A x :
            <<turn, x>> \in S => <<turn + 1, ReadOn(vector, x)>> \in S
  PROVE  <<Len(vector) + 1, StringFromVectorIO(vector, cursor, size)>> \in S
<1> DEFINE n == Len(vector) + 1
           first == FirstTurn(cursor, size)
           IsLoop(f, k) ==
             f = [turn \in 0 .. k |-> IF turn = 0 THEN first ELSE ReadOn(vector, f[turn - 1])]
           loop == CHOOSE f : IsLoop(f, n)
           Looping == {k \in 0 .. n : \E f : IsLoop(f, k)}
           Kept == {k \in 0 .. n : <<k, loop[k]>> \in S}
<1>0. n \in Nat /\ n = Len(vector) + 1 /\ <<0, first>> \in S
  OBVIOUS
<1>1. StringFromVectorIO(vector, cursor, size) = loop[n]
  BY DEF StringFromVectorIO, FirstTurn
<1> HIDE DEF n, first
<1>2. 0 \in Looping
  <2> DEFINE f == [turn \in 0 .. 0 |-> first]
  <2>1. \A turn \in 0 .. 0 : turn = 0
    OBVIOUS
  <2>2. IsLoop(f, 0)
    BY <2>1
  <2>3. \E g : IsLoop(g, 0)
    BY <2>2
  <2>4. 0 \in 0 .. n
    BY <1>0
  <2> HIDE DEF IsLoop
  <2> QED
    BY <2>3, <2>4
<1>3. ASSUME NEW k \in 0 .. n - 1, k \in Looping PROVE k + 1 \in Looping
  <2>1. PICK f : IsLoop(f, k)
    BY <1>3
  <2> DEFINE g == [turn \in 0 .. k + 1 |-> IF turn <= k THEN f[turn] ELSE ReadOn(vector, f[k])]
  <2>2. ASSUME NEW turn \in 0 .. k + 1
        PROVE  g[turn] = IF turn = 0 THEN first ELSE ReadOn(vector, g[turn - 1])
    <3>1. CASE turn = 0
      BY <2>1, <3>1
    <3>2. CASE turn # 0 /\ turn <= k
      <4>1. g[turn] = f[turn] /\ g[turn - 1] = f[turn - 1]
        BY <3>2
      <4>2. f[turn] = ReadOn(vector, f[turn - 1])
        BY <2>1, <3>2
      <4> QED
        BY <3>2, <4>1, <4>2
    <3>3. CASE turn = k + 1
      <4>1. g[turn] = ReadOn(vector, f[k]) /\ g[turn - 1] = f[k] /\ turn # 0
        BY <3>3
      <4> QED
        BY <4>1
    <3> QED
      BY <3>1, <3>2, <3>3
  <2>3. g = [turn \in 0 .. k + 1 |-> g[turn]]
    OBVIOUS
  <2> HIDE DEF g
  <2>4. IsLoop(g, k + 1)
    BY <2>2, <2>3
  <2> QED
    BY <1>0, <2>4
<1>4. n \in Looping
  <2>1. \A k \in 0 .. n - 1 : k \in Looping => k + 1 \in Looping
    BY <1>3
  <2> HIDE DEF Looping
  <2>2. \A k \in 0 .. n : k \in Looping
    BY <1>0, <1>2, <2>1, InductionUpTo
  <2> QED
    BY <1>0, <2>2
<1>5. IsLoop(loop, n)
  <2>1. \E f : IsLoop(f, n)
    BY <1>4
  <2> HIDE DEF IsLoop
  <2> QED
    BY <2>1
<1> HIDE DEF loop
<1>6. \A k \in 0 .. n - 1 : k \in Kept => k + 1 \in Kept
  <2> SUFFICES ASSUME NEW k \in 0 .. n - 1, k \in Kept PROVE k + 1 \in Kept
    OBVIOUS
  <2>1. loop[k + 1] = ReadOn(vector, loop[k])
    BY <1>0, <1>5
  <2>2. k \in 0 .. Len(vector) /\ <<k, loop[k]>> \in S
    BY <1>0
  <2>3. <<k + 1, ReadOn(vector, loop[k])>> \in S
    BY <2>2
  <2> QED
    BY <1>0, <2>1, <2>3
<1>7. 0 \in Kept
  BY <1>0, <1>5
<1>8. n \in Kept
  <2> HIDE DEF Kept
  <2>1. \A k \in 0 .. n : k \in Kept
    BY <1>0, <1>6, <1>7, InductionUpTo
  <2> QED
    BY <1>0, <2>1
<1> QED
  BY <1>0, <1>1, <1>8

(* A cursor, and where it may be.                                          *)
Statuses == {"ok", "hang", "overrun", "garbled"}
Cursors(B) == [status : Statuses, index : Nat, offset : Nat, text : Seq(B), target : Int]

Within(vector, cursor) ==
  /\ cursor.index \in 1 .. Len(vector) + 1
  /\ cursor.index <= Len(vector) => cursor.offset <= Len(vector[cursor.index])

(* A read that does not end well ends all that follow it.                  *)
LEMMA ReadsNothing ==
  ASSUME NEW B, NEW vector, Len(vector) \in Nat, NEW cursor \in Cursors(B), cursor.status # "ok",
         NEW size
  PROVE  StringFromVectorIO(vector, cursor, size).status = cursor.status
<1> DEFINE first == FirstTurn(cursor, size)
           S == {<<turn, first>> : turn \in Nat}
<1>1. first.status # "ok" /\ first.status = cursor.status
  BY DEF FirstTurn, Cursors
<1> HIDE DEF first
<1>2. ReadOn(vector, first) = first
  BY <1>1 DEF ReadOn
<1>3. <<0, first>> \in S
  OBVIOUS
<1>4. \A turn \in 0 .. Len(vector) : \A x :
         <<turn, x>> \in S => <<turn + 1, ReadOn(vector, x)>> \in S
  BY <1>2
<1>5. <<Len(vector) + 1, StringFromVectorIO(vector, cursor, size)>> \in S
  <2> HIDE DEF S
  <2> QED
    BY <1>3, <1>4, LoopTurns DEF first
<1> QED
  BY <1>1, <1>5
(* One turn, of a loop that can go on: it takes what the part has, or as   *)
(* much of it as is still wanted.                                          *)
Takes(vector, x, y, to) ==
  LET part == vector[x.index]
  IN  /\ x.index \in 1 .. Len(vector) /\ to \in x.offset + 1 .. Len(part)
      /\ y.status = "ok" /\ y.text = x.text \o SubSeq(part, x.offset + 1, to)
      /\ y.target \in Nat /\ y.target = x.target - (to - x.offset)
      /\ \/ y.target = 0 /\ y.index = x.index /\ y.offset = to
         \/ y.target # 0 /\ to = Len(part) /\ y.index = x.index + 1 /\ y.offset = 0

LEMMA TurnTakes ==
  ASSUME NEW B, NEW vector \in Seq(Seq(B)), NEW x \in Cursors(B), Within(vector, x),
         x.status = "ok", x.target \in Nat \ {0}
  PROVE  LET y == ReadOn(vector, x)
         IN  \/ x.index > Len(vector) /\ y = [x EXCEPT !.status = "overrun"]
             \/ y = [x EXCEPT !.status = "hang"]
             \/ \E to : Takes(vector, x, y, to)
<1> DEFINE y == ReadOn(vector, x)
           part == vector[x.index]
           rest == Len(part) - x.offset
<1>1. Len(vector) \in Nat /\ x.index \in Nat /\ x.offset \in Nat
  BY LenProperties DEF Cursors
<1>2. x.index \in 1 .. Len(vector) + 1
  BY DEF Within
<1>3. x.index <= Len(vector) =>
         /\ x.index \in 1 .. Len(vector) /\ Len(part) \in Nat /\ rest \in Nat
         /\ Len(part) = x.offset + rest
  <2> SUFFICES ASSUME x.index <= Len(vector)
               PROVE  /\ x.index \in 1 .. Len(vector) /\ Len(part) \in Nat /\ rest \in Nat
                      /\ Len(part) = x.offset + rest
    OBVIOUS
  <2>1. x.index \in 1 .. Len(vector)
    BY <1>1, <1>2
  <2>2. part \in Seq(B)
    BY <2>1, ElementOfSeq
  <2>3. Len(part) \in Nat /\ x.offset <= Len(part)
    BY <2>1, <2>2, LenProperties DEF Within
  <2> QED
    BY <1>1, <2>1, <2>3
<1>4. DOMAIN x = {"status", "index", "offset", "text", "target"}
  BY DEF Cursors
<1>5. CASE x.index > Len(vector)
  BY <1>1, <1>5 DEF ReadOn
<1>6. CASE x.index <= Len(vector) /\ rest = 0
  BY <1>1, <1>3, <1>6 DEF ReadOn
<1>7. CASE x.index <= Len(vector) /\ rest # 0
  <2> DEFINE all == rest >= x.target
             to == IF all THEN x.offset + x.target ELSE Len(part)
  <2>1. ReadOn(vector, x) =
          IF all THEN [x EXCEPT !.text = @ \o SubSeq(part, x.offset + 1, x.offset + x.target),
                                !.offset = x.offset + x.target, !.target = 0]
          ELSE [x EXCEPT !.text = @ \o SubSeq(part, x.offset + 1, Len(part)),
                         !.index = @ + 1, !.offset = 0, !.target = @ - rest]
    BY <1>1, <1>3, <1>7 DEF ReadOn
  <2>2. y.status = "ok" /\ y.text = x.text \o SubSeq(part, x.offset + 1, to)
    BY <1>4, <2>1
  <2>3. /\ y.target = IF all THEN 0 ELSE x.target - rest
        /\ y.index = IF all THEN x.index ELSE x.index + 1
        /\ y.offset = IF all THEN to ELSE 0
    BY <1>4, <2>1
  <2> DEFINE taken == SubSeq(part, x.offset + 1, to)
  <2>4. y.text = x.text \o taken
    BY <2>2
  <2> HIDE DEF y, taken
  <2>5. to \in x.offset + 1 .. Len(part) /\ (~all => to = Len(part))
    BY <1>1, <1>3, <1>7
  <2>6. y.target \in Nat /\ y.target = x.target - (to - x.offset) /\ (all <=> y.target = 0)
    BY <1>1, <1>3, <1>7, <2>3
  <2> HIDE DEF to, all, rest, part
  <2>7. Takes(vector, x, y, to)
    BY <1>3, <1>7, <2>2, <2>3, <2>5, <2>6, Zenon DEF Takes, taken, part
  <2> QED
    BY <2>7, Zenon DEF y
<1>8. \/ x.index > Len(vector)
      \/ x.index <= Len(vector) /\ rest = 0
      \/ x.index <= Len(vector) /\ rest # 0
  BY <1>1
<1> QED
  BY <1>5, <1>6, <1>7, <1>8, Zenon

LEMMA BytesTaken ==
  ASSUME NEW B, NEW part \in Seq(B), NEW from \in Nat, NEW to \in Nat,
         from <= to, to <= Len(part)
  PROVE  /\ SubSeq(part, from + 1, to) \in Seq(B)
         /\ Len(SubSeq(part, from + 1, to)) = to - from
<1>1. \A i \in from + 1 .. to : part[i] \in B
  <2> TAKE i \in from + 1 .. to
  <2>1. i \in 1 .. Len(part)
    BY LenProperties
  <2> QED
    BY <2>1, ElementOfSeq
<1>2. from + 1 \in Int /\ to \in Int
  OBVIOUS
<1>3. /\ SubSeq(part, from + 1, to) \in Seq(B)
      /\ Len(SubSeq(part, from + 1, to)) = IF from + 1 <= to THEN to - (from + 1) + 1 ELSE 0
  BY <1>1, <1>2, SubSeqProperties
<1> QED
  BY <1>3

(* So a turn leaves the cursor where it may be, and what it takes is no    *)
(* longer wanted.                                                          *)
LEMMA TurnKeeps ==
  ASSUME NEW B, NEW vector \in Seq(Seq(B)), NEW x \in Cursors(B), Within(vector, x),
         x.target \in Nat
  PROVE  LET y == ReadOn(vector, x)
         IN  /\ y \in Cursors(B) /\ Within(vector, y) /\ y.target \in Nat
             /\ Len(y.text) + y.target = Len(x.text) + x.target
             /\ y.target = 0 \/ y.status # "ok" \/ y.index = x.index + 1
<1> DEFINE n == Len(vector)
           y == ReadOn(vector, x)
           part == vector[x.index]
<1>0. n \in Nat
  BY LenProperties
<1>1. /\ x.index \in Nat /\ x.offset \in Nat /\ x.text \in Seq(B) /\ Len(x.text) \in Nat
  BY LenProperties DEF Cursors
<1>2. CASE x.status # "ok" \/ x.target = 0
  <2>1. y = x
    BY <1>2 DEF ReadOn
  <2> HIDE DEF y
  <2> QED
    BY <1>1, <1>2, <2>1 DEF y
<1>3. CASE x.status = "ok" /\ x.target # 0
  <2>1. \/ x.index > n /\ y = [x EXCEPT !.status = "overrun"]
        \/ y = [x EXCEPT !.status = "hang"]
        \/ \E to : Takes(vector, x, y, to)
    BY <1>3, TurnTakes
  <2>2. y \in Cursors(B) <=> /\ y.status \in Statuses /\ y.index \in Nat /\ y.offset \in Nat
                             /\ y.text \in Seq(B) /\ y.target \in Int
    BY DEF ReadOn, Cursors
  <2> HIDE DEF y
  <2> DEFINE Goal == /\ y \in Cursors(B) /\ Within(vector, y) /\ y.target \in Nat
                     /\ Len(y.text) + y.target = Len(x.text) + x.target
                     /\ y.target = 0 \/ y.status # "ok" \/ y.index = x.index + 1
  <2>3. ASSUME y = [x EXCEPT !.status = "overrun"] PROVE Goal
    BY <1>1, <2>3 DEF Cursors, Statuses, Within
  <2>4. ASSUME y = [x EXCEPT !.status = "hang"] PROVE Goal
    BY <1>1, <2>4 DEF Cursors, Statuses, Within
  <2>5. ASSUME NEW to, Takes(vector, x, y, to) PROVE Goal
    <3>0. /\ x.index \in 1 .. n /\ to \in x.offset + 1 .. Len(part)
          /\ y.status = "ok" /\ y.text = x.text \o SubSeq(part, x.offset + 1, to)
          /\ y.target \in Nat /\ y.target = x.target - (to - x.offset)
          /\ \/ y.target = 0 /\ y.index = x.index /\ y.offset = to
             \/ y.target # 0 /\ to = Len(part) /\ y.index = x.index + 1 /\ y.offset = 0
      BY <2>5, Zenon DEF Takes
    <3> DEFINE taken == SubSeq(part, x.offset + 1, to)
    <3>1. part \in Seq(B) /\ Len(part) \in Nat
      BY <3>0, ElementOfSeq, LenProperties
    <3>2. to \in Nat /\ x.offset <= to /\ to <= Len(part)
      BY <1>1, <3>0, <3>1
    <3>3. taken \in Seq(B) /\ Len(taken) = to - x.offset
      <4> DEFINE from == x.offset
      <4>1. part \in Seq(B) /\ from \in Nat /\ to \in Nat /\ from <= to /\ to <= Len(part)
        BY <1>1, <3>1, <3>2
      <4> HIDE DEF part, from
      <4>2. SubSeq(part, from + 1, to) \in Seq(B) /\ Len(SubSeq(part, from + 1, to)) = to - from
        BY <4>1, BytesTaken
      <4> QED
        BY <4>2 DEF from
    <3>4. y.text = x.text \o taken
      BY <3>0
    <3> HIDE DEF taken
    <3>5. y.text \in Seq(B) /\ Len(y.text) = Len(x.text) + (to - x.offset)
      <4>1. x.text \in Seq(B) /\ taken \in Seq(B)
        BY <1>1, <3>3
      <4>2. x.text \o taken \in Seq(B) /\ Len(x.text \o taken) = Len(x.text) + Len(taken)
        BY <4>1, ConcatProperties
      <4> QED
        BY <3>3, <3>4, <4>2
    <3>6. y.index \in Nat /\ y.offset \in Nat
      <4>1. y.index = x.index \/ y.index = x.index + 1
        BY <3>0
      <4>2. y.offset = to \/ y.offset = 0
        BY <3>0
      <4> QED
        BY <1>1, <3>2, <4>1, <4>2
    <3>7. y \in Cursors(B)
      BY <2>2, <3>0, <3>5, <3>6 DEF Statuses
    <3>8. Within(vector, y)
      <4>1. y.index \in 1 .. n + 1
        BY <1>0, <3>0
      <4>2. CASE y.index = x.index /\ y.offset = to
        BY <3>2, <4>1, <4>2 DEF Within
      <4>3. CASE y.offset = 0
        <5>1. ASSUME y.index <= n PROVE Len(vector[y.index]) \in Nat
          <6>1. y.index \in 1 .. n
            BY <1>0, <4>1, <5>1
          <6> QED
            BY <6>1, ElementOfSeq, LenProperties
        <5> QED
          BY <4>1, <4>3, <5>1 DEF Within
      <4> QED
        BY <3>0, <4>2, <4>3
    <3>9. Len(y.text) + y.target = Len(x.text) + x.target
      <4>1. Len(y.text) = Len(x.text) + (to - x.offset) /\ y.target = x.target - (to - x.offset)
        BY <3>0, <3>5
      <4> QED
        BY <1>1, <3>2, <4>1
    <3> QED
      BY <3>0, <3>7, <3>8, <3>9
  <2>6. Goal
    <3> HIDE DEF Goal
    <3> QED
      BY <2>1, <2>3, <2>4, <2>5
  <2> QED
    BY <2>6 DEF y
<1> QED
  BY <1>2, <1>3

(* Before the first turn.                                                  *)
LEMMA FirstTurnStarts ==
  ASSUME NEW B, NEW vector \in Seq(Seq(B)), NEW cursor \in Cursors(B), Within(vector, cursor),
         NEW size \in Nat
  PROVE  LET x == FirstTurn(cursor, size)
         IN  /\ x \in Cursors(B) /\ Within(vector, x)
             /\ x.status = cursor.status /\ x.index = cursor.index /\ x.offset = cursor.offset
             /\ x.text = << >> /\ x.target = size
<1> DEFINE x == FirstTurn(cursor, size)
<1>1. DOMAIN cursor = {"status", "index", "offset", "text", "target"}
  BY DEF Cursors
<1>2. /\ x.status = cursor.status /\ x.index = cursor.index /\ x.offset = cursor.offset
      /\ x.text = << >> /\ x.target = size
  BY <1>1 DEF FirstTurn
<1>3. << >> \in Seq(B)
  BY EmptySeq
<1>4. x \in Cursors(B) <=> /\ x.status \in Statuses /\ x.index \in Nat /\ x.offset \in Nat
                           /\ x.text \in Seq(B) /\ x.target \in Int
  BY DEF FirstTurn, Cursors
<1>5. cursor.status \in Statuses /\ cursor.index \in Nat /\ cursor.offset \in Nat
  BY DEF Cursors
<1> HIDE DEF x
<1>6. x \in Cursors(B)
  BY <1>2, <1>3, <1>4, <1>5
<1>7. Within(vector, x)
  BY <1>2 DEF Within
<1> QED
  BY <1>2, <1>6, <1>7 DEF x

(* A read leaves the cursor where it may be, and has as many bytes as it   *)
(* was asked for if it ends well.                                          *)
LEMMA ReadsBytes ==
  ASSUME NEW B, NEW vector \in Seq(Seq(B)), NEW cursor \in Cursors(B), Within(vector, cursor),
         NEW size \in Nat
  PROVE  LET r == StringFromVectorIO(vector, cursor, size)
         IN  r \in Cursors(B) /\ Within(vector, r) /\ (r.status = "ok" => Len(r.text) = size)
<1> DEFINE n == Len(vector)
           Going(turn, x) ==
             /\ x \in Cursors(B) /\ Within(vector, x) /\ x.target \in Nat
             /\ Len(x.text) + x.target = size
             /\ x.target = 0 \/ x.status # "ok" \/ x.index >= turn + 1
           S == {pair \in Nat \X Cursors(B) : Going(pair[1], pair[2])}
<1>0. n \in Nat
  BY LenProperties
<1>1. <<0, FirstTurn(cursor, size)>> \in S
  <2> DEFINE x == FirstTurn(cursor, size)
  <2>1. /\ x \in Cursors(B) /\ Within(vector, x) /\ x.text = << >> /\ x.target = size
    BY FirstTurnStarts
  <2> HIDE DEF x
  <2>2. Len(x.text) = 0
    BY <2>1
  <2>3. Going(0, x)
    BY <1>0, <2>1, <2>2 DEF Within
  <2> QED
    BY <2>1, <2>3 DEF x
<1>2. ASSUME NEW turn \in 0 .. n, NEW x, <<turn, x>> \in S
      PROVE  <<turn + 1, ReadOn(vector, x)>> \in S
  <2> DEFINE y == ReadOn(vector, x)
  <2>1. x \in Cursors(B) /\ Going(turn, x)
    BY <1>2
  <2>2. /\ y \in Cursors(B) /\ Within(vector, y) /\ y.target \in Nat
        /\ Len(y.text) + y.target = Len(x.text) + x.target
        /\ y.target = 0 \/ y.status # "ok" \/ y.index = x.index + 1
    BY <2>1, TurnKeeps
  <2>3. x.status # "ok" \/ x.target = 0 => y = x
    BY DEF ReadOn
  <2> HIDE DEF y
  <2>4. y.target = 0 \/ y.status # "ok" \/ y.index >= turn + 1 + 1
    <3>1. x.index \in Nat
      BY <2>1 DEF Cursors
    <3> QED
      BY <1>0, <2>1, <2>2, <2>3, <3>1
  <2>5. turn + 1 \in Nat /\ Going(turn + 1, y)
    BY <1>0, <2>1, <2>2, <2>4
  <2> QED
    BY <2>2, <2>5 DEF y
<1>3. <<n + 1, StringFromVectorIO(vector, cursor, size)>> \in S
  <2> HIDE DEF S
  <2> QED
    BY <1>0, <1>1, <1>2, LoopTurns
<1> DEFINE r == StringFromVectorIO(vector, cursor, size)
<1> HIDE DEF r
<1>4. Going(n + 1, r)
  BY <1>3 DEF r
<1>5. r.status = "ok" => Len(r.text) = size
  <2>1. r.index <= n + 1 /\ Len(r.text) \in Nat /\ r.index \in Nat
    BY <1>0, <1>4, LenProperties DEF Within, Cursors
  <2> QED
    BY <1>0, <1>4, <2>1
<1> QED
  BY <1>4, <1>5 DEF r

-----------------------------------------------------------------------------
(* A vector of parts that are a whole message, cut at the places c.        *)
IsCut(vector, m, c) ==
  /\ vector \in Seq(Seq(SentBytes(m))) /\ Len(vector) \in Nat \ {0}
  /\ c \in [1 .. Len(vector) + 1 -> Nat]
  /\ c[1] = 0 /\ c[Len(vector) + 1] = Size(m)
  /\ \A i \in 1 .. Len(vector) : c[i] < c[i + 1] /\ vector[i] = Bytes(m, c[i], c[i + 1])

(* A cursor that stands behind the first p bytes of it.                    *)
StandsAt(vector, m, c, cursor, p) ==
  /\ cursor \in Cursors(SentBytes(m)) /\ Within(vector, cursor)
  /\ cursor.status = "ok" /\ cursor.index \in 1 .. Len(vector)
  /\ c[cursor.index] + cursor.offset = p

(* A read there finds the message's bytes, if it returns.                  *)
LEMMA ReadsMessage ==
  ASSUME NEW m \in Messages, NEW vector, NEW c, IsCut(vector, m, c), NEW cursor, NEW p \in Nat,
         StandsAt(vector, m, c, cursor, p), NEW size \in Nat, p + size <= Size(m)
  PROVE  LET r == StringFromVectorIO(vector, cursor, size)
         IN  \/ r \in Cursors(SentBytes(m)) /\ r.status = "hang"
             \/ StandsAt(vector, m, c, r, p + size) /\ r.text = Bytes(m, p, p + size)
<1> DEFINE n == Len(vector)
           B == SentBytes(m)
           end == p + size
           Reading(turn, x) ==
             /\ x \in Cursors(B) /\ Within(vector, x) /\ x.target \in 0 .. size
             /\ \/ x.status = "hang"
                \/ /\ x.status = "ok" /\ x.index \in 1 .. n
                   /\ c[x.index] + x.offset = end - x.target
                   /\ x.text = Bytes(m, p, end - x.target)
                   /\ x.target = 0 \/ x.index >= turn + 1
           S == {pair \in Nat \X Cursors(B) : Reading(pair[1], pair[2])}
<1>0. /\ n \in Nat \ {0} /\ vector \in Seq(Seq(B)) /\ end \in Nat
      /\ c[n + 1] = Size(m) /\ Size(m) \in Nat
  BY MessageSizes DEF IsCut
<1>c. ASSUME NEW i \in 1 .. n
      PROVE  /\ c[i] \in Nat /\ c[i + 1] \in Nat /\ c[i] < c[i + 1]
             /\ vector[i] = Bytes(m, c[i], c[i + 1])
  <2>1. i \in 1 .. n + 1 /\ i + 1 \in 1 .. n + 1
    BY <1>0
  <2> QED
    BY <2>1 DEF IsCut
<1>1. <<0, FirstTurn(cursor, size)>> \in S
  <2> DEFINE x == FirstTurn(cursor, size)
  <2>1. /\ x \in Cursors(B) /\ Within(vector, x) /\ x.text = << >> /\ x.target = size
        /\ x.status = cursor.status /\ x.index = cursor.index /\ x.offset = cursor.offset
    <3>1. cursor \in Cursors(B) /\ Within(vector, cursor)
      BY DEF StandsAt
    <3>2. vector \in Seq(Seq(B))
      BY <1>0
    <3> HIDE DEF B
    <3> QED
      BY <3>1, <3>2, FirstTurnStarts
  <2>2. << >> = Bytes(m, p, p)
    <3>1. Bytes(m, p, p) \in Seq(B) /\ Len(Bytes(m, p, p)) = 0
      <4>1. p <= p /\ p - p = 0
        OBVIOUS
      <4> QED
        BY <4>1, BytesBetween
    <3> QED
      BY <3>1, EmptySeq
  <2> HIDE DEF x
  <2>3. end - size = p
    OBVIOUS
  <2>4. Reading(0, x)
    BY <2>1, <2>2, <2>3 DEF StandsAt
  <2> QED
    BY <2>1, <2>4 DEF x
<1>2. ASSUME NEW turn \in 0 .. n, NEW x, <<turn, x>> \in S
      PROVE  <<turn + 1, ReadOn(vector, x)>> \in S
  <2> DEFINE y == ReadOn(vector, x)
  <2>1. x \in Cursors(B) /\ Reading(turn, x)
    BY <1>2
  <2>2. y \in Cursors(B) /\ Within(vector, y) /\ y.target \in Nat
    BY <1>0, <2>1, TurnKeeps
  <2>3. Reading(turn + 1, y)
    <3>1. CASE x.status # "ok" \/ x.target = 0
      <4>1. y = x
        BY <3>1 DEF ReadOn
      <4> HIDE DEF y
      <4> QED
        BY <2>1, <3>1, <4>1
    <3>2. CASE x.status = "ok" /\ x.target # 0
      <4> DEFINE i == x.index
                 from == c[i]
                 to == c[i + 1]
                 o == x.offset
                 q == end - x.target
      <4>1. /\ i \in 1 .. n /\ i >= turn + 1 /\ x.text = Bytes(m, p, q)
            /\ from + o = q /\ o \in Nat /\ x.target \in 1 .. size
        BY <2>1, <3>2 DEF Cursors
      <4>2. /\ from \in Nat /\ to \in Nat /\ from < to /\ vector[i] = Bytes(m, from, to)
        BY <1>c, <4>1
      <4>3. Len(vector[i]) = to - from
        <5>1. from \in Nat /\ to \in Nat /\ from <= to
          BY <4>2
        <5> HIDE DEF from, to, i
        <5>2. Len(Bytes(m, from, to)) = to - from
          BY <5>1, BytesBetween
        <5> QED
          BY <4>2, <5>2
      <4>4. \/ i > n /\ y = [x EXCEPT !.status = "overrun"]
            \/ y = [x EXCEPT !.status = "hang"]
            \/ \E e : Takes(vector, x, y, e)
        <5>1. x \in Cursors(B) /\ Within(vector, x) /\ x.target \in Nat \ {0} /\ x.status = "ok"
          BY <2>1, <3>2, <4>1
        <5> HIDE DEF B
        <5> QED
          BY <1>0, <5>1, TurnTakes
      <4> HIDE DEF y
      <4>5. CASE y = [x EXCEPT !.status = "hang"]
        <5>1. y.status = "hang" /\ y.target = x.target
          BY <2>1, <4>5 DEF Cursors
        <5> QED
          BY <2>1, <2>2, <5>1
      <4>6. ASSUME NEW e, Takes(vector, x, y, e) PROVE Reading(turn + 1, y)
        <5> DEFINE next == from + e
        <5>0. /\ e \in o + 1 .. Len(vector[i])
              /\ y.status = "ok" /\ y.text = x.text \o SubSeq(vector[i], o + 1, e)
              /\ y.target \in Nat /\ y.target = x.target - (e - o)
              /\ \/ y.target = 0 /\ y.index = i /\ y.offset = e
                 \/ y.target # 0 /\ e = Len(vector[i]) /\ y.index = i + 1 /\ y.offset = 0
          BY <4>6, Zenon DEF Takes
        <5>a. y.target = x.target - (e - o) /\ y.target \in Nat /\ e \in o + 1 .. to - from
          BY <4>3, <5>0
        <5>b. q = end - x.target /\ end = p + size
          OBVIOUS
        <5> HIDE DEF from, to, o, q, i, end
        <5> DEFINE wanted == x.target
                   left == y.target
        <5>1. /\ e \in Nat /\ next \in Nat /\ q \in Nat /\ p <= q /\ q <= next /\ next <= to
              /\ from <= q /\ q - from = o /\ next - from = e
              /\ next = end - left /\ left \in 0 .. size
          <6>1. /\ from + o = q /\ o \in Nat /\ from \in Nat /\ to \in Nat /\ wanted \in 1 .. size
                /\ q = end - wanted /\ end = p + size
                /\ left = wanted - (e - o) /\ left \in Nat /\ e \in o + 1 .. to - from
            BY <4>1, <4>2, <5>a, <5>b
          <6> HIDE DEF wanted, left
          <6> QED
            BY <6>1
        <5> HIDE DEF next
        <5>2. SubSeq(vector[i], o + 1, e) = Bytes(m, q, next)
          <6>1. Taken(Bytes(m, from, to), o, e) = Bytes(m, from + o, from + e)
            <7>1. /\ from \in Nat /\ to \in Nat /\ o \in Nat /\ e \in Nat
                  /\ o <= e /\ from + e <= to
              BY <4>1, <4>2, <5>0, <5>1
            <7> QED
              BY <7>1, SubBytes
          <6>2. from + o = q /\ from + e = next
            BY <4>1 DEF next
          <6> QED
            BY <4>2, <6>1, <6>2 DEF Taken
        <5>3. y.text = Bytes(m, p, next)
          <6>1. Bytes(m, p, q) \o Bytes(m, q, next) = Bytes(m, p, next)
            <7>1. q \in Nat /\ next \in Nat /\ p <= q /\ q <= next
              BY <5>1
            <7> QED
              BY <7>1, JoinBytes
          <6> QED
            BY <4>1, <5>0, <5>2, <6>1
        <5>4. y.index \in 1 .. n /\ c[y.index] + y.offset = next
          <6>1. CASE y.index = i /\ y.offset = e
            BY <4>1, <6>1 DEF next, from
          <6>2. CASE y.target # 0 /\ e = Len(vector[i]) /\ y.index = i + 1 /\ y.offset = 0
            <7>1. next = c[i + 1]
              BY <4>2, <4>3, <6>2 DEF next, to
            <7>2. next < Size(m)
              <8>1. end <= Size(m) /\ end \in Nat /\ Size(m) \in Nat
                BY <1>0, <5>b
              <8>2. next = end - left /\ left \in 1 .. size
                BY <5>1, <6>2
              <8> QED
                BY <8>1, <8>2
            <7>3. i + 1 # n + 1
              BY <1>0, <7>1, <7>2
            <7>4. i + 1 \in 1 .. n
              BY <1>0, <4>1, <7>3
            <7>5. next \in Nat
              BY <5>1
            <7> QED
              BY <6>2, <7>1, <7>4, <7>5
          <6> QED
            BY <5>0, <6>1, <6>2
        <5>5. y.target = 0 \/ y.index >= turn + 1 + 1
          BY <1>0, <4>1, <5>0
        <5>6. end - y.target = next
          BY <5>1
        <5> QED
          BY <2>2, <5>0, <5>1, <5>3, <5>4, <5>5, <5>6
      <4>7. ~(i > n)
        BY <1>0, <4>1
      <4> HIDE DEF Reading
      <4> QED
        BY <4>4, <4>5, <4>6, <4>7
    <3> QED
      BY <3>1, <3>2
  <2>4. turn + 1 \in Nat
    OBVIOUS
  <2> HIDE DEF y
  <2> QED
    BY <2>2, <2>3, <2>4 DEF y
<1>3. <<n + 1, StringFromVectorIO(vector, cursor, size)>> \in S
  <2> HIDE DEF S
  <2> QED
    BY <1>0, <1>1, <1>2, LoopTurns
<1> DEFINE r == StringFromVectorIO(vector, cursor, size)
<1> HIDE DEF r
<1>4. Reading(n + 1, r)
  BY <1>3 DEF r
<1>5. r.status = "hang" \/ r.target = 0
  BY <1>0, <1>4
<1>6. r.target = 0 => end - r.target = p + size
  OBVIOUS
<1> QED
  BY <1>4, <1>5, <1>6 DEF r, StandsAt

-----------------------------------------------------------------------------
(* What handleOTAMessage takes out of a vector of bytes of one message:    *)
(* records of that message, whatever the sizes it is called with.          *)
EventRecordsOf(m) == {EventRecord(text) : text \in Seq(SentBytes(m)) \ {<< >>}}
OtaRecordsOf(m) ==
  {OtaRecord(m.source, m.sequence, header[1], header[2]) :
     header \in Seq(SentBytes(m)) \X Seq(SentBytes(m))}
RecordsOf(m) == EventRecordsOf(m) \cup OtaRecordsOf(m)

LEMMA RecordsHaveKey ==
  ASSUME NEW m, NEW record \in RecordsOf(m)
  PROVE  RecordKey(record) = PartKey(m)
<1>1. CASE record \in EventRecordsOf(m)
  <2>1. PICK text \in Seq(SentBytes(m)) \ {<< >>} : record = EventRecord(text)
    BY <1>1 DEF EventRecordsOf
  <2>2. record.type = "event" /\ record.event = text
    BY <2>1 DEF EventRecord
  <2>3. Len(text) \in Nat /\ Len(text) # 0
    BY EmptySeq, LenProperties
  <2>4. text[1] \in SentBytes(m)
    BY <2>3, ElementOfSeq
  <2> QED
    BY <2>2, <2>4 DEF RecordKey, PartKey, SentBytes
<1>2. CASE record \in OtaRecordsOf(m)
  BY <1>2 DEF OtaRecordsOf, OtaRecord, RecordKey, PartKey
<1> QED
  BY <1>1, <1>2 DEF RecordsOf

(* The two bytes of a length are a number, or no length.                   *)
LEMMA ReadsPrefix ==
  ASSUME NEW m \in Messages, NEW vector \in Seq(Seq(SentBytes(m))),
         NEW cursor \in Cursors(SentBytes(m)), Within(vector, cursor)
  PROVE  LET r == Prefix(vector, cursor)
         IN  /\ r \in Cursors(SentBytes(m)) /\ Within(vector, r)
             /\ r.status = "ok" => PrefixValue(r.text) \in Nat
<1> DEFINE B == SentBytes(m)
           s == StringFromVectorIO(vector, cursor, PrefixSize)
           r == Prefix(vector, cursor)
<1>1. s \in Cursors(B) /\ Within(vector, s) /\ (s.status = "ok" => Len(s.text) = 2)
  <2>1. PrefixSize \in Nat /\ PrefixSize = 2
    BY DEF PrefixSize
  <2> HIDE DEF B
  <2> QED
    BY <2>1, ReadsBytes DEF B
<1>2. r = IF s.status = "ok" /\ PrefixValue(s.text) < 0 THEN [s EXCEPT !.status = "garbled"] ELSE s
  BY DEF Prefix
<1> HIDE DEF r, s
<1>3. s.status = "ok" => PrefixValue(s.text) \in Int
  <2> SUFFICES ASSUME s.status = "ok" PROVE PrefixValue(s.text) \in Int
    OBVIOUS
  <2>1. s.text \in Seq(B) /\ Len(s.text) = 2
    BY <1>1 DEF Cursors
  <2>2. s.text[1] \in B
    BY <2>1, ElementOfSeq
  <2>3. s.text[1].of = m
    BY <2>2 DEF SentBytes
  <2> QED
    BY <2>3, MessageSizes DEF PrefixValue
<1>4. CASE s.status = "ok" /\ PrefixValue(s.text) < 0
  <2>1. r = [s EXCEPT !.status = "garbled"]
    BY <1>2, <1>4
  <2>2. r \in Cursors(B) /\ r.status = "garbled" /\ r.index = s.index /\ r.offset = s.offset
    BY <1>1, <2>1 DEF Cursors, Statuses
  <2> QED
    BY <1>1, <2>2 DEF r, Within
<1>5. CASE ~(s.status = "ok" /\ PrefixValue(s.text) < 0)
  BY <1>1, <1>2, <1>3, <1>5 DEF r
<1> QED
  BY <1>4, <1>5

LEMMA Starts ==
  ASSUME NEW B, NEW vector \in Seq(Seq(B)), Len(vector) \in Nat \ {0}
  PROVE  Start \in Cursors(B) /\ Within(vector, Start) /\ Start.status = "ok"
<1>1. << >> \in Seq(B)
  BY EmptySeq
<1>2. 1 \in 1 .. Len(vector)
  OBVIOUS
<1>3. Len(vector[1]) \in Nat
  BY <1>2, ElementOfSeq, LenProperties
<1> QED
  BY <1>1, <1>2, <1>3 DEF Start, Cursors, Statuses, Within

LEMMA HandlesBytes ==
  ASSUME NEW m \in Messages, NEW vector \in Seq(Seq(SentBytes(m))), Len(vector) \in Nat \ {0},
         NEW events \in Nat, NEW controls \in Nat, NEW data
  PROVE  LET r == HandleOTAMessage(events, controls, data, m.source, m.sequence, vector)
         IN  r.status \in Statuses /\ r.records \in Seq(RecordsOf(m))
<1> DEFINE B == SentBytes(m)
           event    == StringFromVectorIO(vector, Start, events)
           control  == StringFromVectorIO(vector, event, controls)
           eventRecords == IF events > 0 THEN << EventRecord(event.text) >> ELSE << >>
           phyLength == Prefix(vector, control)
           phySize   == PrefixValue(phyLength.text)
           phy       == StringFromVectorIO(vector, phyLength, phySize)
           macData   == data - PrefixSize - phySize
           macLength == Prefix(vector, phy)
           macSize   == PrefixValue(macLength.text)
           mac       == StringFromVectorIO(vector, macLength, macSize)
           Result(cursor, list) ==
             [status |-> cursor.status, records |-> IF cursor.status = "ok" THEN list ELSE << >>]
           noHeader == eventRecords \o << OtaRecord(m.source, m.sequence, phy.text, NoHeader) >>
           headers == eventRecords \o << OtaRecord(m.source, m.sequence, phy.text, mac.text) >>
           Fine(r) == r.status \in Statuses /\ r.records \in Seq(RecordsOf(m))
           r == HandleOTAMessage(events, controls, data, m.source, m.sequence, vector)
           Read(cursor) == cursor \in Cursors(B) /\ Within(vector, cursor)
<1>0. /\ \A cursor : Read(cursor) => cursor.status \in Statuses /\ cursor.text \in Seq(B)
      /\ << >> \in Seq(RecordsOf(m))
  BY EmptySeq DEF Cursors
<1>1. Read(event) /\ (event.status = "ok" => Len(event.text) = events)
  <2>1. Start \in Cursors(B) /\ Within(vector, Start)
    BY Starts
  <2> HIDE DEF B
  <2> QED
    BY <2>1, ReadsBytes DEF B
<1>2. Read(control) /\ (control.status = "ok" => event.status = "ok")
  <2> HIDE DEF B, event
  <2>1. Read(control)
    BY <1>1, ReadsBytes DEF B
  <2>2. Len(vector) \in Nat
    OBVIOUS
  <2>3. event.status # "ok" => control.status = event.status
    BY <1>1, <2>2, ReadsNothing
  <2> QED
    BY <2>1, <2>3
<1>3. Read(phyLength) /\ (phyLength.status = "ok" => phySize \in Nat)
  <2> HIDE DEF B, control
  <2> QED
    BY <1>2, ReadsPrefix DEF B
<1>4. phyLength.status = "ok" => Read(phy)
  <2> HIDE DEF B, phyLength
  <2> QED
    BY <1>3, ReadsBytes DEF B
<1>5. Read(phy) => Read(macLength) /\ (macLength.status = "ok" => macSize \in Nat)
  <2> HIDE DEF B, phy
  <2> QED
    BY ReadsPrefix DEF B
<1>6. Read(macLength) /\ macLength.status = "ok" /\ macSize \in Nat => Read(mac)
  <2> HIDE DEF B, macLength, macSize
  <2> QED
    BY ReadsBytes DEF B
<1>7. r = IF control.status # "ok" \/ data <= PrefixSize THEN Result(control, eventRecords)
          ELSE IF phyLength.status # "ok" THEN Result(phyLength, << >>)
          ELSE IF data - PrefixSize < phySize THEN Result(phyLength, eventRecords)
          ELSE IF phy.status # "ok" THEN Result(phy, << >>)
          ELSE IF macData <= PrefixSize THEN Result(phy, noHeader)
          ELSE IF macLength.status # "ok" THEN Result(macLength, << >>)
          ELSE IF macData < macSize THEN Result(macLength, noHeader)
          ELSE Result(mac, headers)
  BY DEF HandleOTAMessage
<1> HIDE DEF event, control, phyLength, phySize, phy, macData, macLength, macSize, mac, r
<1>8. control.status = "ok" => eventRecords \in Seq(RecordsOf(m))
  <2>1. CASE events > 0 /\ control.status = "ok"
    <3>1. event.text \in Seq(B) /\ event.text # << >>
      BY <1>0, <1>1, <1>2, <2>1, EmptySeq
    <3>2. EventRecord(event.text) \in RecordsOf(m)
      BY <3>1 DEF RecordsOf, EventRecordsOf
    <3> QED
      BY <2>1, <3>2
  <2>2. CASE ~(events > 0)
    BY <1>0, <2>2
  <2> QED
    BY <2>1, <2>2
<1>9. ASSUME NEW phyText \in Seq(B), NEW macText \in Seq(B), eventRecords \in Seq(RecordsOf(m))
      PROVE  eventRecords \o << OtaRecord(m.source, m.sequence, phyText, macText) >>
                \in Seq(RecordsOf(m))
  <2> DEFINE record == OtaRecord(m.source, m.sequence, phyText, macText)
  <2>1. record \in RecordsOf(m)
    <3>1. <<phyText, macText>> \in Seq(B) \X Seq(B)
      OBVIOUS
    <3> QED
      BY <3>1 DEF RecordsOf, OtaRecordsOf
  <2> HIDE DEF record
  <2>2. << record >> \in Seq(RecordsOf(m))
    BY <2>1
  <2> QED
    BY <1>9, <2>2, ConcatProperties DEF record
<1>10. NoHeader \in Seq(B)
  BY EmptySeq DEF NoHeader
<1>11. control.status = "ok" /\ Read(phy) => noHeader \in Seq(RecordsOf(m))
  BY <1>0, <1>8, <1>9, <1>10
<1>12. control.status = "ok" /\ Read(phy) /\ Read(mac) => headers \in Seq(RecordsOf(m))
  BY <1>0, <1>8, <1>9
<1>13. ASSUME NEW cursor, Read(cursor), NEW list, cursor.status = "ok" => list \in Seq(RecordsOf(m))
       PROVE  Fine(Result(cursor, list))
  BY <1>0, <1>13
<1> HIDE DEF Read, eventRecords, noHeader, headers, Result, Fine
<1>14. CASE control.status # "ok" \/ data <= PrefixSize
  <2>1. Fine(Result(control, eventRecords))
    BY <1>2, <1>8, <1>13
  <2> QED
    BY <1>7, <1>14, <2>1 DEF Fine, r
<1>15. CASE ~(control.status # "ok" \/ data <= PrefixSize)
  <2>1. CASE phyLength.status # "ok"
    <3>1. Fine(Result(phyLength, << >>))
      BY <1>0, <1>3, <1>13
    <3> QED
      BY <1>7, <1>15, <2>1, <3>1 DEF Fine, r
  <2>2. CASE phyLength.status = "ok"
    <3>1. CASE data - PrefixSize < phySize
      <4>1. Fine(Result(phyLength, eventRecords))
        BY <1>3, <1>8, <1>13, <1>15
      <4> QED
        BY <1>7, <1>15, <2>2, <3>1, <4>1 DEF Fine, r
    <3>2. CASE ~(data - PrefixSize < phySize)
      <4>1. Read(phy)
        BY <1>4, <2>2
      <4>2. Read(macLength)
        BY <1>5, <4>1
      <4>3. Fine(Result(phy, << >>)) /\ Fine(Result(phy, noHeader))
        BY <1>0, <1>11, <1>13, <1>15, <4>1
      <4>4. Fine(Result(macLength, << >>)) /\ Fine(Result(macLength, noHeader))
        BY <1>0, <1>11, <1>13, <1>15, <4>1, <4>2
      <4>5. macLength.status = "ok" => Fine(Result(mac, headers))
        BY <1>5, <1>6, <1>12, <1>13, <1>15, <4>1, <4>2
      <4>6. Fine(r)
        BY <1>7, <1>15, <2>2, <3>2, <4>3, <4>4, <4>5, Zenon
      <4> QED
        BY <4>6 DEF Fine, r
    <3> QED
      BY <3>1, <3>2
  <2> QED
    BY <2>1, <2>2
<1> QED
  BY <1>14, <1>15

(* A message's two headers, behind their lengths.                          *)
PhyHeader(m) == Bytes(m, PhyPrefixAt(m) + PrefixSize, MacPrefixAt(m))
MacHeader(m) == Bytes(m, MacPrefixAt(m) + PrefixSize, MacPrefixAt(m) + PrefixSize + m.mac)

OwnOtaRecord(m) == OtaRecord(m.source, m.sequence, PhyHeader(m), MacHeader(m))
OwnRecords(m) ==
  (IF m.events > 0 THEN << EventRecord(Bytes(m, 0, m.events)) >> ELSE << >>)
    \o << OwnOtaRecord(m) >>

(* Both lengths are read as what they are.                                 *)
LEMMA ReadsOwnPrefix ==
  ASSUME NEW m \in Messages, NEW vector, NEW c, IsCut(vector, m, c), NEW cursor, NEW p,
         p \in {PhyPrefixAt(m), MacPrefixAt(m)}, StandsAt(vector, m, c, cursor, p)
  PROVE  LET r == Prefix(vector, cursor)
         IN  \/ r \in Cursors(SentBytes(m)) /\ r.status = "hang"
             \/ /\ StandsAt(vector, m, c, r, p + PrefixSize)
                /\ PrefixValue(r.text) = IF p = PhyPrefixAt(m) THEN m.phy ELSE m.mac
<1> DEFINE s == StringFromVectorIO(vector, cursor, PrefixSize)
           r == Prefix(vector, cursor)
           end == p + PrefixSize
<1>1. p \in Nat /\ PrefixSize \in Nat /\ p + PrefixSize <= Size(m) /\ end \in Nat /\ end - p = 2
  BY MessageSizes
<1>2. \/ s \in Cursors(SentBytes(m)) /\ s.status = "hang"
      \/ StandsAt(vector, m, c, s, end) /\ s.text = Bytes(m, p, end)
  BY <1>1, ReadsMessage
<1>3. r = IF s.status = "ok" /\ PrefixValue(s.text) < 0 THEN [s EXCEPT !.status = "garbled"] ELSE s
  BY DEF Prefix
<1> HIDE DEF s, r, end
<1>4. CASE s.status = "hang"
  BY <1>2, <1>3, <1>4 DEF r, StandsAt
<1>5. CASE s.status # "hang"
  <2>1. StandsAt(vector, m, c, s, end) /\ s.status = "ok" /\ s.text = Bytes(m, p, end)
    BY <1>2, <1>5 DEF StandsAt
  <2>2. s.text[1] = [of |-> m, at |-> p]
    <3>1. p <= end /\ 1 \in 1 .. end - p /\ p + 1 - 1 = p
      BY <1>1
    <3>2. Bytes(m, p, end)[1] = [of |-> m, at |-> p + 1 - 1]
      BY <1>1, <3>1, BytesBetween
    <3> QED
      BY <2>1, <3>1, <3>2
  <2>3. /\ p = PhyPrefixAt(m) => PrefixValue(s.text) = m.phy
        /\ p = MacPrefixAt(m) => PrefixValue(s.text) = m.mac
    <3>1. s.text[1].of = m /\ s.text[1].at = p
      BY <2>2
    <3>2. p = PhyPrefixAt(m) => PrefixValue(s.text) = m.phy
      BY <2>1, <3>1 DEF PrefixValue, end
    <3>3. p = MacPrefixAt(m) => s.text # Bytes(m, PhyPrefixAt(m), PhyPrefixAt(m) + PrefixSize)
      <4> DEFINE a == PhyPrefixAt(m)
                 b == a + PrefixSize
      <4>1. a \in Nat /\ b \in Nat /\ a <= b /\ b - a = 2
        BY MessageSizes
      <4>a. MacPrefixAt(m) # a
        BY MessageSizes
      <4> HIDE DEF a, b
      <4>2. 1 \in 1 .. b - a /\ a + 1 - 1 = a
        BY <4>1
      <4>3. Bytes(m, a, b)[1] = [of |-> m, at |-> a + 1 - 1]
        BY <4>1, <4>2, BytesBetween
      <4>4. Bytes(m, a, b)[1].at = a
        BY <4>2, <4>3
      <4> QED
        BY <3>1, <4>a, <4>4 DEF a, b
    <3>4. p = MacPrefixAt(m) => PrefixValue(s.text) = m.mac
      BY <2>1, <3>1, <3>3 DEF PrefixValue, end
    <3> QED
      BY <3>2, <3>4
  <2>4. PhyPrefixAt(m) # MacPrefixAt(m) /\ m.phy \in Nat /\ m.mac \in Nat
    BY MessageSizes
  <2>5. ~(PrefixValue(s.text) < 0)
    BY <2>3, <2>4
  <2>6. r = s
    BY <1>3, <2>5
  <2> QED
    BY <2>1, <2>3, <2>4, <2>6 DEF r, end
<1> QED
  BY <1>4, <1>5

(* handleOTAMessage finds a whole message's records, or hangs.             *)
LEMMA HandlesWhole ==
  ASSUME NEW m \in Messages, NEW vector, NEW c, IsCut(vector, m, c)
  PROVE  LET r == HandleOTAMessage(m.events, m.controls, m.data, m.source, m.sequence, vector)
         IN  /\ r.status \in {"ok", "hang"}
             /\ r.records = IF r.status = "ok" THEN OwnRecords(m) ELSE << >>
<1> DEFINE B == SentBytes(m)
           event    == StringFromVectorIO(vector, Start, m.events)
           control  == StringFromVectorIO(vector, event, m.controls)
           eventRecords == IF m.events > 0 THEN << EventRecord(event.text) >> ELSE << >>
           phyLength == Prefix(vector, control)
           phySize   == PrefixValue(phyLength.text)
           phy       == StringFromVectorIO(vector, phyLength, phySize)
           macData   == m.data - PrefixSize - phySize
           macLength == Prefix(vector, phy)
           macSize   == PrefixValue(macLength.text)
           mac       == StringFromVectorIO(vector, macLength, macSize)
           Result(cursor, list) ==
             [status |-> cursor.status, records |-> IF cursor.status = "ok" THEN list ELSE << >>]
           headers == eventRecords \o << OtaRecord(m.source, m.sequence, phy.text, mac.text) >>
           r == HandleOTAMessage(m.events, m.controls, m.data, m.source, m.sequence, vector)
           Hangs(cursor) == cursor.status = "hang"
           At(cursor, p) == StandsAt(vector, m, c, cursor, p)
<1>a. /\ m.events \in Nat /\ m.controls \in Nat /\ m.phy \in Nat /\ m.mac \in Nat
      /\ m.mac # 0 /\ m.data \in Nat /\ m.data >= m.phy + m.mac + 4 /\ PrefixSize = 2
  BY MessageSizes
<1>b. /\ Size(m) \in Nat /\ Size(m) = m.events + m.controls + m.data
      /\ PhyPrefixAt(m) = m.events + m.controls /\ PhyPrefixAt(m) \in Nat
      /\ MacPrefixAt(m) = PhyPrefixAt(m) + 2 + m.phy /\ MacPrefixAt(m) \in Nat
      /\ MacPrefixAt(m) + 2 + m.mac <= Size(m)
  BY MessageSizes
<1>c. /\ m.data > PrefixSize /\ ~(m.data - PrefixSize < m.phy)
      /\ ~(m.data - PrefixSize - m.phy <= PrefixSize) /\ ~(m.data - PrefixSize - m.phy < m.mac)
  BY <1>a
<1>0. vector \in Seq(Seq(B)) /\ Len(vector) \in Nat \ {0} /\ c[1] = 0
  BY DEF IsCut
<1>1. Hangs(event) \/ (At(event, m.events) /\ event.text = Bytes(m, 0, m.events))
  <2>1. Start \in Cursors(B) /\ Within(vector, Start) /\ Start.status = "ok"
    BY <1>0, Starts
  <2>2. At(Start, 0)
    BY <1>0, <2>1 DEF StandsAt, Start
  <2>3. 0 + m.events = m.events /\ 0 + m.events <= Size(m) /\ 0 \in Nat
    BY <1>a, <1>b
  <2>4. Hangs(event) \/ (At(event, 0 + m.events) /\ event.text = Bytes(m, 0, 0 + m.events))
    BY <1>a, <2>2, <2>3, ReadsMessage
  <2> QED
    BY <2>3, <2>4
<1>2. Hangs(event) => Hangs(control)
  <2>1. event \in Cursors(B)
    <3>1. Start \in Cursors(B) /\ Within(vector, Start)
      BY <1>0, Starts
    <3> HIDE DEF B
    <3> QED
      BY <1>0, <1>a, <3>1, ReadsBytes
  <2> HIDE DEF event, B
  <2> QED
    BY <1>0, <2>1, ReadsNothing
<1>3. At(event, m.events) => Hangs(control) \/ At(control, PhyPrefixAt(m))
  <2>1. m.events \in Nat /\ m.controls \in Nat /\ m.events + m.controls <= Size(m)
    BY <1>a, <1>b
  <2> HIDE DEF event
  <2>2. At(event, m.events) => Hangs(control) \/ At(control, m.events + m.controls)
    BY <2>1, ReadsMessage
  <2> QED
    BY <1>b, <2>2
<1>4. At(control, PhyPrefixAt(m)) =>
         Hangs(phyLength) \/ (At(phyLength, PhyPrefixAt(m) + 2) /\ phySize = m.phy)
  <2> DEFINE p == PhyPrefixAt(m)
  <2>1. p \in {PhyPrefixAt(m), MacPrefixAt(m)}
    OBVIOUS
  <2> HIDE DEF control, p
  <2>2. At(control, p) => Hangs(phyLength) \/ (At(phyLength, p + PrefixSize)
           /\ phySize = IF p = PhyPrefixAt(m) THEN m.phy ELSE m.mac)
    BY <2>1, ReadsOwnPrefix
  <2> QED
    BY <1>a, <2>2 DEF p
<1>5. At(phyLength, PhyPrefixAt(m) + 2) /\ phySize = m.phy =>
         Hangs(phy) \/ (At(phy, MacPrefixAt(m)) /\ phy.text = PhyHeader(m))
  <2> HIDE DEF phyLength, phySize
  <2> SUFFICES ASSUME At(phyLength, PhyPrefixAt(m) + 2), phySize = m.phy
               PROVE  Hangs(phy) \/ (At(phy, MacPrefixAt(m)) /\ phy.text = PhyHeader(m))
    OBVIOUS
  <2> DEFINE p == PhyPrefixAt(m) + 2
  <2>1. p \in Nat /\ p + m.phy = MacPrefixAt(m) /\ p + m.phy <= Size(m)
    BY <1>a, <1>b
  <2> HIDE DEF p
  <2>2. At(phyLength, p)
    BY DEF p
  <2>3. Hangs(phy) \/ (At(phy, p + m.phy) /\ phy.text = Bytes(m, p, p + m.phy))
    BY <1>a, <2>1, <2>2, ReadsMessage
  <2> QED
    BY <1>a, <2>1, <2>3 DEF p, PhyHeader
<1>6. At(phy, MacPrefixAt(m)) =>
         Hangs(macLength) \/ (At(macLength, MacPrefixAt(m) + 2) /\ macSize = m.mac)
  <2> DEFINE p == MacPrefixAt(m)
  <2>1. p \in {PhyPrefixAt(m), MacPrefixAt(m)} /\ PhyPrefixAt(m) # p
    BY <1>a, <1>b
  <2> HIDE DEF phy, p
  <2>2. At(phy, p) => Hangs(macLength) \/ (At(macLength, p + PrefixSize)
           /\ macSize = IF p = PhyPrefixAt(m) THEN m.phy ELSE m.mac)
    BY <2>1, ReadsOwnPrefix
  <2> QED
    BY <1>a, <2>1, <2>2 DEF p
<1>7. At(macLength, MacPrefixAt(m) + 2) /\ macSize = m.mac =>
         Hangs(mac) \/ (mac.status = "ok" /\ mac.text = MacHeader(m))
  <2> HIDE DEF macLength, macSize
  <2> SUFFICES ASSUME At(macLength, MacPrefixAt(m) + 2), macSize = m.mac
               PROVE  Hangs(mac) \/ (mac.status = "ok" /\ mac.text = MacHeader(m))
    OBVIOUS
  <2> DEFINE p == MacPrefixAt(m) + 2
  <2>1. p \in Nat /\ p + m.mac <= Size(m)
    BY <1>a, <1>b
  <2> HIDE DEF p
  <2>2. At(macLength, p)
    BY DEF p
  <2>3. Hangs(mac) \/ (At(mac, p + m.mac) /\ mac.text = Bytes(m, p, p + m.mac))
    BY <1>a, <2>1, <2>2, ReadsMessage
  <2> QED
    BY <1>a, <2>3 DEF p, MacHeader, StandsAt
<1>8. \A cursor, p : At(cursor, p) => cursor.status = "ok"
  BY DEF StandsAt
<1>9. r = IF control.status # "ok" THEN Result(control, eventRecords)
          ELSE IF phyLength.status # "ok" THEN Result(phyLength, << >>)
          ELSE IF m.data - PrefixSize < phySize THEN Result(phyLength, eventRecords)
          ELSE IF phy.status # "ok" THEN Result(phy, << >>)
          ELSE IF macData <= PrefixSize
          THEN Result(phy, eventRecords \o << OtaRecord(m.source, m.sequence, phy.text, NoHeader) >>)
          ELSE IF macLength.status # "ok" THEN Result(macLength, << >>)
          ELSE IF macData < macSize
          THEN Result(macLength,
                      eventRecords \o << OtaRecord(m.source, m.sequence, phy.text, NoHeader) >>)
          ELSE Result(mac, headers)
  <2> HIDE DEF event, control, phyLength, phySize, phy, macLength, macSize, mac
  <2>1. ~(m.data <= PrefixSize)
    BY <1>a
  <2> QED
    BY <2>1 DEF HandleOTAMessage, event, control, phyLength, phySize, phy, macLength, macSize, mac
<1>10. phySize = m.phy => ~(m.data - PrefixSize < phySize) /\ ~(macData <= PrefixSize)
  BY <1>c
<1>11. phySize = m.phy /\ macSize = m.mac => ~(macData < macSize)
  BY <1>c
<1> HIDE DEF event, control, phyLength, phySize, phy, macData, macLength, macSize, mac, r, At
<1>12. \/ Hangs(control)
       \/ /\ control.status = "ok" /\ event.text = Bytes(m, 0, m.events)
          /\ \/ Hangs(phyLength)
             \/ /\ phyLength.status = "ok" /\ phySize = m.phy
                /\ \/ Hangs(phy)
                   \/ /\ phy.status = "ok" /\ phy.text = PhyHeader(m)
                      /\ \/ Hangs(macLength)
                         \/ /\ macLength.status = "ok" /\ macSize = m.mac
                            /\ Hangs(mac) \/ (mac.status = "ok" /\ mac.text = MacHeader(m))
  BY <1>1, <1>2, <1>3, <1>4, <1>5, <1>6, <1>7, <1>8, Zenon
<1>13. event.text = Bytes(m, 0, m.events) /\ phy.text = PhyHeader(m) /\ mac.text = MacHeader(m)
          => headers = OwnRecords(m)
  BY DEF OwnRecords, OwnOtaRecord
<1>14. \A cursor, list :
          /\ Result(cursor, list).status = cursor.status
          /\ Result(cursor, list).records = IF cursor.status = "ok" THEN list ELSE << >>
  OBVIOUS
<1> HIDE DEF headers, eventRecords, Result
<1>15. \/ \E cursor, list : Hangs(cursor) /\ r = Result(cursor, list)
       \/ mac.status = "ok" /\ r = Result(mac, headers) /\ headers = OwnRecords(m)
  BY <1>9, <1>10, <1>11, <1>12, <1>13
<1> QED
  BY <1>14, <1>15 DEF r

-----------------------------------------------------------------------------
(* The parts a message is split into.                                      *)
LEMMA Quotient ==
  ASSUME NEW a \in Nat, NEW b \in Nat \ {0}
  PROVE  a \div b \in Nat /\ (a \div b) * b <= a /\ a < (a \div b) * b + b
  OBVIOUS

LEMMA Multiples ==
  ASSUME NEW b \in Nat \ {0}, NEW n \in Nat
  PROVE  n * b \in Nat /\ (n + 1) * b = n * b + b
         /\ \A k \in Nat : n < k => n * b + b <= k * b
  OBVIOUS

LastPart(m) == (Size(m) - 1) \div PartSize
NthPart(m, n) == Part(m, n * PartSize)

LEMMA NumberOfParts ==
  ASSUME NEW m \in Messages
  PROVE  /\ LastPart(m) \in Nat
         /\ LastPart(m) * PartSize < Size(m) /\ Size(m) <= LastPart(m) * PartSize + PartSize
         /\ PartsOf(m) = {NthPart(m, n) : n \in 0 .. LastPart(m)}
<1> DEFINE a == Size(m) - 1
<1>1. a \in Nat /\ Size(m) = a + 1
  BY MessageSizes
<1>2. PartSize \in Nat \ {0}
  BY PartSizeAssumption
<1>3. LastPart(m) = a \div PartSize
  BY DEF LastPart
<1> HIDE DEF a
<1>4. LastPart(m) \in Nat /\ LastPart(m) * PartSize <= a /\ a < LastPart(m) * PartSize + PartSize
  BY <1>1, <1>2, <1>3, Quotient
<1> DEFINE last == LastPart(m) * PartSize
<1>5. last \in Nat
  BY <1>2, <1>4, Multiples
<1>6. last < Size(m) /\ Size(m) <= last + PartSize
  <2>1. last <= a /\ a < last + PartSize
    BY <1>4
  <2> HIDE DEF last
  <2> QED
    BY <1>1, <1>2, <1>5, <2>1
<1>7. PartsOf(m) = {NthPart(m, n) : n \in 0 .. LastPart(m)}
  BY DEF PartsOf, NthPart, LastPart
<1> QED
  BY <1>4, <1>6, <1>7

LEMMA NthPartIs ==
  ASSUME NEW m \in Messages, NEW n \in 0 .. LastPart(m)
  PROVE  LET p == NthPart(m, n)
         IN  /\ n * PartSize \in Nat /\ p.of = m /\ p.offset = n * PartSize
             /\ p.size \in Nat \ {0} /\ p.size <= PartSize /\ p.more \in BOOLEAN
             /\ n = LastPart(m) => ~p.more /\ p.offset + p.size = Size(m)
             /\ n # LastPart(m) =>
                   p.more /\ p.offset + p.size = (n + 1) * PartSize /\ (n + 1) * PartSize < Size(m)
<1> DEFINE o == n * PartSize
           last == LastPart(m)
           p == NthPart(m, n)
<1>1. last \in Nat /\ n \in Nat /\ n <= last /\ PartSize \in Nat \ {0}
  BY NumberOfParts, PartSizeAssumption
<1> HIDE DEF last
<1>2. /\ o \in Nat /\ (n + 1) * PartSize = o + PartSize /\ last * PartSize \in Nat
      /\ n < last => o + PartSize <= last * PartSize
  BY <1>1, Multiples
<1>3. last * PartSize < Size(m) /\ Size(m) <= last * PartSize + PartSize /\ Size(m) \in Nat
  BY NumberOfParts, MessageSizes DEF last
<1>4. p.of = m /\ p.offset = o /\ p.size = (IF PartSize <= Size(m) - o THEN PartSize ELSE Size(m) - o)
  BY DEF NthPart, Part, Smaller
<1> DEFINE b == o + PartSize < Size(m)
<1>a. b \in BOOLEAN
  OBVIOUS
<1>b. p.more \in BOOLEAN /\ (p.more <=> o + PartSize < Size(m))
  <2>1. p.more = b
    BY Zenon DEF NthPart, Part
  <2> HIDE DEF p, b
  <2>2. p.more \in BOOLEAN /\ (p.more <=> b)
    BY <1>a, <2>1
  <2> QED
    BY <2>2, Zenon DEF b
<1>5. CASE n = last
  <2>1. o = last * PartSize
    BY <1>5
  <2> HIDE DEF o
  <2> DEFINE size == p.size
  <2>2. o < Size(m) /\ Size(m) <= o + PartSize
    BY <1>3, <2>1
  <2>3. size = IF PartSize <= Size(m) - o THEN PartSize ELSE Size(m) - o
    BY <1>4
  <2> HIDE DEF size, p
  <2>4. size = Size(m) - o /\ size \in Nat \ {0} /\ size <= PartSize /\ o + size = Size(m)
        /\ ~(o + PartSize < Size(m))
    BY <1>1, <1>2, <1>3, <2>2, <2>3
  <2>5. ~p.more /\ p.more \in BOOLEAN
    BY <1>b, <2>4
  <2>6. p.size \in Nat \ {0} /\ p.size <= PartSize /\ p.offset + p.size = Size(m)
    BY <1>4, <2>4 DEF size
  <2>7. p.of = m /\ p.offset = n * PartSize /\ n * PartSize \in Nat
    BY <1>2, <1>4 DEF o
  <2> QED
    BY <1>5, <2>5, <2>6, <2>7 DEF p, last
<1>6. CASE n # last
  <2> DEFINE end == last * PartSize
             next == (n + 1) * PartSize
             size == p.size
  <2>1. o + PartSize <= end /\ end < Size(m) /\ end \in Nat /\ next = o + PartSize
    BY <1>1, <1>2, <1>3, <1>6
  <2>2. size = IF PartSize <= Size(m) - o THEN PartSize ELSE Size(m) - o
    BY <1>4
  <2> HIDE DEF o, p, end, next, size
  <2>3. size = PartSize /\ o + PartSize < Size(m) /\ next < Size(m) /\ o + size = next
    BY <1>1, <1>2, <1>3, <2>1, <2>2
  <2>4. p.more /\ p.more \in BOOLEAN
    BY <1>b, <2>3
  <2>5. p.size \in Nat \ {0} /\ p.size <= PartSize /\ p.offset + p.size = next
    BY <1>1, <1>4, <2>3 DEF size
  <2>6. p.of = m /\ p.offset = n * PartSize /\ n * PartSize \in Nat
    BY <1>2, <1>4 DEF o
  <2> QED
    BY <1>6, <2>3, <2>4, <2>5, <2>6 DEF p, next, last
<1> QED
  BY <1>5, <1>6

LEMMA PartsAre ==
  ASSUME NEW m \in Messages, NEW p \in PartsOf(m)
  PROVE  /\ p.of = m /\ p.offset \in Nat /\ p.size \in Nat \ {0}
         /\ p.offset + p.size <= Size(m) /\ p.more \in BOOLEAN
         /\ p.more <=> p.offset + p.size # Size(m)
<1>1. PICK n \in 0 .. LastPart(m) : p = NthPart(m, n)
  BY NumberOfParts
<1> DEFINE next == (n + 1) * PartSize
<1>2. /\ p.of = m /\ p.offset \in Nat /\ p.size \in Nat \ {0} /\ p.more \in BOOLEAN
      /\ \/ ~p.more /\ p.offset + p.size = Size(m)
         \/ p.more /\ p.offset + p.size = next /\ next < Size(m)
  BY <1>1, NthPartIs
<1>3. Size(m) \in Nat
  BY MessageSizes
<1> HIDE DEF next
<1>4. p.offset + p.size <= Size(m) /\ (p.more <=> p.offset + p.size # Size(m))
  BY <1>2, <1>3
<1> QED
  BY <1>2, <1>4

LEMMA PartsApart ==
  ASSUME NEW m \in Messages, NEW p \in PartsOf(m), NEW q \in PartsOf(m)
  PROVE  \/ p = q
         \/ p.offset + p.size <= q.offset
         \/ q.offset + q.size <= p.offset
<1>1. PICK n \in 0 .. LastPart(m) : p = NthPart(m, n)
  BY NumberOfParts
<1>2. PICK k \in 0 .. LastPart(m) : q = NthPart(m, k)
  BY NumberOfParts
<1>3. PartSize \in Nat \ {0} /\ LastPart(m) \in Nat
  BY PartSizeAssumption, NumberOfParts
<1>4. ASSUME NEW a \in 0 .. LastPart(m), NEW b \in 0 .. LastPart(m), a < b
      PROVE  NthPart(m, a).offset + NthPart(m, a).size <= NthPart(m, b).offset
  <2> DEFINE u == a * PartSize
             v == b * PartSize
             size == NthPart(m, a).size
  <2>1. NthPart(m, a).offset = u /\ NthPart(m, b).offset = v /\ size \in Nat /\ size <= PartSize
    BY NthPartIs
  <2>2. u \in Nat /\ v \in Nat /\ u + PartSize <= v
    <3>1. a \in Nat /\ b \in Nat
      BY <1>3
    <3> QED
      BY <1>3, <1>4, <3>1, Multiples
  <2> HIDE DEF u, v, size
  <2>3. u + size <= v
    BY <1>3, <2>1, <2>2
  <2> QED
    BY <2>1, <2>3 DEF size
<1>5. n = k \/ n < k \/ k < n
  BY <1>3
<1> QED
  BY <1>1, <1>2, <1>4, <1>5

(* No byte of a message is in two of its parts, and each is in one.        *)
PlacesOf(p) == p.offset .. p.offset + p.size - 1
Covered(parts) == UNION {PlacesOf(p) : p \in parts}

LEMMA CoversAtMost ==
  ASSUME NEW m \in Messages, NEW parts \in SUBSET PartsOf(m)
  PROVE  /\ Covered(parts) \subseteq 0 .. Size(m) - 1
         /\ IsFiniteSet(Covered(parts)) /\ Cardinality(Covered(parts)) \in Nat
<1>1. ASSUME NEW p \in parts, NEW at \in PlacesOf(p) PROVE at \in 0 .. Size(m) - 1
  <2>1. p.offset \in Nat /\ p.size \in Nat /\ p.offset + p.size <= Size(m) /\ Size(m) \in Nat
    BY PartsAre, MessageSizes
  <2>2. at \in Int /\ p.offset <= at /\ at <= p.offset + p.size - 1
    BY <2>1 DEF PlacesOf
  <2> QED
    BY <2>1, <2>2
<1>2. Covered(parts) \subseteq 0 .. Size(m) - 1
  BY <1>1 DEF Covered
<1>3. IsFiniteSet(0 .. Size(m) - 1)
  BY MessageSizes, FS_Interval
<1> QED
  BY <1>2, <1>3, FS_Subset, FS_CardinalityType

LEMMA CoversAll ==
  ASSUME NEW m \in Messages
  PROVE  Covered(PartsOf(m)) = 0 .. Size(m) - 1
<1>1. Covered(PartsOf(m)) \subseteq 0 .. Size(m) - 1
  BY CoversAtMost
<1>2. ASSUME NEW at \in 0 .. Size(m) - 1 PROVE at \in Covered(PartsOf(m))
  <2> DEFINE n == at \div PartSize
             o == n * PartSize
             p == NthPart(m, n)
             last == LastPart(m)
             end == last * PartSize
  <2>1. Size(m) \in Nat /\ PartSize \in Nat \ {0} /\ at \in Nat /\ at < Size(m)
    BY MessageSizes, PartSizeAssumption
  <2>2. n \in Nat /\ o <= at /\ at < o + PartSize /\ o \in Nat
    BY <2>1, Quotient, Multiples
  <2>3. last \in Nat /\ end \in Nat /\ Size(m) <= end + PartSize
    BY <2>1, NumberOfParts, Multiples
  <2> HIDE DEF n, last
  <2>4. last < n => end + PartSize <= o
    BY <2>1, <2>2, <2>3, Multiples
  <2> HIDE DEF o, end
  <2>5. n \in 0 .. last
    BY <2>1, <2>2, <2>3, <2>4
  <2>6. /\ p \in PartsOf(m) /\ p.offset = o /\ p.size \in Nat
        /\ \/ p.offset + p.size = Size(m)
           \/ p.offset + p.size = o + PartSize
    BY <2>1, <2>2, <2>5, NumberOfParts, NthPartIs, Multiples DEF last, o
  <2> HIDE DEF p
  <2>7. at \in PlacesOf(p)
    BY <2>1, <2>2, <2>6 DEF PlacesOf
  <2> QED
    BY <2>6, <2>7 DEF Covered
<1> QED
  BY <1>1, <1>2

LEMMA CoversWhole ==
  ASSUME NEW m \in Messages, NEW parts \in SUBSET PartsOf(m)
  PROVE  Cardinality(Covered(parts)) = Size(m) <=> parts = PartsOf(m)
<1> DEFINE all == 0 .. Size(m) - 1
<1>1. Size(m) \in Nat \ {0}
  BY MessageSizes
<1>2. IsFiniteSet(all) /\ Cardinality(all) = Size(m)
  <2> DEFINE last == Size(m) - 1
  <2>1. last \in Int /\ 0 \in Int /\ ~(0 > last) /\ last - 0 + 1 = Size(m)
    BY <1>1
  <2> HIDE DEF last
  <2>2. IsFiniteSet(0 .. last) /\ Cardinality(0 .. last) = Size(m)
    BY <2>1, FS_Interval
  <2> QED
    BY <2>2 DEF last
<1>3. Covered(parts) \subseteq all /\ Covered(PartsOf(m)) = all
  BY CoversAtMost, CoversAll
<1> HIDE DEF all
<1>4. ASSUME Cardinality(Covered(parts)) = Size(m), NEW p \in PartsOf(m) PROVE p \in parts
  <2>1. Covered(parts) = all
    BY <1>2, <1>3, <1>4, FS_Subset
  <2>2. p.offset \in Nat /\ p.size \in Nat \ {0}
    BY PartsAre
  <2>3. p.offset \in PlacesOf(p)
    BY <2>2 DEF PlacesOf
  <2>4. p.offset \in Covered(parts)
    BY <1>3, <2>1, <2>3 DEF Covered
  <2>5. PICK q \in parts : p.offset \in PlacesOf(q)
    BY <2>4 DEF Covered
  <2>6. q.offset \in Nat /\ q.size \in Nat \ {0} /\ q \in PartsOf(m)
    BY PartsAre
  <2>7. q.offset <= p.offset /\ p.offset < q.offset + q.size
    BY <2>2, <2>5, <2>6 DEF PlacesOf
  <2>8. \/ p = q \/ p.offset + p.size <= q.offset \/ q.offset + q.size <= p.offset
    BY <2>6, PartsApart
  <2>9. p = q
    BY <2>2, <2>6, <2>7, <2>8
  <2> QED
    BY <2>9
<1> QED
  BY <1>2, <1>3, <1>4

LEMMA CoversMore ==
  ASSUME NEW m \in Messages, NEW parts \in SUBSET PartsOf(m), NEW part \in PartsOf(m) \ parts
  PROVE  Cardinality(Covered(parts \cup {part})) = Cardinality(Covered(parts)) + part.size
<1> DEFINE old == Covered(parts)
           new == PlacesOf(part)
<1>1. part.offset \in Nat /\ part.size \in Nat \ {0}
  BY PartsAre
<1>2. IsFiniteSet(old) /\ Cardinality(old) \in Nat
  BY CoversAtMost
<1>3. IsFiniteSet(new) /\ Cardinality(new) = part.size
  <2> DEFINE a == part.offset
             b == part.offset + part.size - 1
             size == part.size
  <2>1. a \in Int /\ b \in Int /\ ~(a > b) /\ b - a + 1 = size
    <3>1. a \in Nat /\ size \in Nat \ {0} /\ b = a + size - 1
      BY <1>1
    <3> HIDE DEF a, b, size
    <3> QED
      BY <3>1
  <2> HIDE DEF a, b, size
  <2>2. IsFiniteSet(a .. b) /\ Cardinality(a .. b) = size
    BY <2>1, FS_Interval
  <2> QED
    BY <2>2 DEF a, b, size, PlacesOf
<1>4. Covered(parts \cup {part}) = old \cup new
  BY DEF Covered
<1>5. old \cap new = {}
  <2> SUFFICES ASSUME NEW at \in old, at \in new PROVE FALSE
    OBVIOUS
  <2>1. PICK p \in parts : at \in PlacesOf(p)
    BY DEF Covered
  <2>2. p.offset \in Nat /\ p.size \in Nat \ {0} /\ p \in PartsOf(m)
    BY PartsAre
  <2>3. p.offset <= at /\ at < p.offset + p.size /\ at \in Int
    BY <2>1, <2>2 DEF PlacesOf
  <2>4. part.offset <= at /\ at < part.offset + part.size
    BY <1>1 DEF PlacesOf
  <2>5. \/ p = part \/ p.offset + p.size <= part.offset \/ part.offset + part.size <= p.offset
    BY <2>2, PartsApart
  <2> QED
    BY <1>1, <2>2, <2>3, <2>4, <2>5
<1> HIDE DEF old, new
<1>6. Cardinality(old \cup new) = Cardinality(old) + Cardinality(new) - Cardinality(old \cap new)
  BY <1>2, <1>3, FS_Union
<1>7. Cardinality(old \cap new) = 0
  BY <1>5, FS_EmptySet
<1>8. Cardinality(old \cup new) = Cardinality(old) + part.size
  BY <1>1, <1>2, <1>3, <1>6, <1>7
<1> QED
  BY <1>4, <1>8 DEF old

-----------------------------------------------------------------------------
(* The vector of the parts in order.                                       *)
UpTo(parts, offset) == {q \in parts : q.offset <= offset}
PlaceIn(parts, p) == Cardinality(UpTo(parts, p.offset))

LEMMA VectorIOPlaces ==
  ASSUME NEW parts
  PROVE  VectorIO(parts) =
           [i \in 1 .. Cardinality(parts) |-> PartBytes(CHOOSE p \in parts : PlaceIn(parts, p) = i)]
  BY DEF VectorIO, PlaceIn, UpTo

LEMMA FinitelyManyParts ==
  ASSUME NEW m \in Messages, NEW parts \in SUBSET PartsOf(m)
  PROVE  IsFiniteSet(parts) /\ Cardinality(parts) \in Nat /\ (parts # {} => Cardinality(parts) # 0)
<1> DEFINE offsetOf == [p \in parts |-> p.offset]
           S == 0 .. Size(m) - 1
<1>1. IsFiniteSet(S)
  BY MessageSizes, FS_Interval
<1>2. offsetOf \in Injection(parts, S)
  <2>1. ASSUME NEW p \in parts PROVE p.offset \in S
    BY PartsAre, MessageSizes
  <2>2. ASSUME NEW p \in parts, NEW q \in parts, p.offset = q.offset PROVE p = q
    <3>1. p.offset \in Nat /\ p.size \in Nat \ {0} /\ q.offset \in Nat /\ q.size \in Nat \ {0}
      BY PartsAre
    <3>2. \/ p = q \/ p.offset + p.size <= q.offset \/ q.offset + q.size <= p.offset
      BY PartsApart
    <3> QED
      BY <2>2, <3>1, <3>2
  <2> HIDE DEF S
  <2> QED
    BY <2>1, <2>2 DEF Injection, IsInjective
<1> HIDE DEF S
<1>3. IsFiniteSet(parts)
  BY <1>1, <1>2, FS_Injection
<1> QED
  BY <1>3, FS_CardinalityType, FS_EmptySet

(* Every place of it has one of the parts.                                 *)
LEMMA PlacesAreTaken ==
  ASSUME NEW m \in Messages, NEW parts \in SUBSET PartsOf(m)
  PROVE  \A i \in 1 .. Cardinality(parts) : \E p \in parts : PlaceIn(parts, p) = i
<1> DEFINE n == Cardinality(parts)
           f == [p \in parts |-> PlaceIn(parts, p)]
<1>1. IsFiniteSet(parts) /\ n \in Nat
  BY FinitelyManyParts
<1>2. ASSUME NEW p \in parts
      PROVE  /\ IsFiniteSet(UpTo(parts, p.offset)) /\ PlaceIn(parts, p) \in 1 .. n
  <2>1. UpTo(parts, p.offset) \in SUBSET parts
    BY DEF UpTo
  <2>2. p \in UpTo(parts, p.offset)
    BY PartsAre DEF UpTo
  <2>3. /\ IsFiniteSet(UpTo(parts, p.offset))
        /\ Cardinality(UpTo(parts, p.offset)) <= n
    BY <1>1, <2>1, FS_Subset
  <2>4. Cardinality(UpTo(parts, p.offset)) \in Nat /\ Cardinality(UpTo(parts, p.offset)) # 0
    BY <2>2, <2>3, FS_CardinalityType, FS_EmptySet
  <2> QED
    BY <1>1, <2>3, <2>4 DEF PlaceIn
<1>3. ASSUME NEW p \in parts, NEW q \in parts, p.offset < q.offset
      PROVE  PlaceIn(parts, p) # PlaceIn(parts, q)
  <2>1. p.offset \in Nat /\ q.offset \in Nat
    BY PartsAre
  <2>2. UpTo(parts, p.offset) \in SUBSET UpTo(parts, q.offset)
    <3> SUFFICES ASSUME NEW x \in UpTo(parts, p.offset) PROVE x \in UpTo(parts, q.offset)
      OBVIOUS
    <3>1. x \in parts /\ x.offset <= p.offset /\ x.offset \in Nat
      BY PartsAre DEF UpTo
    <3> QED
      BY <1>3, <2>1, <3>1 DEF UpTo
  <2>3. q \in UpTo(parts, q.offset) /\ q \notin UpTo(parts, p.offset)
    BY <1>3, <2>1 DEF UpTo
  <2> QED
    BY <1>2, <2>2, <2>3, FS_Subset DEF PlaceIn
<1>4. ASSUME NEW p \in parts, NEW q \in parts, f[p] = f[q] PROVE p = q
  <2>1. p.offset \in Nat /\ p.size \in Nat \ {0} /\ q.offset \in Nat /\ q.size \in Nat \ {0}
    BY PartsAre
  <2>2. ~(p.offset < q.offset) /\ ~(q.offset < p.offset)
    BY <1>3, <1>4
  <2>3. \/ p = q \/ p.offset + p.size <= q.offset \/ q.offset + q.size <= p.offset
    BY PartsApart
  <2> QED
    BY <2>1, <2>2, <2>3
<1>5. IsFiniteSet(1 .. n) /\ Cardinality(1 .. n) = n
  BY <1>1, FS_Interval
<1> HIDE DEF n
<1>6. f \in Injection(parts, 1 .. n)
  BY <1>2, <1>4 DEF Injection, IsInjective
<1> HIDE DEF f
<1>7. f \in Surjection(parts, 1 .. n)
  BY <1>5, <1>6, FS_Injection DEF n
<1>8. ASSUME NEW i \in 1 .. n PROVE \E p \in parts : PlaceIn(parts, p) = i
  <2>1. PICK p \in parts : f[p] = i
    BY <1>7 DEF Surjection
  <2> QED
    BY <2>1 DEF f
<1> QED
  BY <1>8 DEF n

LEMMA VectorHasBytes ==
  ASSUME NEW m \in Messages, NEW parts \in SUBSET PartsOf(m), parts # {}
  PROVE  /\ VectorIO(parts) \in Seq(Seq(SentBytes(m)))
         /\ Len(VectorIO(parts)) \in Nat \ {0}
<1> DEFINE n == Cardinality(parts)
           at(i) == CHOOSE p \in parts : PlaceIn(parts, p) = i
           v == VectorIO(parts)
<1>1. n \in Nat \ {0}
  BY FinitelyManyParts
<1>2. v = [i \in 1 .. n |-> PartBytes(at(i))]
  BY VectorIOPlaces
<1>3. ASSUME NEW i \in 1 .. n PROVE PartBytes(at(i)) \in Seq(SentBytes(m))
  <2>1. at(i) \in parts
    BY PlacesAreTaken
  <2> HIDE DEF at
  <2>2. PICK p \in parts : p = at(i)
    BY <2>1
  <2>3. p.of = m /\ p.offset \in Nat /\ p.size \in Nat
    BY PartsAre
  <2>4. p.offset + p.size \in Nat /\ p.offset <= p.offset + p.size
    BY <2>3
  <2> DEFINE a == p.offset
             b == p.offset + p.size
  <2>5. a \in Nat /\ b \in Nat /\ a <= b
    BY <2>3, <2>4
  <2> HIDE DEF a, b
  <2>6. Bytes(m, a, b) \in Seq(SentBytes(m))
    BY <2>5, BytesBetween
  <2> QED
    BY <2>2, <2>3, <2>6 DEF PartBytes, a, b
<1> HIDE DEF n, v, at
<1>4. v \in [1 .. n -> Seq(SentBytes(m))]
  BY <1>2, <1>3
<1> QED
  BY <1>1, <1>4 DEF v

(* The vector of all the parts of a message is the message.                *)
FirstParts(m, n) == {NthPart(m, k) : k \in 0 .. n}

LEMMA FirstPartsAre ==
  ASSUME NEW m \in Messages, NEW n \in 0 .. LastPart(m)
  PROVE  /\ IsFiniteSet(FirstParts(m, n)) /\ Cardinality(FirstParts(m, n)) = n + 1
         /\ PlaceIn(PartsOf(m), NthPart(m, n)) = n + 1
<1> DEFINE last == LastPart(m)
           Counted == {k \in 0 .. last :
                         IsFiniteSet(FirstParts(m, k)) /\ Cardinality(FirstParts(m, k)) = k + 1}
<1>0. last \in Nat /\ PartSize \in Nat \ {0} /\ n \in 0 .. last
  BY NumberOfParts, PartSizeAssumption
<1>1. ASSUME NEW a \in 0 .. last, NEW b \in 0 .. last
      PROVE  NthPart(m, a).offset <= NthPart(m, b).offset <=> a <= b
  <2> DEFINE u == a * PartSize
             v == b * PartSize
  <2>1. NthPart(m, a).offset = u /\ NthPart(m, b).offset = v
    BY NthPartIs
  <2>2. u \in Nat /\ v \in Nat /\ (a < b => u + PartSize <= v) /\ (b < a => v + PartSize <= u)
        /\ (a = b => u = v) /\ a \in Nat /\ b \in Nat
    <3>1. a \in Nat /\ b \in Nat
      BY <1>0
    <3> QED
      BY <1>0, <3>1, Multiples
  <2> HIDE DEF u, v
  <2> QED
    BY <1>0, <2>1, <2>2
<1> HIDE DEF last
<1>2. 0 \in Counted
  <2>1. FirstParts(m, 0) = {NthPart(m, 0)}
    BY DEF FirstParts
  <2> DEFINE first == NthPart(m, 0)
  <2> HIDE DEF first
  <2>a. IsFiniteSet({first}) /\ Cardinality({first}) = 1
    BY FS_Singleton
  <2>2. IsFiniteSet(FirstParts(m, 0)) /\ Cardinality(FirstParts(m, 0)) = 0 + 1
    BY <2>1, <2>a DEF first
  <2> QED
    BY <1>0, <2>2
<1>3. ASSUME NEW k \in 0 .. last - 1, k \in Counted PROVE k + 1 \in Counted
  <2>1. k + 1 \in 0 .. last /\ k \in 0 .. last
    BY <1>0
  <2>2. FirstParts(m, k + 1) = FirstParts(m, k) \cup {NthPart(m, k + 1)}
    <3>1. \A j : j \in 0 .. k + 1 <=> j \in 0 .. k \/ j = k + 1
      BY <1>0
    <3> QED
      BY <3>1 DEF FirstParts
  <2>3. NthPart(m, k + 1) \notin FirstParts(m, k)
    <3> SUFFICES ASSUME NEW j \in 0 .. k, NthPart(m, k + 1) = NthPart(m, j) PROVE FALSE
      BY DEF FirstParts
    <3>1. j \in 0 .. last /\ ~(k + 1 <= j) /\ k + 1 <= k + 1
      BY <1>0
    <3>2. NthPart(m, k + 1).offset <= NthPart(m, k + 1).offset
      BY <1>1, <2>1, <3>1
    <3>3. ~(NthPart(m, k + 1).offset <= NthPart(m, j).offset)
      BY <1>1, <2>1, <3>1
    <3> QED
      BY <3>2, <3>3
  <2>4. /\ IsFiniteSet(FirstParts(m, k + 1))
        /\ Cardinality(FirstParts(m, k + 1)) = Cardinality(FirstParts(m, k)) + 1
    BY <1>3, <2>2, <2>3, FS_AddElement
  <2>5. Cardinality(FirstParts(m, k)) = k + 1
    BY <1>3
  <2> QED
    BY <2>1, <2>4, <2>5
<1>4. n \in Counted
  <2> HIDE DEF Counted
  <2>1. \A k \in 0 .. last - 1 : k \in Counted => k + 1 \in Counted
    BY <1>3
  <2> QED
    BY <1>0, <1>2, <2>1, InductionUpTo
<1>5. UpTo(PartsOf(m), NthPart(m, n).offset) = FirstParts(m, n)
  <2>1. PartsOf(m) = {NthPart(m, k) : k \in 0 .. last}
    BY NumberOfParts DEF last
  <2>2. \A k : k \in 0 .. n <=> k \in 0 .. last /\ k <= n
    BY <1>0
  <2>3. \A k \in 0 .. last : NthPart(m, k).offset <= NthPart(m, n).offset <=> k <= n
    BY <1>0, <1>1
  <2> QED
    BY <2>1, <2>2, <2>3 DEF UpTo, FirstParts
<1> QED
  BY <1>4, <1>5 DEF PlaceIn

CutsOf(m) ==
  [i \in 1 .. LastPart(m) + 2 |-> IF i <= LastPart(m) + 1 THEN (i - 1) * PartSize ELSE Size(m)]

LEMMA VectorIsWhole ==
  ASSUME NEW m \in Messages
  PROVE  IsCut(VectorIO(PartsOf(m)), m, CutsOf(m))
<1> DEFINE last == LastPart(m)
           n == last + 1
           v == VectorIO(PartsOf(m))
           c == CutsOf(m)
<1>0. last \in Nat /\ PartSize \in Nat \ {0} /\ n \in Nat \ {0} /\ Size(m) \in Nat
  BY NumberOfParts, PartSizeAssumption, MessageSizes
<1>1. Cardinality(PartsOf(m)) = n
  <2>1. last \in 0 .. last
    BY <1>0
  <2>2. Cardinality(FirstParts(m, last)) = last + 1
    BY <2>1, FirstPartsAre
  <2>3. PartsOf(m) = FirstParts(m, last)
    BY NumberOfParts DEF FirstParts
  <2> QED
    BY <2>2, <2>3
<1>2. v \in Seq(Seq(SentBytes(m))) /\ Len(v) = n
      /\ \A i \in 1 .. n : v[i] = PartBytes(CHOOSE p \in PartsOf(m) : PlaceIn(PartsOf(m), p) = i)
  <2>1. PartsOf(m) # {}
    BY <1>1, <1>0, FS_EmptySet
  <2>2. v \in Seq(Seq(SentBytes(m)))
    BY <2>1, VectorHasBytes
  <2>3. v = [i \in 1 .. n |->
               PartBytes(CHOOSE p \in PartsOf(m) : PlaceIn(PartsOf(m), p) = i)]
    BY <1>1, VectorIOPlaces
  <2> HIDE DEF v
  <2>4. DOMAIN v = 1 .. n
    BY <2>3
  <2>5. Len(v) = n
    BY <1>0, <2>2, <2>4
  <2> QED
    BY <2>2, <2>3, <2>5
<1>3. /\ c \in [1 .. n + 1 -> Nat] /\ c[1] = 0 /\ c[n + 1] = Size(m)
      /\ \A i \in 1 .. n : c[i] = (i - 1) * PartSize
  <2>1. n + 1 = last + 2 /\ 1 \in 1 .. n + 1 /\ 1 <= n /\ n + 1 \in 1 .. n + 1 /\ ~(n + 1 <= n)
        /\ \A i \in 1 .. n : i \in 1 .. n + 1 /\ i <= n
    BY <1>0
  <2>2. c = [i \in 1 .. n + 1 |-> IF i <= n THEN (i - 1) * PartSize ELSE Size(m)]
    BY <2>1 DEF CutsOf
  <2>3. \A i \in 1 .. n + 1 : (i - 1) * PartSize \in Nat
    <3> SUFFICES ASSUME NEW i \in 1 .. n + 1 PROVE (i - 1) * PartSize \in Nat
      OBVIOUS
    <3> DEFINE k == i - 1
    <3>1. k \in Nat
      BY <1>0
    <3> HIDE DEF k
    <3>2. k * PartSize \in Nat
      BY <1>0, <3>1, Multiples
    <3> QED
      BY <3>2 DEF k
  <2>4. (1 - 1) * PartSize = 0
    BY <1>0
  <2> HIDE DEF n, c
  <2> QED
    BY <1>0, <2>1, <2>2, <2>3, <2>4
<1> HIDE DEF v, c
<1>4. ASSUME NEW i \in 1 .. n PROVE c[i] < c[i + 1] /\ v[i] = Bytes(m, c[i], c[i + 1])
  <2> DEFINE k == i - 1
             o == k * PartSize
             p == NthPart(m, k)
             next == (k + 1) * PartSize
  <2>1. k \in 0 .. last /\ k + 1 = i /\ o = c[i]
    BY <1>0, <1>3
  <2>2. /\ p \in PartsOf(m) /\ o \in Nat /\ p.of = m /\ p.offset = o /\ p.size \in Nat \ {0}
        /\ k = last => p.offset + p.size = Size(m)
        /\ k # last => p.offset + p.size = next
    BY <2>1, NumberOfParts, NthPartIs
  <2>3. PlaceIn(PartsOf(m), p) = i
    BY <2>1, FirstPartsAre
  <2>4. ASSUME NEW q \in PartsOf(m), PlaceIn(PartsOf(m), q) = i PROVE q = p
    <3>1. PICK j \in 0 .. last : q = NthPart(m, j)
      BY NumberOfParts
    <3>2. j + 1 = i
      BY <2>4, <3>1, FirstPartsAre
    <3>3. j = k
      BY <1>0, <3>2
    <3> QED
      BY <3>1, <3>3
  <2>5. v[i] = PartBytes(p)
    <3> HIDE DEF p
    <3>1. (CHOOSE q \in PartsOf(m) : PlaceIn(PartsOf(m), q) = i) = p
      BY <2>2, <2>3, <2>4
    <3> QED
      BY <1>2, <3>1
  <2>6. c[i + 1] = p.offset + p.size
    <3>1. CASE k = last
      <4>1. i + 1 = n + 1
        BY <2>1, <3>1
      <4> QED
        BY <1>3, <2>2, <3>1, <4>1
    <3>2. CASE k # last
      <4>1. i + 1 \in 1 .. n /\ i + 1 - 1 = k + 1
        BY <1>0, <2>1, <3>2
      <4>2. c[i + 1] = next
        BY <1>3, <4>1
      <4> QED
        BY <2>2, <3>2, <4>2
    <3> QED
      BY <3>1, <3>2
  <2> HIDE DEF p, o
  <2>7. c[i] < c[i + 1]
    BY <2>1, <2>2, <2>6
  <2> QED
    BY <2>1, <2>2, <2>5, <2>6, <2>7 DEF PartBytes
<1> HIDE DEF n
<1> QED
  BY <1>0, <1>2, <1>3, <1>4 DEF IsCut, v, c

(* So is a single part that has no other behind it.                        *)
LEMMA OnlyPartIsWhole ==
  ASSUME NEW m \in Messages, NEW part \in PartsOf(m), part.offset = 0, ~part.more
  PROVE  IsCut(<< PartBytes(part) >>, m, << 0, Size(m) >>)
<1>1. part.of = m /\ part.offset + part.size = Size(m) /\ part.size \in Nat
  BY PartsAre
<1>2. Size(m) \in Nat \ {0}
  BY MessageSizes
<1>3. PartBytes(part) = Bytes(m, 0, Size(m))
  BY <1>1 DEF PartBytes
<1> DEFINE size == Size(m)
           all == Bytes(m, 0, size)
           v == << all >>
           c == << 0, size >>
<1> HIDE DEF size
<1>4. all \in Seq(SentBytes(m)) /\ size \in Nat \ {0}
  BY <1>2, BytesBetween DEF size
<1> HIDE DEF all
<1>5. v \in Seq(Seq(SentBytes(m))) /\ Len(v) = 1 /\ v[1] = all
  BY <1>4
<1>6. c \in [1 .. 1 + 1 -> Nat] /\ c[1] = 0 /\ c[1 + 1] = size
  BY <1>4
<1> HIDE DEF v, c
<1>7. ASSUME NEW i \in 1 .. 1 PROVE c[i] < c[i + 1] /\ v[i] = Bytes(m, c[i], c[i + 1])
  <2>1. i = 1
    OBVIOUS
  <2> QED
    BY <1>4, <1>5, <1>6, <2>1 DEF all
<1>8. IsCut(v, m, c)
  BY <1>4, <1>5, <1>6, <1>7 DEF IsCut, size
<1> QED
  BY <1>3, <1>8 DEF v, c, all, size

-----------------------------------------------------------------------------
(* Every assembly has parts of its own message, not all its bytes, and the *)
(* sizes of a message or none.                                             *)
Sound(assembly, key) ==
  /\ assembly.parts \subseteq AllParts /\ assembly.parts # {}
  /\ \A p \in assembly.parts : PartKey(p.of) = key
  /\ assembly.last \in 0 .. now
  /\ assembly.received \in Nat \ {0}
  /\ assembly.events \in Nat /\ assembly.controls \in Nat /\ assembly.data \in Nat
  /\ ~IsComplete(assembly)

(* While no part of its message has been delivered twice, it has parts     *)
(* that were processed, counts their bytes, and knows the sizes once it    *)
(* has the first part.                                                     *)
HasFirst(parts) == \E p \in parts : p.offset = 0

Exact(assembly, m, seen) ==
  /\ assembly.parts \subseteq seen
  /\ assembly.received = Cardinality(Covered(assembly.parts))
  /\ assembly.events = IF HasFirst(assembly.parts) THEN m.events ELSE 0
  /\ assembly.controls = IF HasFirst(assembly.parts) THEN m.controls ELSE 0
  /\ assembly.data = IF HasFirst(assembly.parts) THEN m.data ELSE 0

LEMMA PartsOfKey ==
  ASSUME NEW m \in Messages, NEW part \in AllParts, PartKey(part.of) = PartKey(m)
  PROVE  part \in PartsOf(m) /\ part.of = m
<1>1. PICK n \in Messages : part \in PartsOf(n)
  BY DEF AllParts
<1>2. part.of = n
  BY <1>1, PartsAre
<1>3. n = m
  BY <1>2, KeysAssumption DEF PartKey
<1> QED
  BY <1>1, <1>2, <1>3

LEMMA SoundParts ==
  ASSUME NEW m \in Messages, NEW assembly, Sound(assembly, PartKey(m))
  PROVE  assembly.parts \in SUBSET PartsOf(m)
  BY PartsOfKey DEF Sound

LEMMA NewAssemblySound ==
  ASSUME NEW m \in Messages, NEW part \in PartsOf(m), part.more \/ part.offset > 0, now \in Nat
  PROVE  /\ Sound(NewAssembly(part), PartKey(m)) /\ NewAssembly(part).parts = {part}
         /\ \A seen : part \in seen => Exact(NewAssembly(part), m, seen)
<1> DEFINE a == NewAssembly(part)
<1>1. /\ part.of = m /\ part.offset \in Nat /\ part.size \in Nat \ {0}
      /\ part.offset + part.size <= Size(m) /\ (part.more => part.offset + part.size # Size(m))
  BY PartsAre
<1>2. /\ a.parts = {part} /\ a.last = now
      /\ a.events = (IF part.offset = 0 THEN m.events ELSE 0)
      /\ a.controls = (IF part.offset = 0 THEN m.controls ELSE 0)
      /\ a.data = (IF part.offset = 0 THEN m.data ELSE 0)
  BY <1>1 DEF NewAssembly, AddPart, HasPayloadInfo
<1>3. a.received = part.size
  <2>1. a.received = 0 + part.size
    BY DEF NewAssembly, AddPart
  <2> HIDE DEF a
  <2> QED
    BY <1>1, <2>1
<1>4. /\ m.events \in Nat /\ m.controls \in Nat /\ m.data \in Nat
      /\ Size(m) = m.events + m.controls + m.data /\ Size(m) \in Nat
  BY MessageSizes
<1> HIDE DEF a
<1>5. ~IsComplete(a)
  <2>1. CASE part.offset = 0
    <3>1. part.size # Size(m)
      BY <1>1, <2>1
    <3>2. a.data + a.events + a.controls = Size(m)
      BY <1>2, <1>4, <2>1
    <3> QED
      BY <1>3, <3>1, <3>2 DEF IsComplete
  <2>2. CASE part.offset # 0
    <3>1. a.data + a.events + a.controls = 0
      BY <1>2, <2>2
    <3> QED
      BY <1>1, <1>3, <3>1 DEF IsComplete
  <2> QED
    BY <2>1, <2>2
<1>6. part \in AllParts
  BY DEF AllParts
<1>7. Sound(a, PartKey(m))
  BY <1>1, <1>2, <1>3, <1>4, <1>5, <1>6 DEF Sound
<1>8. Cardinality(Covered({part})) = part.size
  <2>1. {} \in SUBSET PartsOf(m) /\ part \in PartsOf(m) \ {} /\ {} \cup {part} = {part}
    OBVIOUS
  <2>2. Cardinality(Covered({} \cup {part})) = Cardinality(Covered({})) + part.size
    BY <2>1, CoversMore
  <2>3. Covered({}) = {}
    BY DEF Covered
  <2>4. Cardinality(Covered({})) = 0
    BY <2>3, FS_EmptySet
  <2> QED
    BY <1>1, <2>1, <2>2, <2>4
<1>9. HasFirst(a.parts) <=> part.offset = 0
  BY <1>2 DEF HasFirst
<1>10. \A seen : part \in seen => Exact(a, m, seen)
  BY <1>2, <1>3, <1>8, <1>9 DEF Exact
<1> QED
  BY <1>2, <1>7, <1>10 DEF a

LEMMA AddPartSound ==
  ASSUME NEW m \in Messages, NEW part \in PartsOf(m), now \in Nat,
         NEW assembly, Sound(assembly, PartKey(m))
  PROVE  LET a == AddPart(assembly, part)
         IN  /\ ~IsComplete(a) => Sound(a, PartKey(m))
             /\ a.parts \in SUBSET PartsOf(m) /\ part \in a.parts /\ assembly.parts \subseteq a.parts
             /\ a.events \in Nat /\ a.controls \in Nat /\ a.data \in Nat
<1> DEFINE a == AddPart(assembly, part)
<1>1. part.of = m /\ part.offset \in Nat /\ part.size \in Nat \ {0} /\ part \in AllParts
  BY PartsAre DEF AllParts
<1>2. assembly.parts \in SUBSET PartsOf(m)
  BY SoundParts
<1>3. /\ a.received = assembly.received + part.size /\ a.last = now
      /\ a.events = (IF part.offset = 0 THEN m.events ELSE assembly.events)
      /\ a.controls = (IF part.offset = 0 THEN m.controls ELSE assembly.controls)
      /\ a.data = (IF part.offset = 0 THEN m.data ELSE assembly.data)
      /\ a.parts = IF \E p \in assembly.parts : p.offset = part.offset
                   THEN assembly.parts ELSE assembly.parts \cup {part}
  BY <1>1 DEF AddPart, HasPayloadInfo
<1>4. a.parts = assembly.parts \cup {part}
  <2>1. ASSUME NEW p \in assembly.parts, p.offset = part.offset PROVE p = part
    <3>1. p \in PartsOf(m) /\ p.size \in Nat \ {0}
      BY <1>2, PartsAre
    <3>2. \/ p = part \/ p.offset + p.size <= part.offset \/ part.offset + part.size <= p.offset
      BY <3>1, PartsApart
    <3> QED
      BY <1>1, <2>1, <3>1, <3>2
  <2> HIDE DEF a
  <2> QED
    BY <1>3, <2>1
<1>5. m.events \in Nat /\ m.controls \in Nat /\ m.data \in Nat
  BY MessageSizes
<1> HIDE DEF a
<1>6. a.events \in Nat /\ a.controls \in Nat /\ a.data \in Nat
  BY <1>3, <1>5 DEF Sound
<1>7. a.received \in Nat \ {0} /\ a.last \in 0 .. now
  BY <1>1, <1>3 DEF Sound
<1>8. ~IsComplete(a) => Sound(a, PartKey(m))
  BY <1>1, <1>4, <1>6, <1>7 DEF Sound
<1> QED
  BY <1>2, <1>4, <1>6, <1>8 DEF a

LEMMA AddPartExact ==
  ASSUME NEW m \in Messages, NEW part \in PartsOf(m), NEW seen, part \notin seen,
         NEW assembly, Sound(assembly, PartKey(m)), Exact(assembly, m, seen)
  PROVE  Exact(AddPart(assembly, part), m, seen \cup {part})
<1> DEFINE a == AddPart(assembly, part)
<1>1. part.of = m /\ part.offset \in Nat /\ part.size \in Nat \ {0}
  BY PartsAre
<1>2. assembly.parts \in SUBSET PartsOf(m) /\ part \notin assembly.parts
  BY SoundParts DEF Exact
<1>3. ASSUME NEW p \in assembly.parts PROVE p.offset # part.offset
  <2>1. p \in PartsOf(m) /\ p.size \in Nat \ {0} /\ p # part
    BY <1>2, PartsAre
  <2>2. \/ p = part \/ p.offset + p.size <= part.offset \/ part.offset + part.size <= p.offset
    BY <2>1, PartsApart
  <2> QED
    BY <1>1, <2>1, <2>2
<1>4. /\ a.received = assembly.received + part.size
      /\ a.events = (IF part.offset = 0 THEN m.events ELSE assembly.events)
      /\ a.controls = (IF part.offset = 0 THEN m.controls ELSE assembly.controls)
      /\ a.data = (IF part.offset = 0 THEN m.data ELSE assembly.data)
      /\ a.parts = assembly.parts \cup {part}
  BY <1>1, <1>3 DEF AddPart, HasPayloadInfo
<1> HIDE DEF a
<1>5. Cardinality(Covered(assembly.parts \cup {part})) =
        Cardinality(Covered(assembly.parts)) + part.size
  BY <1>2, CoversMore
<1>6. HasFirst(a.parts) <=> part.offset = 0 \/ HasFirst(assembly.parts)
  BY <1>4 DEF HasFirst
<1> QED
  BY <1>4, <1>5, <1>6 DEF Exact, a

(* An exact assembly counts as complete when it has all the parts, and     *)
(* knows the sizes then.                                                   *)
LEMMA CompleteIsWhole ==
  ASSUME NEW m \in Messages, NEW assembly, NEW seen, assembly.parts \in SUBSET PartsOf(m),
         assembly.parts # {}, Exact(assembly, m, seen)
  PROVE  /\ IsComplete(assembly) <=> assembly.parts = PartsOf(m)
         /\ IsComplete(assembly) =>
              assembly.events = m.events /\ assembly.controls = m.controls /\ assembly.data = m.data
<1>1. /\ m.events \in Nat /\ m.controls \in Nat /\ m.data \in Nat
      /\ Size(m) = m.events + m.controls + m.data
  BY MessageSizes
<1>2. Cardinality(Covered(assembly.parts)) = Size(m) <=> assembly.parts = PartsOf(m)
  BY CoversWhole
<1>3. assembly.parts = PartsOf(m) => HasFirst(assembly.parts)
  <2>1. 0 \in 0 .. LastPart(m)
    BY NumberOfParts
  <2>2. NthPart(m, 0) \in PartsOf(m) /\ NthPart(m, 0).offset = 0 * PartSize
    BY <2>1, NumberOfParts, NthPartIs
  <2>3. 0 * PartSize = 0
    BY PartSizeAssumption
  <2> QED
    BY <2>2, <2>3 DEF HasFirst
<1>4. assembly.received # 0
  <2>1. PICK p \in assembly.parts : TRUE
    OBVIOUS
  <2>2. p.offset \in Nat /\ p.size \in Nat \ {0}
    BY PartsAre
  <2>3. p.offset \in Covered(assembly.parts)
    BY <2>2 DEF Covered, PlacesOf
  <2>4. IsFiniteSet(Covered(assembly.parts))
    BY CoversAtMost
  <2> QED
    BY <2>3, <2>4, FS_EmptySet DEF Exact
<1>5. IsComplete(assembly) => HasFirst(assembly.parts)
  BY <1>4 DEF IsComplete, Exact
<1>6. HasFirst(assembly.parts) =>
        /\ assembly.events = m.events /\ assembly.controls = m.controls /\ assembly.data = m.data
        /\ IsComplete(assembly) <=> Cardinality(Covered(assembly.parts)) = Size(m)
  BY <1>1 DEF IsComplete, Exact
<1> QED
  BY <1>2, <1>3, <1>5, <1>6

-----------------------------------------------------------------------------
(* The inductive invariant.                                                *)
AllRecords == UNION {RecordsOf(m) : m \in Messages}

AssembliesSound == \A key \in DOMAIN partStore : Sound(partStore[key], key)

AssembliesExact ==
  \A m \in Messages :
     PartKey(m) \in DOMAIN partStore \ duplicated => Exact(partStore[PartKey(m)], m, processed)

(* What was processed has left the network.                                *)
ProcessedLeft == \A part \in processed \cap wire : PartKey(part.of) \in duplicated

(* A message of which parts were processed is recorded, or its assembly    *)
(* has them.                                                               *)
Tracked(m) ==
  \/ Recorded(m)
  \/ processed \cap PartsOf(m) = {}
  \/ /\ PartKey(m) \in DOMAIN partStore
     /\ processed \cap PartsOf(m) \subseteq partStore[PartKey(m)].parts

Accounted ==
  \A m \in Messages :
     status = "ok" /\ PartKey(m) \notin abandoned \cup duplicated => Tracked(m)

OInv ==
  /\ TypeOK /\ AssembliesSound /\ AssembliesExact /\ ProcessedLeft
  /\ records \in Seq(AllRecords) /\ RecordsFaithful
  /\ Accounted

(* What abandoning leaves of a store.                                      *)
Kept(store) ==
  /\ DOMAIN partStore' \subseteq DOMAIN store
  /\ \A key \in DOMAIN partStore' : partStore'[key] = store[key]
  /\ abandoned' = abandoned \cup (DOMAIN store \ DOMAIN partStore')
  /\ lastPartCheckTime' \in -1 .. now

LEMMA AbandonKeeps ==
  ASSUME NEW store, AbandonStale(store), TypeOK
  PROVE  Kept(store)
<1>1. lastPartCheckTime \in -1 .. now /\ now \in Nat
  BY BoundsAssumption DEF TypeOK
<1>2. lastPartCheckTime' \in -1 .. now
  BY <1>1 DEF AbandonStale
<1>3. StaleKeys(store) \subseteq DOMAIN store
  BY DEF StaleKeys
<1>4. partStore' = [key \in DOMAIN store \ StaleKeys(store) |-> store[key]]
  BY DEF AbandonStale, Without
<1>5. abandoned' = abandoned \cup StaleKeys(store)
  BY DEF AbandonStale
<1>6. DOMAIN store \ DOMAIN partStore' = StaleKeys(store)
  BY <1>3, <1>4
<1> QED
  BY <1>2, <1>4, <1>5, <1>6 DEF Kept

LEMMA UnchangedKeeps ==
  ASSUME UNCHANGED <<partStore, abandoned, lastPartCheckTime>>, TypeOK
  PROVE  Kept(partStore)
<1>1. lastPartCheckTime' \in -1 .. now
  BY DEF TypeOK
<1>2. DOMAIN partStore' = DOMAIN partStore /\ DOMAIN partStore \ DOMAIN partStore' = {}
  OBVIOUS
<1> QED
  BY <1>1, <1>2 DEF Kept

(* What a call of process() with a part of m does to the store, and adds   *)
(* to the records.                                                         *)
StoreOf(store, m) ==
  /\ \A key : key # PartKey(m) =>
        /\ key \in DOMAIN store <=> key \in DOMAIN partStore
        /\ key \in DOMAIN store => store[key] = partStore[key]
  /\ PartKey(m) \in DOMAIN store =>
        /\ Sound(store[PartKey(m)], PartKey(m))
        /\ PartKey(m) \notin duplicated' => Exact(store[PartKey(m)], m, processed')

Adds(more, m) ==
  /\ records' = records \o more /\ more \in Seq(RecordsOf(m)) /\ status' \in Statuses
  /\ PartKey(m) \notin duplicated' =>
        status' \in {"ok", "hang"} /\ more \in {<< >>, OwnRecords(m)}

Tracks(store, more, part, m) ==
  status' = "ok" /\ PartKey(m) \notin duplicated' =>
    \/ more = OwnRecords(m)
    \/ /\ PartKey(m) \in DOMAIN store /\ part \in store[PartKey(m)].parts
       /\ PartKey(m) \in DOMAIN partStore =>
             partStore[PartKey(m)].parts \subseteq store[PartKey(m)].parts

Effect(store, more, part, m) ==
  Kept(store) /\ StoreOf(store, m) /\ Adds(more, m) /\ Tracks(store, more, part, m)

LEMMA ExtractAdds ==
  ASSUME NEW m \in Messages, NEW vector \in Seq(Seq(SentBytes(m))), Len(vector) \in Nat \ {0},
         NEW events \in Nat, NEW controls \in Nat, NEW data, NEW store,
         Extract(events, controls, data, m, vector, store), TypeOK,
         PartKey(m) \notin duplicated' =>
            /\ events = m.events /\ controls = m.controls /\ data = m.data
            /\ \E c : IsCut(vector, m, c)
  PROVE  \E more :
            /\ Adds(more, m)
            /\ status' = "ok" /\ PartKey(m) \notin duplicated' => more = OwnRecords(m)
            /\ \/ status' = "ok" /\ Kept(store)
               \/ status' # "ok" /\ Kept(partStore)
<1> DEFINE r == HandleOTAMessage(events, controls, data, m.source, m.sequence, vector)
<1>1. /\ status' = r.status /\ records' = records \o r.records
      /\ IF r.status = "ok" THEN AbandonStale(store)
         ELSE UNCHANGED <<partStore, abandoned, lastPartCheckTime>>
  BY DEF Extract
<1>2. r.status \in Statuses /\ r.records \in Seq(RecordsOf(m))
  BY HandlesBytes
<1>3. PartKey(m) \notin duplicated' =>
         /\ r.status \in {"ok", "hang"}
         /\ r.records = IF r.status = "ok" THEN OwnRecords(m) ELSE << >>
  BY HandlesWhole
<1> HIDE DEF r
<1>4. Adds(r.records, m)
  BY <1>1, <1>2, <1>3 DEF Adds
<1>5. \/ status' = "ok" /\ Kept(store)
      \/ status' # "ok" /\ Kept(partStore)
  BY <1>1, AbandonKeeps, UnchangedKeeps
<1>6. status' = "ok" /\ PartKey(m) \notin duplicated' => r.records = OwnRecords(m)
  BY <1>1, <1>3
<1> QED
  BY <1>4, <1>5, <1>6

LEMMA ProcessHasEffect ==
  ASSUME OInv, NEW m \in Messages, NEW part \in PartsOf(m), part \in wire, Process(part),
         duplicated \subseteq duplicated'
  PROVE  \E store, more : Effect(store, more, part, m)
<1> DEFINE key == PartKey(m)
           Single == /\ ~part.more /\ part.offset = 0
                     /\ Extract(m.events, m.controls, m.data, m, << PartBytes(part) >>, partStore)
           First == /\ part.more \/ part.offset > 0
                    /\ key \notin DOMAIN partStore
                    /\ AbandonStale(With(partStore, key, NewAssembly(part)))
                    /\ UNCHANGED <<status, records>>
           whole == AddPart(partStore[key], part)
           Last == /\ key \in DOMAIN partStore /\ IsComplete(whole)
                   /\ Extract(whole.events, whole.controls, whole.data, m, VectorIO(whole.parts),
                              Without(partStore, {key}))
           Further == /\ key \in DOMAIN partStore /\ ~IsComplete(whole)
                      /\ AbandonStale(With(partStore, key, whole))
                      /\ UNCHANGED <<status, records>>
<1>1. /\ part.of = m /\ part.offset \in Nat /\ part.size \in Nat \ {0} /\ now \in Nat
      /\ TypeOK /\ status = "ok"
  BY PartsAre, BoundsAssumption DEF OInv, TypeOK, Process
<1>2. processed' = processed \cup {part} /\ (Single \/ First \/ Last \/ Further)
  BY <1>1 DEF Process
<1>3. key \notin duplicated' => key \notin duplicated /\ part \notin processed
  BY <1>1 DEF OInv, ProcessedLeft
<1>4. /\ key \in DOMAIN partStore => Sound(partStore[key], key)
      /\ key \in DOMAIN partStore /\ key \notin duplicated' => Exact(partStore[key], m, processed)
  BY <1>3 DEF OInv, AssembliesSound, AssembliesExact
<1>5. StoreOf(partStore, m)
  <2>1. key \in DOMAIN partStore /\ key \notin duplicated' => Exact(partStore[key], m, processed')
    BY <1>2, <1>4 DEF Exact
  <2> QED
    BY <1>4, <2>1 DEF StoreOf
<1>6. ASSUME NEW a, Sound(a, key), key \notin duplicated' => Exact(a, m, processed')
      PROVE  /\ StoreOf(With(partStore, key, a), m)
             /\ key \in DOMAIN With(partStore, key, a) /\ With(partStore, key, a)[key] = a
  <2> DEFINE store == With(partStore, key, a)
  <2>1. /\ DOMAIN store = DOMAIN partStore \cup {key} /\ store[key] = a
        /\ \A k \in DOMAIN partStore : k # key => store[k] = partStore[k]
    BY DEF With
  <2> HIDE DEF store
  <2> QED
    BY <1>6, <2>1 DEF StoreOf, store
<1>7. StoreOf(Without(partStore, {key}), m)
  <2> DEFINE store == Without(partStore, {key})
  <2>1. /\ DOMAIN store = DOMAIN partStore \ {key}
        /\ \A k \in DOMAIN store : store[k] = partStore[k]
    BY DEF Without
  <2> HIDE DEF store
  <2> QED
    BY <2>1 DEF StoreOf, store
<1>8. UNCHANGED <<status, records>> => Adds(<< >>, m)
  <2>1. records \o << >> = records
    BY ConcatEmptySeq DEF OInv
  <2>2. << >> \in Seq(RecordsOf(m))
    BY EmptySeq
  <2> QED
    BY <1>1, <2>1, <2>2 DEF Adds, Statuses
<1> HIDE DEF key, whole
<1>9. CASE Single
  <2> DEFINE v == << PartBytes(part) >>
  <2>1. IsCut(v, m, << 0, Size(m) >>)
    BY <1>9, OnlyPartIsWhole
  <2>2. v \in Seq(Seq(SentBytes(m))) /\ Len(v) \in Nat \ {0} /\ \E c : IsCut(v, m, c)
    BY <2>1, Zenon DEF IsCut
  <2>3. m.events \in Nat /\ m.controls \in Nat
    BY MessageSizes
  <2> HIDE DEF v
  <2>4. Extract(m.events, m.controls, m.data, m, v, partStore)
    BY <1>9 DEF v
  <2>5. PICK more : /\ Adds(more, m)
                    /\ status' = "ok" /\ key \notin duplicated' => more = OwnRecords(m)
                    /\ Kept(partStore)
    BY <1>1, <2>2, <2>3, <2>4, ExtractAdds DEF key
  <2>6. Effect(partStore, more, part, m)
    BY <1>5, <2>5 DEF Effect, Tracks, key
  <2> QED
    BY <2>6
<1>10. CASE First
  <2> DEFINE a == NewAssembly(part)
             store == With(partStore, key, a)
  <2>1. Sound(a, key) /\ a.parts = {part} /\ Exact(a, m, processed')
    BY <1>1, <1>2, <1>10, NewAssemblySound DEF key
  <2> HIDE DEF a
  <2>2. StoreOf(store, m) /\ key \in DOMAIN store /\ store[key] = a
    BY <1>6, <2>1
  <2>3. AbandonStale(store)
    BY <1>10 DEF a
  <2> HIDE DEF store
  <2>4. Kept(store)
    BY <1>1, <2>3, AbandonKeeps
  <2>5. Tracks(store, << >>, part, m)
    BY <1>10, <2>1, <2>2 DEF Tracks, key
  <2>6. Effect(store, << >>, part, m)
    BY <1>8, <1>10, <2>2, <2>4, <2>5 DEF Effect
  <2> QED
    BY <2>6
<1>11. ASSUME key \in DOMAIN partStore
       PROVE  /\ ~IsComplete(whole) => Sound(whole, key)
              /\ whole.parts \in SUBSET PartsOf(m) /\ part \in whole.parts
              /\ partStore[key].parts \subseteq whole.parts
              /\ whole.events \in Nat /\ whole.controls \in Nat /\ whole.data \in Nat
              /\ key \notin duplicated' => Exact(whole, m, processed')
  <2> DEFINE old == partStore[key]
  <2>1. Sound(old, PartKey(m)) /\ (key \notin duplicated' => Exact(old, m, processed))
    BY <1>4, <1>11 DEF key
  <2>2. whole = AddPart(old, part)
    BY DEF whole
  <2> HIDE DEF old
  <2>3. key \notin duplicated' => Exact(whole, m, processed \cup {part})
    BY <1>3, <2>1, <2>2, AddPartExact
  <2>4. /\ ~IsComplete(whole) => Sound(whole, PartKey(m))
        /\ whole.parts \in SUBSET PartsOf(m) /\ part \in whole.parts
        /\ old.parts \subseteq whole.parts
        /\ whole.events \in Nat /\ whole.controls \in Nat /\ whole.data \in Nat
    BY <1>1, <2>1, <2>2, AddPartSound
  <2> QED
    BY <1>2, <2>3, <2>4 DEF old, key
<1>12. CASE Last
  <2> DEFINE v == VectorIO(whole.parts)
             store == Without(partStore, {key})
  <2>1. v \in Seq(Seq(SentBytes(m))) /\ Len(v) \in Nat \ {0}
    BY <1>11, <1>12, VectorHasBytes
  <2>2. key \notin duplicated' =>
           /\ whole.events = m.events /\ whole.controls = m.controls /\ whole.data = m.data
           /\ \E c : IsCut(v, m, c)
    <3>1. key \notin duplicated' =>
             /\ whole.events = m.events /\ whole.controls = m.controls /\ whole.data = m.data
             /\ whole.parts = PartsOf(m)
      BY <1>11, <1>12, CompleteIsWhole
    <3> QED
      BY <3>1, VectorIsWhole
  <2>3. Extract(whole.events, whole.controls, whole.data, m, v, store)
    BY <1>12
  <2>4. StoreOf(store, m)
    BY <1>7
  <2> HIDE DEF v, store
  <2>5. PICK more : /\ Adds(more, m)
                    /\ status' = "ok" /\ key \notin duplicated' => more = OwnRecords(m)
                    /\ \/ status' = "ok" /\ Kept(store)
                       \/ status' # "ok" /\ Kept(partStore)
    BY <1>1, <1>11, <1>12, <2>1, <2>2, <2>3, ExtractAdds DEF key
  <2>6. Tracks(store, more, part, m) /\ Tracks(partStore, more, part, m)
    BY <2>5 DEF Tracks, key
  <2>7. Effect(store, more, part, m) \/ Effect(partStore, more, part, m)
    BY <1>5, <2>4, <2>5, <2>6 DEF Effect
  <2> QED
    BY <2>7
<1>13. CASE Further
  <2> DEFINE store == With(partStore, key, whole)
  <2>1. StoreOf(store, m) /\ key \in DOMAIN store /\ store[key] = whole
    BY <1>6, <1>11, <1>13
  <2>2. AbandonStale(store)
    BY <1>13
  <2> HIDE DEF store
  <2>3. Kept(store)
    BY <1>1, <2>2, AbandonKeeps
  <2>4. Tracks(store, << >>, part, m)
    BY <1>11, <1>13, <2>1 DEF Tracks, key
  <2>5. Effect(store, << >>, part, m)
    BY <1>8, <1>13, <2>1, <2>3, <2>4 DEF Effect
  <2> QED
    BY <2>5
<1> HIDE DEF Single, First, Last, Further
<1> QED
  BY <1>2, <1>9, <1>10, <1>12, <1>13

(* The records of a message from all its bytes are its own.                *)
LEMMA OwnRecordsAre ==
  ASSUME NEW m \in Messages
  PROVE  /\ Len(OwnRecords(m)) \in Nat
         /\ \A i \in 1 .. Len(OwnRecords(m)) : IsRecordOf(OwnRecords(m)[i], m)
         /\ \E i \in 1 .. Len(OwnRecords(m)) : OwnRecords(m)[i] = OwnOtaRecord(m)
<1> DEFINE event == EventRecord(Bytes(m, 0, m.events))
           ota == OwnOtaRecord(m)
<1>1. IsRecordOf(event, m)
  BY DEF IsRecordOf, EventRecord
<1>2. IsRecordOf(ota, m)
  BY DEF IsRecordOf, OwnOtaRecord, OtaRecord, PhyHeader, MacHeader
<1>3. OwnRecords(m) = (IF m.events > 0 THEN << event >> ELSE << >>) \o << ota >>
  BY DEF OwnRecords
<1> HIDE DEF event, ota
<1>4. OwnRecords(m) = IF m.events > 0 THEN << event, ota >> ELSE << ota >>
  <2>1. << event >> \o << ota >> = << event, ota >>
    <3> DEFINE S == {event, ota}
               first == << event >>
               second == << ota >>
               both == << event, ota >>
    <3>1. /\ first \in Seq(S) /\ Len(first) = 1 /\ first[1] = event
          /\ second \in Seq(S) /\ Len(second) = 1 /\ second[1] = ota
          /\ both \in Seq(S) /\ Len(both) = 2 /\ both[1] = event /\ both[2] = ota
      OBVIOUS
    <3> HIDE DEF S, first, second, both
    <3>2. /\ first \o second \in Seq(S) /\ Len(first \o second) = 2
          /\ (first \o second)[1] = event /\ (first \o second)[2] = ota
      <4>1. /\ first \o second \in Seq(S) /\ Len(first \o second) = 1 + 1
            /\ \A i \in 1 .. 1 + 1 :
                  (first \o second)[i] = IF i <= 1 THEN first[i] ELSE second[i - 1]
        BY <3>1, ConcatProperties
      <4>2. 1 \in 1 .. 1 + 1 /\ 2 \in 1 .. 1 + 1 /\ 1 <= 1 /\ ~(2 <= 1) /\ 2 - 1 = 1 /\ 1 + 1 = 2
        OBVIOUS
      <4> QED
        BY <3>1, <4>1, <4>2
    <3>3. \A i \in 1 .. 2 : i = 1 \/ i = 2
      OBVIOUS
    <3>4. first \o second = both
      BY <3>1, <3>2, <3>3, SeqEqual
    <3> QED
      BY <3>4 DEF first, second, both
  <2>2. << >> \o << ota >> = << ota >>
    OBVIOUS
  <2> QED
    BY <1>3, <2>1, <2>2
<1>5. CASE m.events > 0
  <2>1. OwnRecords(m) = << event, ota >>
    BY <1>4, <1>5
  <2>2. Len(<< event, ota >>) = 2 /\ << event, ota >>[1] = event /\ << event, ota >>[2] = ota
    OBVIOUS
  <2>3. \A i \in 1 .. 2 : i = 1 \/ i = 2
    OBVIOUS
  <2>4. 2 \in 1 .. 2
    OBVIOUS
  <2> QED
    BY <1>1, <1>2, <2>1, <2>2, <2>3, <2>4 DEF ota
<1>6. CASE ~(m.events > 0)
  <2>1. OwnRecords(m) = << ota >>
    BY <1>4, <1>6
  <2>2. Len(<< ota >>) = 1 /\ << ota >>[1] = ota
    OBVIOUS
  <2>3. \A i \in 1 .. 1 : i = 1
    OBVIOUS
  <2>4. 1 \in 1 .. 1
    OBVIOUS
  <2> QED
    BY <1>2, <2>1, <2>2, <2>3, <2>4 DEF ota
<1> QED
  BY <1>5, <1>6

LEMMA RecordsGrow ==
  ASSUME NEW m \in Messages, NEW old \in Seq(AllRecords), NEW more \in Seq(RecordsOf(m))
  PROVE  /\ old \o more \in Seq(AllRecords)
         /\ \A i \in 1 .. Len(old) : i \in 1 .. Len(old \o more) /\ (old \o more)[i] = old[i]
         /\ \A j \in 1 .. Len(more) :
               Len(old) + j \in 1 .. Len(old \o more) /\ (old \o more)[Len(old) + j] = more[j]
         /\ \A i \in 1 .. Len(old \o more) :
               i \in 1 .. Len(old) \/ \E j \in 1 .. Len(more) : (old \o more)[i] = more[j]
<1> DEFINE r == old \o more
<1>1. more \in Seq(AllRecords)
  <2>1. RecordsOf(m) \subseteq AllRecords
    BY DEF AllRecords
  <2> HIDE DEF AllRecords
  <2>2. \A i \in 1 .. Len(more) : more[i] \in AllRecords
    BY <2>1, ElementOfSeq
  <2> QED
    BY <2>2, LenProperties
<1>2. Len(old) \in Nat /\ Len(more) \in Nat
  BY LenProperties
<1>3. /\ r \in Seq(AllRecords) /\ Len(r) = Len(old) + Len(more)
      /\ \A i \in 1 .. Len(old) + Len(more) :
            r[i] = IF i <= Len(old) THEN old[i] ELSE more[i - Len(old)]
  BY <1>1, ConcatProperties
<1> HIDE DEF r
<1>4. ASSUME NEW i \in 1 .. Len(old) PROVE i \in 1 .. Len(r) /\ r[i] = old[i]
  BY <1>2, <1>3
<1>5. ASSUME NEW j \in 1 .. Len(more) PROVE Len(old) + j \in 1 .. Len(r) /\ r[Len(old) + j] = more[j]
  <2> DEFINE i == Len(old) + j
  <2>1. i \in 1 .. Len(old) + Len(more) /\ ~(i <= Len(old)) /\ i - Len(old) = j
    BY <1>2
  <2> HIDE DEF i
  <2> QED
    BY <1>3, <2>1 DEF i
<1>6. ASSUME NEW i \in 1 .. Len(r), i \notin 1 .. Len(old)
      PROVE  \E j \in 1 .. Len(more) : r[i] = more[j]
  <2> DEFINE j == i - Len(old)
  <2>1. j \in 1 .. Len(more) /\ i \in 1 .. Len(old) + Len(more) /\ ~(i <= Len(old))
    BY <1>2, <1>3, <1>6
  <2>2. r[i] = more[j]
    BY <1>3, <2>1
  <2> HIDE DEF j
  <2> QED
    BY <2>1, <2>2
<1> QED
  BY <1>3, <1>4, <1>5, <1>6 DEF r

LEMMA EffectKeeps ==
  ASSUME OInv, NEW m \in Messages, NEW part \in PartsOf(m), part \in wire,
         NEW store, NEW more, Effect(store, more, part, m),
         status = "ok", processed' = processed \cup {part},
         duplicated \subseteq duplicated', duplicated' \subseteq duplicated \cup {PartKey(m)},
         wire' \subseteq wire, part \in wire' => PartKey(m) \in duplicated',
         UNCHANGED <<now, malformed, partTimeoutThreshold>>
  PROVE  OInv'
<1> DEFINE key == PartKey(m)
<1>1. /\ TypeOK /\ now \in Nat /\ part.of = m /\ part \in AllParts /\ key \in Keys
      /\ \A n \in Messages : n # m => PartKey(n) # key
  BY PartsAre, KeysAssumption, BoundsAssumption DEF OInv, TypeOK, AllParts, Keys, PartKey
<1>2. /\ DOMAIN partStore' \subseteq DOMAIN store
      /\ \A k \in DOMAIN partStore' : partStore'[k] = store[k]
      /\ abandoned' = abandoned \cup (DOMAIN store \ DOMAIN partStore')
      /\ lastPartCheckTime' \in -1 .. now
  BY DEF Effect, Kept
<1>3. /\ \A k : k # key => /\ k \in DOMAIN store <=> k \in DOMAIN partStore
                           /\ k \in DOMAIN store => store[k] = partStore[k]
      /\ key \in DOMAIN store =>
            Sound(store[key], key) /\ (key \notin duplicated' => Exact(store[key], m, processed'))
  BY DEF Effect, StoreOf
<1>4. /\ records' = records \o more /\ more \in Seq(RecordsOf(m)) /\ status' \in Statuses
      /\ key \notin duplicated' =>
            status' \in {"ok", "hang"} /\ more \in {<< >>, OwnRecords(m)}
  BY DEF Effect, Adds
<1>5. Tracks(store, more, part, m)
  BY DEF Effect
<1>6. \A k \in DOMAIN store : Sound(store[k], k)
  BY <1>3 DEF OInv, AssembliesSound
<1>7. AssembliesSound'
  <2>1. ASSUME NEW k \in DOMAIN partStore' PROVE Sound(partStore[k], k)'
    BY <1>2, <1>6 DEF Sound, IsComplete
  <2> QED
    BY <2>1 DEF AssembliesSound
<1> HIDE DEF key
<1>8. TypeOK'
  <2>1. DOMAIN store \subseteq Keys
    BY <1>1, <1>3 DEF TypeOK
  <2>2. DOMAIN partStore' \subseteq Keys /\ abandoned' \subseteq Keys
    BY <1>1, <1>2, <2>1 DEF TypeOK
  <2>3. duplicated' \subseteq Keys /\ wire' \subseteq AllParts /\ processed' \subseteq AllParts
    BY <1>1 DEF TypeOK, key
  <2>4. /\ now' \in 0 .. MaxTime /\ malformed' \in 0 .. MaxMalformed
        /\ lastPartCheckTime' \in -1 .. now' /\ partTimeoutThreshold' \in PartTimeouts
        /\ status' \in {"ok", "hang", "overrun", "garbled"}
    BY <1>1, <1>2, <1>4 DEF TypeOK, Statuses
  <2>5. \A k \in DOMAIN partStore' :
           LET assembly == partStore'[k]
           IN  /\ assembly.parts \subseteq AllParts /\ assembly.parts # {}
               /\ assembly.last \in 0 .. now'
               /\ assembly.received \in Nat \ {0}
               /\ ~IsComplete(assembly)
    BY <1>7 DEF AssembliesSound, Sound, IsComplete
  <2> QED
    BY <2>2, <2>3, <2>4, <2>5 DEF TypeOK, IsComplete
<1>9. AssembliesExact'
  <2> SUFFICES ASSUME NEW n \in Messages, PartKey(n) \in DOMAIN partStore' \ duplicated'
               PROVE  Exact(partStore'[PartKey(n)], n, processed')
    BY DEF AssembliesExact, Exact
  <2>1. CASE n = m
    BY <1>2, <1>3, <2>1 DEF key
  <2>2. CASE n # m
    <3> DEFINE k == PartKey(n)
    <3>1. k # key /\ k \in DOMAIN store /\ partStore'[k] = store[k]
      BY <1>1, <1>2, <2>2
    <3>2. k \in DOMAIN partStore \ duplicated /\ partStore'[k] = partStore[k]
      BY <1>3, <3>1
    <3>3. Exact(partStore[k], n, processed)
      BY <3>2 DEF OInv, AssembliesExact
    <3> QED
      BY <3>2, <3>3 DEF Exact
  <2> QED
    BY <2>1, <2>2
<1>10. ProcessedLeft'
  BY <1>1 DEF OInv, ProcessedLeft, key
<1>11. records \in Seq(AllRecords)
  BY DEF OInv
<1>12. /\ records' \in Seq(AllRecords)
       /\ \A i \in 1 .. Len(records) : i \in 1 .. Len(records') /\ records'[i] = records[i]
       /\ \A j \in 1 .. Len(more) :
             Len(records) + j \in 1 .. Len(records') /\ records'[Len(records) + j] = more[j]
       /\ \A i \in 1 .. Len(records') :
             i \in 1 .. Len(records) \/ \E j \in 1 .. Len(more) : records'[i] = more[j]
  BY <1>4, <1>11, RecordsGrow
<1>13. RecordsFaithful'
  <2>1. status' \in {"garbled", "overrun"} => duplicated' # {}
    BY <1>4
  <2>2. ASSUME NEW i \in 1 .. Len(records'), RecordKey(records'[i]) \notin duplicated'
        PROVE  \E n \in Messages : IsRecordOf(records'[i], n)
    <3>1. CASE i \in 1 .. Len(records)
      BY <1>12, <2>2, <3>1 DEF OInv, RecordsFaithful
    <3>2. ASSUME NEW j \in 1 .. Len(more), records'[i] = more[j]
          PROVE  IsRecordOf(records'[i], m)
      <4>1. more[j] \in RecordsOf(m)
        BY <1>4, ElementOfSeq
      <4>2. key \notin duplicated'
        BY <2>2, <3>2, <4>1, RecordsHaveKey DEF key
      <4>3. more = OwnRecords(m)
        <5>1. more # << >>
          OBVIOUS
        <5> QED
          BY <1>4, <4>2, <5>1
      <4> QED
        BY <3>2, <4>3, OwnRecordsAre
    <3> QED
      BY <1>12, <3>1, <3>2
  <2> QED
    BY <2>1, <2>2 DEF RecordsFaithful, RecordKey, IsRecordOf
<1>14. \A n \in Messages : Recorded(n) => Recorded(n)'
  BY <1>12 DEF Recorded, IsRecordOf
<1>15. more = OwnRecords(m) => Recorded(m)'
  <2> SUFFICES ASSUME more = OwnRecords(m) PROVE Recorded(m)'
    OBVIOUS
  <2>1. PICK j \in 1 .. Len(more) : more[j] = OwnOtaRecord(m)
    BY OwnRecordsAre
  <2>2. IsRecordOf(more[j], m) /\ more[j].type = "ota"
    BY <2>1, OwnRecordsAre DEF OwnOtaRecord, OtaRecord
  <2>3. \E i \in 1 .. Len(records') : records'[i] = more[j]
    BY <1>12
  <2> QED
    BY <2>2, <2>3 DEF Recorded, IsRecordOf
<1>16. Accounted'
  <2> SUFFICES ASSUME NEW n \in Messages, status' = "ok",
                      PartKey(n) \notin abandoned' \cup duplicated'
               PROVE  Tracked(n)'
    BY DEF Accounted
  <2> DEFINE k == PartKey(n)
  <2>1. Tracked(n) /\ (k \in DOMAIN store => k \in DOMAIN partStore' /\ partStore'[k] = store[k])
    BY <1>2 DEF OInv, Accounted
  <2>2. CASE n # m
    <3>1. processed' \cap PartsOf(n) = processed \cap PartsOf(n)
      BY <1>1, <2>2, PartsAre
    <3>2. k \in DOMAIN partStore => k \in DOMAIN partStore' /\ partStore'[k] = partStore[k]
      BY <1>1, <1>3, <2>1, <2>2
    <3> QED
      BY <1>14, <2>1, <3>1, <3>2 DEF Tracked
  <2>3. CASE n = m
    <3>1. processed' \cap PartsOf(m) = (processed \cap PartsOf(m)) \cup {part}
      OBVIOUS
    <3>2. \/ more = OwnRecords(m)
          \/ /\ k \in DOMAIN store /\ part \in store[k].parts
             /\ k \in DOMAIN partStore => partStore[k].parts \subseteq store[k].parts
      BY <1>5, <2>3 DEF Tracks
    <3>3. CASE more = OwnRecords(m)
      BY <1>15, <2>3, <3>3 DEF Tracked
    <3>4. CASE /\ k \in DOMAIN store /\ part \in store[k].parts
               /\ k \in DOMAIN partStore => partStore[k].parts \subseteq store[k].parts
      BY <1>14, <2>1, <2>3, <3>1, <3>4 DEF Tracked
    <3> QED
      BY <3>2, <3>3, <3>4
  <2> QED
    BY <2>2, <2>3
<1> QED
  BY <1>7, <1>8, <1>9, <1>10, <1>12, <1>13, <1>16 DEF OInv

(* A datagram that is rejected, and the time that passes.                  *)
LEMMA OthersKeep ==
  ASSUME OInv, Kept(partStore),
         UNCHANGED <<wire, duplicated, partTimeoutThreshold, status, records, processed>>,
         now' \in now .. MaxTime, malformed' \in 0 .. MaxMalformed
  PROVE  OInv'
<1>1. TypeOK /\ now \in Nat /\ now' \in Nat /\ now <= now'
  BY BoundsAssumption DEF OInv, TypeOK
<1>2. /\ DOMAIN partStore' \subseteq DOMAIN partStore
      /\ \A k \in DOMAIN partStore' : partStore'[k] = partStore[k]
      /\ abandoned' = abandoned \cup (DOMAIN partStore \ DOMAIN partStore')
      /\ lastPartCheckTime' \in -1 .. now
  BY DEF Kept
<1>3. AssembliesSound'
  <2>1. ASSUME NEW k \in DOMAIN partStore' PROVE Sound(partStore[k], k)'
    <3>1. Sound(partStore[k], k) /\ partStore'[k] = partStore[k]
      BY <1>2 DEF OInv, AssembliesSound
    <3>2. partStore[k].last \in 0 .. now'
      BY <1>1, <3>1 DEF Sound
    <3> QED
      BY <3>1, <3>2 DEF Sound, IsComplete
  <2> QED
    BY <2>1 DEF AssembliesSound
<1>4. TypeOK'
  <2>1. /\ now' \in 0 .. MaxTime /\ malformed' \in 0 .. MaxMalformed
        /\ lastPartCheckTime' \in -1 .. now'
    BY <1>1, <1>2
  <2>2. DOMAIN partStore' \subseteq Keys /\ abandoned' \subseteq Keys
    BY <1>1, <1>2 DEF TypeOK
  <2>3. \A k \in DOMAIN partStore' :
           LET assembly == partStore'[k]
           IN  /\ assembly.parts \subseteq AllParts /\ assembly.parts # {}
               /\ assembly.last \in 0 .. now'
               /\ assembly.received \in Nat \ {0}
               /\ ~IsComplete(assembly)
    BY <1>3 DEF AssembliesSound, Sound, IsComplete
  <2> QED
    BY <1>1, <2>1, <2>2, <2>3 DEF TypeOK, IsComplete
<1>5. AssembliesExact'
  BY <1>2 DEF OInv, AssembliesExact, Exact
<1>6. ProcessedLeft'
  BY DEF OInv, ProcessedLeft
<1>7. RecordsFaithful' /\ records' \in Seq(AllRecords)
  BY DEF OInv, RecordsFaithful, RecordKey, IsRecordOf
<1>8. Accounted'
  <2> SUFFICES ASSUME NEW m \in Messages, status' = "ok",
                      PartKey(m) \notin abandoned' \cup duplicated'
               PROVE  Tracked(m)'
    BY DEF Accounted
  <2>1. Tracked(m) /\ (PartKey(m) \in DOMAIN partStore => PartKey(m) \in DOMAIN partStore')
    BY <1>2 DEF OInv, Accounted
  <2>2. Recorded(m) => Recorded(m)'
    BY DEF Recorded, IsRecordOf
  <2> QED
    BY <1>2, <2>1, <2>2 DEF Tracked
<1> QED
  BY <1>3, <1>4, <1>5, <1>6, <1>7, <1>8 DEF OInv

LEMMA InitialInvariant == Init => OInv
<1> SUFFICES ASSUME Init PROVE OInv
  OBVIOUS
<1>1. DOMAIN partStore = {} /\ records = << >> /\ Len(records) = 0 /\ processed = {}
  BY DEF Init
<1>2. TypeOK
  BY <1>1, BoundsAssumption DEF Init, TypeOK
<1>3. AssembliesSound /\ AssembliesExact /\ ProcessedLeft
  BY <1>1 DEF AssembliesSound, AssembliesExact, ProcessedLeft
<1>4. records \in Seq(AllRecords)
  BY <1>1, EmptySeq
<1>5. RecordsFaithful
  <2>1. status = "ok" /\ \A i \in 1 .. Len(records) : FALSE
    BY <1>1 DEF Init
  <2> QED
    BY <2>1 DEF RecordsFaithful
<1>6. Accounted
  BY <1>1 DEF Accounted, Tracked
<1> QED
  BY <1>2, <1>3, <1>4, <1>5, <1>6 DEF OInv

LEMMA InvariantIsKept == OInv /\ [Next]_vars => OInv'
<1> SUFFICES ASSUME OInv, [Next]_vars PROVE OInv'
  OBVIOUS
<1>0. TypeOK /\ now \in 0 .. MaxTime /\ malformed \in 0 .. MaxMalformed /\ MaxMalformed \in Nat
  BY BoundsAssumption DEF OInv, TypeOK
<1>p. ASSUME NEW part \in wire
      PROVE  \E m \in Messages : part \in PartsOf(m) /\ part.of = m
  <2>1. PICK m \in Messages : part \in PartsOf(m)
    BY <1>0 DEF TypeOK, AllParts
  <2> QED
    BY <2>1, PartsAre
<1>1. ASSUME NEW part \in wire, Deliver(part) PROVE OInv'
  <2>1. PICK m \in Messages : part \in PartsOf(m) /\ part.of = m
    BY <1>p
  <2>2. /\ Process(part) /\ wire' = wire \ {part} /\ duplicated' = duplicated
        /\ UNCHANGED <<now, malformed, partTimeoutThreshold>>
    BY <1>1 DEF Deliver
  <2>3. status = "ok" /\ processed' = processed \cup {part}
    BY <2>2 DEF Process
  <2>4. PICK store, more : Effect(store, more, part, m)
    BY <2>1, <2>2, ProcessHasEffect
  <2> QED
    BY <2>1, <2>2, <2>3, <2>4, EffectKeeps
<1>2. ASSUME NEW part \in wire, Duplicate(part) PROVE OInv'
  <2>1. PICK m \in Messages : part \in PartsOf(m) /\ part.of = m
    BY <1>p
  <2>2. /\ Process(part) /\ wire' = wire /\ duplicated' = duplicated \cup {PartKey(m)}
        /\ UNCHANGED <<now, malformed, partTimeoutThreshold>>
    BY <1>2, <2>1 DEF Duplicate
  <2>3. status = "ok" /\ processed' = processed \cup {part}
    BY <2>2 DEF Process
  <2>4. PICK store, more : Effect(store, more, part, m)
    BY <2>1, <2>2, ProcessHasEffect
  <2> QED
    BY <2>1, <2>2, <2>3, <2>4, EffectKeeps
<1>3. CASE Reject
  <2>1. /\ AbandonStale(partStore)
        /\ UNCHANGED <<now, wire, duplicated, partTimeoutThreshold, status, records, processed>>
        /\ malformed < MaxMalformed /\ malformed' = malformed + 1
    BY <1>3 DEF Reject
  <2>2. now' \in now .. MaxTime /\ malformed' \in 0 .. MaxMalformed
    BY <1>0, <2>1, BoundsAssumption
  <2>3. Kept(partStore)
    BY <1>0, <2>1, AbandonKeeps
  <2> QED
    BY <2>1, <2>2, <2>3, OthersKeep
<1>4. CASE Tick
  <2>1. /\ now < MaxTime /\ now' = now + 1
        /\ UNCHANGED <<wire, duplicated, malformed, partStore, lastPartCheckTime,
                       partTimeoutThreshold, status, records, processed, abandoned>>
    BY <1>4 DEF Tick
  <2>2. now' \in now .. MaxTime /\ malformed' \in 0 .. MaxMalformed
    BY <1>0, <2>1, BoundsAssumption
  <2>3. Kept(partStore)
    BY <1>0, <2>1, UnchangedKeeps
  <2> QED
    BY <2>1, <2>2, <2>3, OthersKeep
<1>5. CASE UNCHANGED vars
  <2>1. UNCHANGED <<now, wire, duplicated, malformed, partStore, lastPartCheckTime,
                    partTimeoutThreshold, status, records, processed, abandoned>>
    BY <1>5 DEF vars
  <2>2. now' \in now .. MaxTime /\ malformed' \in 0 .. MaxMalformed
    BY <1>0, <2>1, BoundsAssumption
  <2>3. Kept(partStore)
    BY <1>0, <2>1, UnchangedKeeps
  <2> QED
    BY <2>1, <2>2, <2>3, OthersKeep
<1> QED
  BY <1>1, <1>2, <1>3, <1>4, <1>5 DEF Next

THEOREM ReassemblyInvariant == Spec => []OInv
<1> QED
  BY InitialInvariant, InvariantIsKept, PTL DEF Spec

-----------------------------------------------------------------------------
(* The variables have their types: no assembly is kept that is empty or    *)
(* has all its bytes (process(), otaextractor.cc).                         *)
THEOREM ReassemblyTypes == Spec => []TypeOK
<1>1. OInv => TypeOK
  BY DEF OInv
<1> QED
  BY <1>1, ReassemblyInvariant, PTL

(* Every record has the fields of one message, unless a part of it was     *)
(* delivered twice: whatever the order the parts arrive in and however the *)
(* parts cut its fields, stringFromVectorIO finds each where it is.        *)
THEOREM RecordsAreFaithful == Spec => []RecordsFaithful
<1>1. OInv => RecordsFaithful
  BY DEF OInv
<1> QED
  BY <1>1, ReassemblyInvariant, PTL

(* A message whose parts have all been received is recorded, unless one of *)
(* them was delivered twice, its assembly was abandoned or process() does  *)
(* not return.                                                             *)
THEOREM ReceivedMessagesAreRecorded == Spec => []ReceivedIsRecorded
<1>1. OInv => ReceivedIsRecorded
  <2> SUFFICES ASSUME OInv, NEW m \in Messages, PartsOf(m) \subseteq processed, status = "ok",
                      PartKey(m) \notin abandoned \cup duplicated, ~Recorded(m)
               PROVE  FALSE
    BY DEF ReceivedIsRecorded
  <2> DEFINE key == PartKey(m)
             assembly == partStore[key]
  <2>1. Tracked(m)
    BY DEF OInv, Accounted
  <2>2. PartsOf(m) # {}
    <3>1. 0 \in 0 .. LastPart(m)
      BY NumberOfParts
    <3>2. NthPart(m, 0) \in {NthPart(m, n) : n \in 0 .. LastPart(m)}
      BY <3>1
    <3> QED
      BY <3>2, NumberOfParts
  <2>3. key \in DOMAIN partStore /\ PartsOf(m) \subseteq assembly.parts
    BY <2>1, <2>2 DEF Tracked
  <2>4. Sound(assembly, key) /\ Exact(assembly, m, processed)
    BY <2>3 DEF OInv, AssembliesSound, AssembliesExact
  <2> HIDE DEF assembly
  <2>5. assembly.parts \in SUBSET PartsOf(m) /\ assembly.parts # {}
    BY <2>4, SoundParts DEF Sound
  <2>6. IsComplete(assembly)
    BY <2>3, <2>4, <2>5, CompleteIsWhole
  <2> QED
    BY <2>4, <2>6 DEF Sound
<1> QED
  BY <1>1, ReassemblyInvariant, PTL

(* No assembly outlives its timeout by more than the time between checks,  *)
(* while datagrams arrive (the end of process(), otaextractor.cc).         *)
THEOREM StaleAssembliesAreAbandoned == Spec => AbandonedInTime
<1> DEFINE Step ==
      processed' # processed \/ malformed' # malformed =>
        \A key \in DOMAIN partStore' :
           \/ status' # "ok"
           \/ partStore'[key].last + partTimeoutThreshold > now
           \/ lastPartCheckTime >= 0 /\ now < lastPartCheckTime + PartCheckThreshold
<1>1. OInv /\ OInv' /\ [Next]_vars => [Step]_vars
  <2> SUFFICES ASSUME OInv, OInv', Next, processed' # processed \/ malformed' # malformed,
                      status' = "ok", NEW key \in DOMAIN partStore'
               PROVE  \/ partStore'[key].last + partTimeoutThreshold > now
                      \/ lastPartCheckTime >= 0 /\ now < lastPartCheckTime + PartCheckThreshold
    OBVIOUS
  <2>1. \E store : AbandonStale(store)
    <3>1. ASSUME NEW part, Process(part) PROVE \E store : AbandonStale(store)
      BY <3>1 DEF Process, Extract
    <3>2. ASSUME NEW part \in wire, Deliver(part) PROVE \E store : AbandonStale(store)
      BY <3>1, <3>2 DEF Deliver
    <3>3. ASSUME NEW part \in wire, Duplicate(part) PROVE \E store : AbandonStale(store)
      BY <3>1, <3>3 DEF Duplicate
    <3>4. CASE Reject
      BY <3>4 DEF Reject
    <3>5. ~Tick
      BY DEF Tick
    <3> QED
      BY <3>2, <3>3, <3>4, <3>5 DEF Next
  <2>2. PICK store : AbandonStale(store)
    BY <2>1
  <2>3. /\ partStore'[key] = store[key]
        /\ ~(CheckIsDue /\ store[key].last + partTimeoutThreshold <= now)
    BY <2>2 DEF AbandonStale, Without, StaleKeys
  <2>4. /\ partStore'[key].last \in Int /\ partTimeoutThreshold \in Int /\ now \in Int
        /\ lastPartCheckTime \in Int /\ PartCheckThreshold \in Nat
    BY TimesAssumption DEF OInv, TypeOK
  <2>5. CASE CheckIsDue
    BY <2>3, <2>4, <2>5
  <2>6. CASE ~CheckIsDue
    BY <2>4, <2>6 DEF CheckIsDue
  <2> QED
    BY <2>5, <2>6
<1> QED
  BY <1>1, ReassemblyInvariant, PTL DEF Spec, AbandonedInTime

=============================================================================
