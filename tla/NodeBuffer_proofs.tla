-------------------------- MODULE NodeBuffer_proofs --------------------------
(***************************************************************************)
(* The input buffer of a node, between the receive interrupt and the       *)
(* presentation layer, is a queue: for every size of the buffer, whether   *)
(* or not its end is too short for a message, any number of messages and   *)
(* all kinds, until a response releases a message it does not answer.      *)
(*                                                                         *)
(* A message takes four bytes.  The argument counts the buffer in places   *)
(* of four bytes, with Rest bytes at its end that are skipped.             *)
(*                                                                         *)
(* At the end, type correctness of the whole node, which needs no order of *)
(* the calls and holds for all kinds.                                      *)
(***************************************************************************)
EXTENDS NodeStack_proofs, SequenceTheorems, WellFoundedInduction

Slots == BufferLength \div 4
Rest == BufferLength % 4

LEMMA Grid ==
    /\ Slots \in Nat /\ Slots >= 1 /\ Rest \in {0, 2}
    /\ BufferLength = 4 * Slots + Rest
    /\ ByteMod \in Nat /\ ByteMod > BufferLength + 2
BY NodeStackAssumption, SMTT(30) DEF Slots, Rest

\* The first place to be read, and that of message j from there.
First(a) == IF a = Slots THEN 0 ELSE a
Place(a, j) == IF First(a) + j < Slots THEN First(a) + j ELSE First(a) + j - Slots

\* The bytes at the end that the reader has still to skip first.
Before(a) == IF a = Slots THEN Rest ELSE 0

\* Reader at place a, writer at place b, n messages between them: nothing was stored
\* since the reader caught up; the writer has not passed the end; or it has.
Spans(count, a, b, n) ==
    \/ n = 0 /\ b = Slots /\ count = 0 /\ a = (IF Rest = 0 THEN 0 ELSE Slots)
    \/ First(a) + n <= Slots /\ b = First(a) + n /\ count = 4 * n + Before(a)
    \/ First(a) + n >= Slots /\ b = First(a) + n - Slots /\ count = 4 * n + Before(a) + Rest

\* An end to be skipped is marked.
Marked(r, a, b, n) ==
    \/ n = 0 /\ b = Slots
    \/ a # Slots /\ First(a) + n <= Slots /\ b = First(a) + n
    \/ Rest = 2 => r.cell[4 * Slots] = Rx!Dummy

Frames(r, ks, box, a) ==
    \A j \in 0 .. (Len(box) - 1) :
        r.cell[4 * Place(a, j)] = 2 /\ ks[4 * Place(a, j)] = box[j + 1]

\* The buffer between two frames, with the kinds and messages it holds.
HoldsAt(r, ks, box, a, b) ==
    /\ a \in 0 .. Slots /\ b \in 0 .. Slots /\ (Rest = 0 => a # Slots)
    /\ r.read = 4 * a /\ r.write = 4 * b
    /\ Len(box) \in 0 .. Slots
    /\ Spans(r.count, a, b, Len(box)) /\ Marked(r, a, b, Len(box))
    /\ Frames(r, ks, box, a)

Shape(r, ks, box) ==
    /\ r \in Rx!Ring /\ r.chars = 0
    /\ ks \in [0 .. (BufferLength - 1) -> Kinds \cup {"stale"}]
    /\ box \in Seq(Kinds)

Holds(r, ks, box) ==
    Shape(r, ks, box) /\ \E a, b \in 0 .. Slots : HoldsAt(r, ks, box, a, b)

-----------------------------------------------------------------------------
(* Reading.                                                                *)

LEMMA EmptyHolds ==
    Holds(Rx!EmptyRing, [i \in 0 .. (BufferLength - 1) |-> "stale"], <<>>)
<1> DEFINE ks == [i \in 0 .. (BufferLength - 1) |-> "stale"]
<1>1. Shape(Rx!EmptyRing, ks, <<>>)
  BY Grid DEF Shape, Rx!EmptyRing, Rx!Ring, Rx!Byte, Rx!Data
<1>2. HoldsAt(Rx!EmptyRing, ks, <<>>, 0, 0)
  BY Grid DEF HoldsAt, Spans, Marked, Frames, First, Before, Rx!EmptyRing
<1> QED BY <1>1, <1>2, Grid DEF Holds

\* The reader changes these fields.
Reader(r, c, p, l) == [r EXCEPT !.count = c, !.read = p, !.len = l]

LEMMA ReaderFields ==
    ASSUME NEW r \in Rx!Ring, NEW c \in Rx!Byte, NEW p \in 0 .. BufferLength, NEW l \in Rx!Byte
    PROVE  /\ Reader(r, c, p, l) \in Rx!Ring
           /\ Reader(r, c, p, l).count = c /\ Reader(r, c, p, l).read = p
           /\ Reader(r, c, p, l).len = l /\ Reader(r, c, p, l).cell = r.cell
           /\ Reader(r, c, p, l).write = r.write /\ Reader(r, c, p, l).chars = r.chars
BY DEF Rx!Ring, Reader

LEMMA ReaderTypes ==
    ASSUME NEW r \in Rx!Ring
    PROVE  r.count \in Rx!Byte /\ r.len \in Rx!Byte /\ r.read \in 0 .. BufferLength
BY DEF Rx!Ring

LEMMA ReaderSteps ==
    ASSUME NEW r \in Rx!Ring, NEW c, NEW p, NEW l
    PROVE  /\ [r EXCEPT !.count = c, !.read = p] = Reader(r, c, p, r.len)
           /\ [r EXCEPT !.len = l] = Reader(r, r.count, r.read, l)
           /\ [Reader(r, c, p, r.len) EXCEPT !.len = l] = Reader(r, c, p, l)
BY DEF Rx!Ring, Reader

LEMMA EndSkipped ==
    ASSUME NEW r, r.count # 0, r.cell[r.read] = Rx!Dummy
    PROVE  LET s == [r EXCEPT !.count = Rx!Minus(@, BufferLength - r.read), !.read = 0]
           IN  Rx!Receive(r) = IF s.count # 0 THEN [s EXCEPT !.len = s.cell[s.read]] ELSE s
BY SMT DEF Rx!Receive

\* What the reader finds: the oldest message, or none.
LEMMA ReceiveHolds ==
    ASSUME NEW r, NEW ks, NEW box, Holds(r, ks, box)
    PROVE  LET m == Rx!Receive(r)
           IN  /\ Holds(m, ks, box)
               /\ Rx!HasMessage(m) <=> box # <<>>
               /\ box # <<>> => m.read # 4 * Slots /\ m.len = 2 /\ ks[m.read] = box[1]
<1> DEFINE n == Len(box)
<1>1. PICK a, b \in 0 .. Slots : HoldsAt(r, ks, box, a, b)
  BY DEF Holds
<1>2. Shape(r, ks, box) /\ n \in 0 .. Slots /\ (box = <<>> <=> n = 0)
  BY <1>1 DEF Holds, Shape, HoldsAt
<1>3. Rx!Dummy \in 6 .. (ByteMod - 1) /\ Rx!Dummy \in Nat
  BY Grid DEF Rx!Dummy
<1>7. /\ r \in Rx!Ring /\ r.count \in Rx!Byte /\ r.len \in Rx!Byte
      /\ r.read \in 0 .. BufferLength
  BY <1>2, ReaderTypes DEF Shape
<1>4. CASE r.count = 0
  <2>1. Rx!Receive(r) = r
    BY <1>4 DEF Rx!Receive
  <2>2. n = 0
    BY <1>1, <1>2, <1>4, Grid DEF HoldsAt, Spans, First, Before
  <2> QED BY <1>2, <1>4, <2>1, <2>2 DEF Rx!HasMessage
<1>5. CASE r.count # 0 /\ a # Slots
  <2>1. n > 0
    BY <1>1, <1>2, <1>5, Grid DEF HoldsAt, Spans, First, Before
  <2>2. Place(a, 0) = a
    BY <1>1, <1>5, Grid DEF Place, First
  <2>3. r.cell[r.read] = 2 /\ ks[r.read] = box[1]
    <3>1. 0 \in 0 .. (n - 1) BY <1>2, <2>1
    <3> QED BY <1>1, <2>2, <3>1 DEF HoldsAt, Frames
  <2> DEFINE m == Reader(r, r.count, r.read, 2)
  <2>4. Rx!Receive(r) = m
    <3>1. [r EXCEPT !.len = 2] = m
      BY <1>7, ReaderSteps
    <3>2. Rx!Receive(r) = [r EXCEPT !.len = 2]
      BY <1>3, <1>5, <2>3 DEF Rx!Receive
    <3> QED BY <3>1, <3>2
  <2>5. 2 \in Rx!Byte
    BY Grid DEF Rx!Byte
  <2>6. /\ m \in Rx!Ring /\ m.count = r.count /\ m.read = r.read /\ m.len = 2
        /\ m.cell = r.cell /\ m.write = r.write /\ m.chars = r.chars
    BY <1>7, <2>5, ReaderFields
  <2> HIDE DEF m
  <2>7. Holds(m, ks, box)
    <3>1. Shape(m, ks, box) BY <1>2, <2>6 DEF Shape
    <3>2. Marked(m, a, b, Len(box)) BY <1>1, <2>6 DEF HoldsAt, Marked
    <3>3. Frames(m, ks, box, a) BY <1>1, <2>6 DEF HoldsAt, Frames
    <3>4. HoldsAt(m, ks, box, a, b)
      BY <1>1, <2>6, <3>2, <3>3 DEF HoldsAt
    <3> QED BY <3>1, <3>4 DEF Holds
  <2> QED BY <1>1, <1>2, <1>5, <2>1, <2>3, <2>4, <2>6, <2>7, Grid DEF Rx!HasMessage, HoldsAt
<1>6. CASE r.count # 0 /\ a = Slots
  <2>1. /\ Rest = 2 /\ r.cell[4 * Slots] = Rx!Dummy
        /\ r.count = 4 * n + 2 + (IF n = Slots /\ b = 0 THEN 2 ELSE 0) /\ r.read = 4 * Slots
    BY <1>1, <1>2, <1>6, Grid DEF HoldsAt, Spans, Marked, First, Before
  <2> DEFINE c == r.count - 2
             l == IF n > 0 THEN 2 ELSE r.len
             m == Reader(r, c, 0, l)
  <2>2. c \in Rx!Byte /\ Rx!Minus(r.count, BufferLength - r.read) = c
    <3>1. r.count \in 0 .. (ByteMod - 1) BY <1>7 DEF Rx!Byte
    <3>2. c \in 0 .. (ByteMod - 1) BY <1>2, <2>1, <3>1, Grid
    <3>3. (c + ByteMod) % ByteMod = c
      BY <3>2, Grid, SMTT(30)
    <3>4. BufferLength - r.read = 2 /\ r.count + ByteMod - 2 = c + ByteMod
      BY <2>1, <3>1, Grid
    <3> QED BY <3>2, <3>3, <3>4 DEF Rx!Minus, Rx!Byte
  <2>3. c = 0 <=> n = 0
    BY <1>2, <2>1, Grid
  <2>4. n > 0 => r.cell[0] = 2 /\ ks[0] = box[1]
    <3>1. Place(a, 0) = 0 BY <1>6, Grid DEF Place, First
    <3>2. n > 0 => 0 \in 0 .. (n - 1) BY <1>2
    <3> QED BY <1>1, <3>1, <3>2 DEF HoldsAt, Frames
  <2> HIDE DEF c, n
  <2>5. Rx!Receive(r) = m
    <3> DEFINE s == [r EXCEPT !.count = Rx!Minus(@, BufferLength - r.read), !.read = 0]
    <3>1. Rx!Receive(r) = IF s.count # 0 THEN [s EXCEPT !.len = s.cell[s.read]] ELSE s
      BY <1>6, <2>1, EndSkipped
    <3>2. s = [r EXCEPT !.count = c, !.read = 0]
      BY <2>2, Zenon
    <3> HIDE DEF s
    <3>3. s.count = c /\ s.read = 0 /\ s.cell = r.cell
      BY <1>7, <3>2 DEF Rx!Ring
    <3>4. s = Reader(r, c, 0, r.len)
      BY <1>7, <3>2, ReaderSteps, Zenon
    <3>5. [s EXCEPT !.len = 2] = Reader(r, c, 0, 2)
      <4>1. [Reader(r, c, 0, r.len) EXCEPT !.len = 2] = Reader(r, c, 0, 2)
        BY <1>7 DEF Reader, Rx!Ring
      <4> QED BY <3>4, <4>1, Zenon
    <3> QED BY <1>2, <2>3, <2>4, <3>1, <3>3, <3>4, <3>5
  <2>6. /\ m.count = c /\ m.read = 0 /\ m.cell = r.cell /\ m.write = r.write
        /\ n > 0 => m.len = 2
        /\ Shape(m, ks, box)
    <3>1. l \in Rx!Byte /\ 0 \in 0 .. BufferLength
      BY <1>7, Grid DEF Rx!Byte
    <3> HIDE DEF l
    <3>2. /\ m \in Rx!Ring /\ m.count = c /\ m.read = 0 /\ m.len = l
          /\ m.cell = r.cell /\ m.write = r.write /\ m.chars = r.chars
      <4>1. m = Reader(r, c, 0, l) OBVIOUS
      <4>2. r \in Rx!Ring /\ c \in Rx!Byte BY <1>7, <2>2
      <4> HIDE DEF m
      <4> QED BY <3>1, <4>1, <4>2, ReaderFields
    <3> QED BY <1>2, <3>2 DEF Shape, l
  <2> HIDE DEF m
  <2>7. Spans(c, 0, b, n) /\ Marked(m, 0, b, n)
    <3>1. Spans(r.count, a, b, n) /\ Marked(r, a, b, n) /\ n \in Nat
      BY <1>1, <1>2 DEF HoldsAt, n
    <3>2. c = r.count - 2 /\ First(0) = 0 /\ Before(0) = 0 /\ First(a) = 0 /\ Before(a) = 2
      BY <1>6, <2>1, Grid DEF c, First, Before
    <3>3. r.count \in Nat /\ b \in Nat
      BY <1>1, <1>7 DEF Rx!Byte
    <3>4. Marked(m, 0, b, n)
      BY <2>1, <2>6 DEF Marked
    <3>5. Spans(c, 0, b, n)
      BY <1>6, <2>1, <3>1, <3>2, <3>3, Grid DEF Spans
    <3> QED BY <3>4, <3>5
  <2>8. HoldsAt(m, ks, box, 0, b)
    <3>1. \A j : Place(0, j) = Place(a, j) BY <1>6, Grid DEF Place, First
    <3> QED BY <1>1, <1>2, <2>6, <2>7, <3>1, Grid DEF HoldsAt, Frames, n
  <2>9. Holds(m, ks, box)
    <3>1. 0 \in 0 .. Slots BY Grid
    <3> QED BY <2>6, <2>8, <3>1 DEF Holds
  <2> QED BY <1>2, <2>3, <2>4, <2>5, <2>6, <2>9, Grid DEF Rx!HasMessage, n
<1> QED BY <1>1, <1>4, <1>5, <1>6

LEMMA MessageTakesFour == Rx!MessageSize(2) = 4
BY Grid, SMTT(30) DEF Rx!MessageSize, Rx!Even, Rx!Plus, Rx!Overhead

LEMMA PlaceBounds ==
    ASSUME NEW a \in 0 .. Slots, NEW n \in 0 .. Slots, NEW j \in 0 .. (n - 1)
    PROVE  /\ Place(a, j) \in 0 .. (Slots - 1)
           /\ First(a) \in 0 .. (Slots - 1)
           /\ j > 0 => Place(a, j) # First(a)
BY Grid DEF Place, First

LEMMA ReleaseHolds ==
    ASSUME NEW r, NEW ks, NEW box, Holds(r, ks, box), box # <<>>, r.read # 4 * Slots, r.len = 2
    PROVE  Holds(Rx!Release(r), [ks EXCEPT ![r.read] = "stale"], SubSeq(box, 2, Len(box)))
<1> DEFINE n == Len(box)
           rest == SubSeq(box, 2, n)
           ls == [ks EXCEPT ![r.read] = "stale"]
<1>1. PICK a, b \in 0 .. Slots : HoldsAt(r, ks, box, a, b)
  BY DEF Holds
<1>2. Shape(r, ks, box) /\ n \in 1 .. Slots /\ r.read = 4 * a /\ a \in 0 .. (Slots - 1)
  BY <1>1, Grid DEF Holds, Shape, HoldsAt
<1>3. r \in Rx!Ring /\ r.count \in 0 .. (ByteMod - 1) /\ r.len \in Rx!Byte
  BY <1>2, ReaderTypes DEF Shape, Rx!Byte
<1> DEFINE last == a + 1 = Slots /\ Rest = 0
           a2 == IF last THEN 0 ELSE a + 1
           m == Reader(r, r.count - 4, 4 * a2, r.len)
<1>4. r.count >= 4 * n
  BY <1>1, <1>2, Grid DEF HoldsAt, Spans, First, Before
<1>5. a2 \in 0 .. Slots /\ (Rest = 0 => a2 # Slots)
  BY <1>2, Grid
<1>6. Rx!Release(r) = m
  <2>1. ~ Rx!Flushes(r)
    BY <1>2, <1>3, <1>4, MessageTakesFour DEF Rx!Flushes
  <2>2. 4 * a2 = IF r.read + 4 >= BufferLength THEN 0 ELSE r.read + 4
    BY <1>2, Grid
  <2>3. Rx!Release(r) = [r EXCEPT !.count = r.count - 4, !.read = 4 * a2]
    BY <2>1, <2>2, MessageTakesFour DEF Rx!Release
  <2> HIDE DEF a2
  <2> QED BY <1>3, <2>3, ReaderSteps, Zenon
<1>7. /\ m \in Rx!Ring /\ m.count = r.count - 4 /\ m.read = 4 * a2 /\ m.len = r.len
      /\ m.cell = r.cell /\ m.write = r.write /\ m.chars = r.chars
  <2>1. r.count - 4 \in Rx!Byte /\ 4 * a2 \in 0 .. BufferLength
    BY <1>2, <1>3, <1>4, <1>5, Grid DEF Rx!Byte
  <2> HIDE DEF a2
  <2> QED BY <1>3, <2>1, ReaderFields
<1>8. rest \in Seq(Kinds) /\ Len(rest) = n - 1 /\ \A j \in 1 .. (n - 1) : rest[j] = box[j + 1]
  <2>1. box \in Seq(Kinds) /\ \A j \in 2 .. n : box[j] \in Kinds
    BY <1>2 DEF Shape
  <2>2. n \in Int /\ n >= 2 - 1 /\ 2 \in Int
    BY <1>2
  <2>3. /\ rest \in Seq(Kinds) /\ Len(rest) = IF 2 <= n THEN n - 2 + 1 ELSE 0
        /\ \A j \in 1 .. (n - 2 + 1) : rest[j] = box[2 + j - 1]
    BY <2>1, <2>2, SubSeqProperties
  <2> HIDE DEF rest, n
  <2> QED BY <2>2, <2>3
<1>9. Shape(m, ls, rest)
  <2>1. ls \in [0 .. (BufferLength - 1) -> Kinds \cup {"stale"}]
    BY <1>2 DEF Shape
  <2> HIDE DEF m, ls, rest
  <2> QED BY <1>2, <1>7, <1>8, <2>1 DEF Shape
<1>10. Spans(r.count - 4, a2, b, n - 1) /\ Marked(m, a2, b, n - 1)
  <2>1. First(a) = a /\ Before(a) = 0 /\ r.count \in Int
    BY <1>2, <1>3, Grid DEF First, Before
  <2>2. \/ a + n <= Slots /\ b = a + n /\ r.count = 4 * n
        \/ /\ a + n >= Slots /\ b = a + n - Slots /\ r.count = 4 * n + Rest
           /\ Rest = 2 => r.cell[4 * Slots] = Rx!Dummy
    BY <1>1, <1>2, <2>1, Grid DEF HoldsAt, Spans, Marked
  <2>3. CASE a + 1 < Slots
    <3>1. a2 = a + 1 /\ First(a2) = a + 1 /\ Before(a2) = 0
      BY <1>2, <2>3, Grid DEF First, Before
    <3> HIDE DEF a2, m, n
    <3>2. /\ n \in Int /\ a \in Int /\ a2 # Slots
          /\ First(a2) + (n - 1) = a + n /\ 4 * (n - 1) + Before(a2) = 4 * n - 4
      BY <1>2, <2>3, <3>1, Grid
    <3>3. CASE a + n <= Slots /\ b = a + n /\ r.count = 4 * n
      <4>1. r.count - 4 = 4 * n - 4 BY <3>2, <3>3
      <4> QED BY <3>2, <3>3, <4>1 DEF Spans, Marked
    <3>4. CASE /\ a + n >= Slots /\ b = a + n - Slots /\ r.count = 4 * n + Rest
               /\ Rest = 2 => r.cell[4 * Slots] = Rx!Dummy
      <4>1. r.count - 4 = 4 * n - 4 + Rest BY <3>2, <3>4, Grid
      <4>2. Marked(m, a2, b, n - 1)
        <5>1. m.cell = r.cell BY <1>7
        <5> QED BY <3>4, <5>1 DEF Marked
      <4>3. Spans(r.count - 4, a2, b, n - 1)
        <5>1. First(a2) + (n - 1) >= Slots /\ b = First(a2) + (n - 1) - Slots
          BY <3>1, <3>2, <3>4, Grid
        <5>2. r.count - 4 = 4 * (n - 1) + Before(a2) + Rest BY <3>2, <4>1
        <5> QED BY <5>1, <5>2 DEF Spans
      <4> QED BY <4>2, <4>3
    <3> QED BY <2>2, <3>3, <3>4
  <2>4. CASE a + 1 = Slots
    <3>1. a2 = (IF Rest = 0 THEN 0 ELSE Slots) /\ First(a2) = 0 /\ Before(a2) = Rest
      BY <1>2, <2>4, Grid DEF First, Before
    <3> HIDE DEF a2, m, n
    <3>2. CASE a + n <= Slots /\ b = a + n /\ r.count = 4 * n
      BY <1>2, <2>1, <2>4, <3>1, <3>2, Grid DEF Spans, Marked
    <3>3. CASE /\ a + n >= Slots /\ b = a + n - Slots /\ r.count = 4 * n + Rest
               /\ Rest = 2 => r.cell[4 * Slots] = Rx!Dummy
      BY <1>2, <1>7, <2>1, <2>4, <3>1, <3>3, Grid DEF Spans, Marked
    <3> QED BY <2>2, <3>2, <3>3
  <2> QED BY <1>2, <2>3, <2>4, Grid
<1>11. Frames(m, ls, rest, a2)
  <2> SUFFICES ASSUME NEW j \in 0 .. (n - 2)
               PROVE  /\ r.cell[4 * Place(a2, j)] = 2
                      /\ ls[4 * Place(a2, j)] = box[j + 2]
    BY <1>2, <1>7, <1>8 DEF Frames
  <2>1. Place(a2, j) = Place(a, j + 1)
    BY <1>2, Grid DEF Place, First
  <2>2. j + 1 \in 0 .. (n - 1) /\ j + 1 > 0
    BY <1>2
  <2>3. Place(a, j + 1) \in 0 .. (Slots - 1) /\ Place(a, j + 1) # a
    BY <1>2, <2>2, PlaceBounds, Grid DEF First
  <2>4. r.cell[4 * Place(a, j + 1)] = 2 /\ ks[4 * Place(a, j + 1)] = box[j + 2]
    BY <1>1, <2>2 DEF HoldsAt, Frames
  <2>5. ls[4 * Place(a, j + 1)] = ks[4 * Place(a, j + 1)]
    BY <1>2, <2>3, Grid DEF Shape
  <2> QED BY <2>1, <2>4, <2>5
<1>12. HoldsAt(m, ls, rest, a2, b)
  <2>1. Len(rest) \in 0 .. Slots
    <3> HIDE DEF rest, n
    <3> QED BY <1>2, <1>8, Grid
  <2> HIDE DEF m, ls, rest, a2, n
  <2> QED BY <1>1, <1>5, <1>7, <1>8, <1>10, <1>11, <2>1 DEF HoldsAt
<1> HIDE DEF m, ls, rest, a2
<1> QED BY <1>5, <1>6, <1>9, <1>12 DEF Holds, ls, rest

-----------------------------------------------------------------------------
(* Writing.                                                                *)

LEMMA Bytes ==
    /\ Rx!Minus(4, Rx!Overhead) = 2 /\ Rx!Even(4) = 4
    /\ \A x \in Nat : x < ByteMod => x % ByteMod = x
    /\ Rx!Overhead = 2 /\ Rx!Data = 0 /\ Rx!Dummy \in Rx!Byte
<1>1. \A x \in Nat : x < ByteMod => x % ByteMod = x
  BY Grid, SMTT(30)
<1>2. (4 + ByteMod - 2) % ByteMod = 2
  BY Grid, SMTT(30)
<1>3. 4 + (4 % 2) = 4
  BY SMTT(30)
<1> QED BY <1>1, <1>2, <1>3, Grid DEF Rx!Minus, Rx!Overhead, Rx!Even, Rx!Data, Rx!Dummy, Rx!Byte

\* The writer passes an end that is too short for a message.
LEMMA WrapHolds ==
    ASSUME NEW r, NEW ks, NEW box, Holds(r, ks, box)
    PROVE  LET w == Rx!Wrap(r, 4)
           IN  /\ Shape(w, ks, box) /\ w.read = r.read /\ w.len = r.len
               /\ \E a, b \in 0 .. Slots : b # Slots /\ HoldsAt(w, ks, box, a, b)
<1> DEFINE n == Len(box)
<1>1. PICK a, b \in 0 .. Slots : HoldsAt(r, ks, box, a, b)
  BY DEF Holds
<1>2. Shape(r, ks, box) /\ n \in 0 .. Slots /\ r.write = 4 * b /\ Rx!Gap(r) = BufferLength - 4 * b
  BY <1>1 DEF Holds, Shape, HoldsAt, Rx!Gap
<1>3. CASE b # Slots
  <2>1. 4 <= Rx!Gap(r)
    BY <1>2, <1>3, Grid
  <2>2. Rx!Wrap(r, 4) = r
    BY <2>1 DEF Rx!Wrap
  <2> QED BY <1>1, <1>2, <1>3, <2>2
<1>4. CASE b = Slots
  <2>1. Rx!Gap(r) = Rest /\ ~(4 <= Rest) /\ r.write = 4 * Slots
    BY <1>2, <1>4, Grid
  <2>2. \/ n = 0 /\ r.count = 0 /\ a = IF Rest = 0 THEN 0 ELSE Slots
        \/ First(a) + n = Slots /\ r.count = 4 * n + Before(a)
    BY <1>1, <1>2, <1>4, Grid DEF HoldsAt, Spans, First
  <2>3. r.count \in Nat /\ r.count + Rest < ByteMod
    BY <1>2, <2>2, Grid DEF Before
  <2>4. Rx!Plus(r.count, Rest) = r.count + Rest
    BY <2>3, Grid, Bytes DEF Rx!Plus
  <2> DEFINE c == r.count + Rest
             cells == IF Rest > 0 THEN [r.cell EXCEPT ![r.write] = Rx!Dummy] ELSE r.cell
             w == [r EXCEPT !.cell = cells, !.count = c, !.write = 0]
  <2>5. Rx!Wrap(r, 4) = w
    <3>1. Rx!Wrap(r, 4) = [r EXCEPT !.cell = cells, !.count = Rx!Plus(r.count, Rest), !.write = 0]
      BY <2>1 DEF Rx!Wrap
    <3> QED BY <2>4, <3>1
  <2>6. cells \in [0 .. (BufferLength - 1) -> Rx!Byte] /\ c \in Rx!Byte /\ 0 \in 0 .. BufferLength
    <3>1. c \in Rx!Byte /\ 0 \in 0 .. BufferLength
      BY <2>3, Grid DEF Rx!Byte
    <3>2. r.cell \in [0 .. (BufferLength - 1) -> Rx!Byte] /\ Rx!Dummy \in Rx!Byte
      BY <1>2, Bytes DEF Shape, Rx!Ring
    <3> QED BY <3>1, <3>2
  <2>7. /\ \A i \in 0 .. (4 * Slots - 1) : cells[i] = r.cell[i]
        /\ Rest = 2 => cells[4 * Slots] = Rx!Dummy
    BY <1>2, <2>1, Grid DEF Shape, Rx!Ring
  <2> HIDE DEF c, cells
  <2>8. /\ w \in Rx!Ring /\ w.cell = cells /\ w.count = c /\ w.write = 0
        /\ w.read = r.read /\ w.len = r.len /\ w.chars = r.chars
    BY <1>2, <2>6 DEF Shape, Rx!Ring
  <2> HIDE DEF w
  <2>9. Shape(w, ks, box)
    BY <1>2, <2>8 DEF Shape
  <2>10. Spans(c, a, 0, n) /\ Marked(w, a, 0, n)
    <3> HIDE DEF n
    <3> QED BY <1>2, <2>2, <2>3, <2>7, <2>8, Grid DEF Spans, Marked, First, Before, c
  <2>11. Frames(w, ks, box, a)
    <3> SUFFICES ASSUME NEW j \in 0 .. (n - 1)
                 PROVE  w.cell[4 * Place(a, j)] = 2 /\ ks[4 * Place(a, j)] = box[j + 1]
      BY DEF Frames
    <3>1. 4 * Place(a, j) \in 0 .. (4 * Slots - 1)
      <4>1. Place(a, j) \in 0 .. (Slots - 1) BY <1>2, PlaceBounds
      <4> QED BY <4>1, Grid
    <3> QED BY <1>1, <2>7, <2>8, <3>1 DEF HoldsAt, Frames
  <2>12. HoldsAt(w, ks, box, a, 0)
    BY <1>1, <1>2, <2>8, <2>10, <2>11, Grid DEF HoldsAt
  <2>13. 0 \in 0 .. Slots /\ 0 # Slots
    BY Grid
  <2> QED BY <2>5, <2>8, <2>9, <2>12, <2>13
<1> QED BY <1>3, <1>4

\* The four bytes of a message.
Stored(w) ==
    LET h == [w EXCEPT !.cell[w.write] = 2, !.cell[w.write + 1] = 0, !.chars = 2]
    IN  Rx!Commit(Rx!StoreByte(Rx!StoreByte(h)))

LEMMA StoredFields ==
    ASSUME NEW w \in Rx!Ring, w.count + 4 < ByteMod, w.write + 4 <= BufferLength
    PROVE  LET m == Stored(w)
           IN  /\ m \in Rx!Ring /\ m.chars = 0 /\ m.count = w.count + 4 /\ m.write = w.write + 4
               /\ m.read = w.read /\ m.len = w.len /\ m.cell[w.write] = 2
               /\ \A i \in 0 .. (BufferLength - 1) :
                      i \notin w.write .. (w.write + 3) => m.cell[i] = w.cell[i]
<1> DEFINE p == w.write
           h == [w EXCEPT !.cell[p] = 2, !.cell[p + 1] = 0, !.chars = 2]
           h2 == [h EXCEPT !.cell[p + 2] = 0, !.chars = 3]
           h3 == [h2 EXCEPT !.cell[p + 3] = 0, !.chars = 4]
           cells == [[[[w.cell EXCEPT ![p] = 2] EXCEPT ![p + 1] = 0] EXCEPT ![p + 2] = 0] EXCEPT ![p + 3] = 0]
           m == [w EXCEPT !.cell = cells, !.chars = 0, !.count = w.count + 4, !.write = p + 4]
<1>1. /\ p \in Nat /\ p + 3 \in 0 .. (BufferLength - 1) /\ w.count \in Nat
      /\ w.cell \in [0 .. (BufferLength - 1) -> Rx!Byte]
      /\ 0 \in Rx!Byte /\ 2 \in Rx!Byte /\ w.count + 4 \in Rx!Byte
      /\ 0 \in 0 .. BufferLength /\ p + 4 \in 0 .. BufferLength
  <2>1. /\ w.count \in 0 .. (ByteMod - 1) /\ p \in 0 .. BufferLength
        /\ w.cell \in [0 .. (BufferLength - 1) -> Rx!Byte]
    BY DEF Rx!Ring, Rx!Byte
  <2>2. p + 4 <= BufferLength /\ w.count + 4 < ByteMod
    OBVIOUS
  <2> HIDE DEF p
  <2>3. p \in Nat /\ p + 3 \in 0 .. (BufferLength - 1) /\ p + 4 \in 0 .. BufferLength /\ w.count \in Nat
    BY <2>1, <2>2, Grid
  <2>4. 0 \in Rx!Byte /\ 2 \in Rx!Byte /\ w.count + 4 \in Rx!Byte /\ 0 \in 0 .. BufferLength
    BY <2>1, <2>2, Grid DEF Rx!Byte
  <2> QED BY <2>1, <2>3, <2>4
<1>2. h.write = p /\ h.chars = 2 /\ h2.write = p /\ h2.chars = 3
  BY DEF Rx!Ring
<1>3. Rx!StoreByte(h) = h2
  <2> HIDE DEF h
  <2> QED BY <1>1, <1>2, Bytes DEF Rx!StoreByte
<1>4. Rx!StoreByte(h2) = h3
  <2> HIDE DEF h, h2
  <2> QED BY <1>1, <1>2, Bytes DEF Rx!StoreByte
<1>5. h3.count = w.count /\ h3.write = p /\ h3.chars = 4
  BY DEF Rx!Ring
<1>6. Rx!Plus(w.count, 4) = w.count + 4
  BY <1>1, Bytes DEF Rx!Plus
<1>7. Stored(w) = [h3 EXCEPT !.chars = 0, !.count = w.count + 4, !.write = p + 4]
  <2>1. Stored(w) = Rx!Commit(h3)
    BY <1>3, <1>4 DEF Stored
  <2> HIDE DEF h3
  <2> QED BY <1>5, <1>6, <2>1, Bytes DEF Rx!Commit
<1>8. Stored(w) = m
  BY <1>1, <1>7 DEF Rx!Ring
<1>9. /\ cells \in [0 .. (BufferLength - 1) -> Rx!Byte] /\ cells[p] = 2
      /\ \A i \in 0 .. (BufferLength - 1) : i \notin p .. (p + 3) => cells[i] = w.cell[i]
  <2> HIDE DEF p
  <2> DEFINE D == 0 .. (BufferLength - 1)
  <2>1. p \in D /\ p + 1 \in D /\ p + 2 \in D /\ p + 3 \in D /\ p # p + 1 /\ p # p + 2 /\ p # p + 3
    BY <1>1, Grid
  <2>2. \A i : i \notin p .. (p + 3) => i # p /\ i # p + 1 /\ i # p + 2 /\ i # p + 3
    <3>1. /\ p \in p .. (p + 3) /\ p + 1 \in p .. (p + 3)
          /\ p + 2 \in p .. (p + 3) /\ p + 3 \in p .. (p + 3)
      BY <1>1
    <3> QED BY <3>1, Zenon
  <2> HIDE DEF D
  <2>3. w.cell \in [D -> Rx!Byte]
    BY <1>1 DEF D
  <2>4. cells \in [D -> Rx!Byte] /\ cells[p] = 2
    BY <1>1, <2>1, <2>3
  <2>5. \A i \in D : i \notin p .. (p + 3) => cells[i] = w.cell[i]
    BY <1>1, <2>1, <2>2, <2>3
  <2> QED BY <2>4, <2>5 DEF D
<1> HIDE DEF cells
<1> QED BY <1>1, <1>8, <1>9 DEF Rx!Ring

LEMMA StoreHolds ==
    ASSUME NEW w, NEW ks, NEW box, NEW k \in Kinds, Shape(w, ks, box),
           NEW a \in 0 .. Slots, NEW b \in 0 .. Slots, b # Slots, HoldsAt(w, ks, box, a, b),
           Rx!HasRoom(w, 4)
    PROVE  Holds(Stored(w), [ks EXCEPT ![w.write] = k], Append(box, k))
<1> DEFINE n == Len(box)
           ls == [ks EXCEPT ![w.write] = k]
           m == Stored(w)
           new == Append(box, k)
<1>1. /\ w \in Rx!Ring /\ w.chars = 0 /\ box \in Seq(Kinds) /\ n \in 0 .. Slots
      /\ w.write = 4 * b /\ w.read = 4 * a /\ b \in 0 .. (Slots - 1)
  BY Grid DEF Shape, HoldsAt
<1>2. w.count \in 0 .. (ByteMod - 1) /\ w.count <= BufferLength - 2
  BY <1>1, ReaderTypes, Bytes DEF Rx!HasRoom, Rx!Byte
<1>3. n < Slots /\ Place(a, n) = b
  BY <1>1, <1>2, Grid DEF HoldsAt, Spans, First, Before, Place
<1>4. /\ m \in Rx!Ring /\ m.chars = 0 /\ m.count = w.count + 4 /\ m.write = 4 * (b + 1)
      /\ m.read = w.read /\ m.len = w.len /\ m.cell[4 * b] = 2
      /\ \A i \in 0 .. (BufferLength - 1) : i \notin (4 * b) .. (4 * b + 3) => m.cell[i] = w.cell[i]
  <2>1. w.count + 4 < ByteMod /\ w.write + 4 <= BufferLength /\ w.write + 4 = 4 * (b + 1)
    BY <1>1, <1>2, Grid
  <2> HIDE DEF m
  <2> QED BY <1>1, <2>1, StoredFields DEF m
<1>5. /\ new \in Seq(Kinds) /\ Len(new) = n + 1 /\ new[n + 1] = k
      /\ \A j \in 1 .. n : new[j] = box[j]
  BY <1>1
<1>6. /\ ls \in [0 .. (BufferLength - 1) -> Kinds \cup {"stale"}] /\ ls[4 * b] = k
      /\ \A i \in 0 .. (BufferLength - 1) : i # 4 * b => ls[i] = ks[i]
  BY <1>1, Grid DEF Shape
<1> HIDE DEF m, ls, new, n
<1>7. Shape(m, ls, new)
  BY <1>4, <1>5, <1>6 DEF Shape
<1>8. Spans(w.count + 4, a, b + 1, n + 1) /\ Marked(m, a, b + 1, n + 1)
  <2>1. Rest = 2 => m.cell[4 * Slots] = w.cell[4 * Slots]
    BY <1>1, <1>4, Grid
  <2>2. Spans(w.count, a, b, n) /\ Marked(w, a, b, n)
    BY DEF HoldsAt, n
  <2>3. Spans(w.count + 4, a, b + 1, n + 1)
    <3> DEFINE f == First(a)
               e == Before(a)
    <3>1. f \in Nat /\ e \in Nat /\ b \in Nat /\ n \in Nat /\ w.count \in Nat
      BY <1>1, <1>2, Grid DEF First, Before
    <3> HIDE DEF f, e
    <3>2. \/ f + n <= Slots /\ b = f + n /\ w.count = 4 * n + e
          \/ f + n >= Slots /\ b = f + n - Slots /\ w.count = 4 * n + e + Rest
      BY <1>1, <2>2, Grid DEF Spans, f, e
    <3>3. CASE f + n <= Slots /\ b = f + n /\ w.count = 4 * n + e
      <4>1. f + (n + 1) <= Slots /\ b + 1 = f + (n + 1) /\ w.count + 4 = 4 * (n + 1) + e
        BY <1>1, <3>1, <3>3, Grid
      <4> QED BY <4>1 DEF Spans, f, e
    <3>4. CASE f + n >= Slots /\ b = f + n - Slots /\ w.count = 4 * n + e + Rest
      <4>1. /\ f + (n + 1) >= Slots /\ b + 1 = f + (n + 1) - Slots
            /\ w.count + 4 = 4 * (n + 1) + e + Rest
        BY <1>1, <3>1, <3>4, Grid
      <4> QED BY <4>1 DEF Spans, f, e
    <3> QED BY <3>2, <3>3, <3>4
  <2>4. Marked(m, a, b + 1, n + 1)
    <3>1. First(a) \in Nat /\ (b = First(a) + n \/ b = First(a) + n - Slots)
      <4>1. First(a) \in Nat
        BY Grid DEF First
      <4>2. b = First(a) + n \/ b = First(a) + n - Slots
        BY <1>3 DEF Place
      <4> QED BY <4>1, <4>2
    <3>2. CASE a # Slots /\ First(a) + n <= Slots /\ b = First(a) + n
      <4>1. n \in Int /\ b < Slots /\ b \in Int /\ First(a) \in Int
        BY <1>1, <3>1, Grid
      <4>2. First(a) + (n + 1) <= Slots /\ b + 1 = First(a) + (n + 1)
        BY <3>2, <4>1, Grid
      <4> QED BY <3>2, <4>2 DEF Marked
    <3>3. CASE Rest = 2 => w.cell[4 * Slots] = Rx!Dummy
      BY <2>1, <3>3 DEF Marked
    <3> QED BY <1>1, <2>2, <3>2, <3>3 DEF Marked
  <2> QED BY <2>3, <2>4
<1>9. Frames(m, ls, new, a)
  <2> SUFFICES ASSUME NEW j \in 0 .. n
               PROVE  m.cell[4 * Place(a, j)] = 2 /\ ls[4 * Place(a, j)] = new[j + 1]
    BY <1>1, <1>5 DEF Frames
  <2>1. CASE j = n
    BY <1>3, <1>4, <1>5, <1>6, <2>1
  <2>2. CASE j # n
    <3>1. j \in 0 .. (n - 1)
      BY <1>1, <2>2
    <3>2. Place(a, j) \in 0 .. (Slots - 1) /\ Place(a, j) # b
      BY <1>1, <1>3, <3>1, Grid DEF Place, First
    <3>3. /\ 4 * Place(a, j) \in 0 .. (BufferLength - 1) /\ 4 * Place(a, j) # 4 * b
          /\ 4 * Place(a, j) \notin (4 * b) .. (4 * b + 3)
      <4> DEFINE q == Place(a, j)
      <4> HIDE DEF q
      <4> QED BY <1>1, <3>2, Grid DEF q
    <3>4. w.cell[4 * Place(a, j)] = 2 /\ ks[4 * Place(a, j)] = box[j + 1]
      BY <3>1 DEF HoldsAt, Frames, n
    <3>5. m.cell[4 * Place(a, j)] = 2 /\ ls[4 * Place(a, j)] = ks[4 * Place(a, j)]
      BY <1>4, <1>6, <3>3, <3>4
    <3>6. new[j + 1] = box[j + 1]
      BY <1>1, <1>5, <3>1
    <3> QED BY <3>4, <3>5, <3>6
  <2> QED BY <2>1, <2>2
<1>10. HoldsAt(m, ls, new, a, b + 1) /\ b + 1 \in 0 .. Slots
  BY <1>1, <1>3, <1>4, <1>5, <1>8, <1>9, Grid DEF HoldsAt
<1> QED BY <1>7, <1>10 DEF Holds, m, ls, new

LEMMA PairParts ==
    ASSUME NEW x, NEW y, NEW r, r = <<x, y>> PROVE r[1] = x /\ r[2] = y
OBVIOUS

\* A frame is stored, or refused for want of room.
LEMMA FrameHolds ==
    ASSUME ~stray, Holds(ring, kinds, inbox), NEW k \in Kinds, FrameArrives(k)
    PROVE  /\ Holds(ring', kinds', inbox')
           /\ ring'.read = ring.read /\ ring'.len = ring.len
           /\ inbox # <<>> => inbox' # <<>>
<1> DEFINE w == Rx!Wrap(ring, 4)
           header == Rx!StoreHeader(ring, 4)
<1>1. /\ Shape(w, kinds, inbox) /\ w.read = ring.read /\ w.len = ring.len
      /\ \E a, b \in 0 .. Slots : b # Slots /\ HoldsAt(w, kinds, inbox, a, b)
  BY WrapHolds
<1>2. w \in Rx!Ring /\ w.chars = 0 /\ inbox \in Seq(Kinds)
  BY <1>1 DEF Shape
<1>3. 2 + Rx!Overhead = 4
  BY Bytes
<1>4. CASE Rx!HasRoom(w, 4)
  <2> DEFINE h == [w EXCEPT !.cell[w.write] = 2, !.cell[w.write + 1] = 0, !.chars = 2]
  <2>1. header = <<h, TRUE>>
    <3>1. header =
              <<[w EXCEPT !.cell[w.write] = Rx!Minus(4, Rx!Overhead),
                          !.cell[w.write + 1] = Rx!Data, !.chars = 2], TRUE>>
      BY <1>4 DEF Rx!StoreHeader
    <3> QED BY <3>1, Bytes
  <2>2. h.write = w.write
    BY <1>2 DEF Rx!Ring
  <2>3. /\ ring' = Stored(w) /\ kinds' = [kinds EXCEPT ![w.write] = k] /\ inbox' = Append(inbox, k)
    <3> HIDE DEF w
    <3> HIDE DEF h
    <3>1. header[1] = h /\ header[2] = TRUE
      <4> HIDE DEF header
      <4> QED BY <2>1, PairParts, Zenon
    <3>2. /\ ring' = Rx!Commit(Rx!StoreByte(Rx!StoreByte(h)))
          /\ kinds' = [kinds EXCEPT ![h.write] = k] /\ inbox' = Append(inbox, k)
      BY <1>3, <3>1 DEF FrameArrives
    <3> QED BY <2>2, <3>2 DEF Stored, h
  <2> HIDE DEF w, h
  <2>4. Holds(ring', kinds', inbox')
    BY <1>1, <1>4, <2>3, StoreHolds
  <2>5. PICK a, b \in 0 .. Slots : b # Slots /\ HoldsAt(w, kinds, inbox, a, b)
    BY <1>1
  <2>6. w.count + 4 < ByteMod /\ w.write + 4 <= BufferLength
    <3>1. w.count \in 0 .. (ByteMod - 1) /\ w.count <= BufferLength - 2
      BY <1>2, <1>4, ReaderTypes, Bytes DEF Rx!HasRoom, Rx!Byte
    <3>2. w.write = 4 * b
      BY <2>5 DEF HoldsAt
    <3> QED BY <2>5, <3>1, <3>2, Grid
  <2>7. ring'.read = w.read /\ ring'.len = w.len
    BY <1>2, <2>3, <2>6, StoredFields
  <2>8. inbox' # <<>>
    BY <1>2, <2>3
  <2> QED BY <1>1, <2>4, <2>7, <2>8
<1>5. CASE ~ Rx!HasRoom(w, 4)
  <2>1. header = <<[w EXCEPT !.chars = 0], FALSE>>
    BY <1>5 DEF Rx!StoreHeader
  <2>2. [w EXCEPT !.chars = 0] = w
    BY <1>2 DEF Rx!Ring
  <2> HIDE DEF w
  <2>3. ring' = w /\ UNCHANGED <<kinds, inbox>>
    <3>1. header = <<w, FALSE>>
      BY <2>1, <2>2, Zenon
    <3>2. header[1] = w /\ header[2] = FALSE
      <4> HIDE DEF header
      <4> QED BY <3>1, PairParts, Zenon
    <3> QED BY <1>3, <3>2 DEF FrameArrives
  <2> QED BY <1>1, <2>3 DEF Holds
<1> QED BY <1>4, <1>5

-----------------------------------------------------------------------------
(* Responses and the message they answer.                                  *)

\* The message answered is the one the buffer releases next.
InboxInv ==
    ~stray =>
        /\ Holds(ring, kinds, inbox)
        /\ handled => inbox # <<>> /\ ring.read # 4 * Slots /\ ring.len = 2

LEMMA InboxInit == Init => InboxInv
BY EmptyHolds DEF Init, InboxInv

LEMMA InboxKept == ASSUME InboxInv, UNCHANGED <<input, response>> PROVE InboxInv'
BY DEF InboxInv, input, response

\* What a task finds in the buffer.
LEMMA Found ==
    ASSUME InboxInv, ~stray
    PROVE  /\ Holds(Received, kinds, inbox)
           /\ Rx!HasMessage(Received) <=> inbox # <<>>
           /\ inbox # <<>> => /\ Received.read # 4 * Slots /\ Received.len = 2
                              /\ kinds[Received.read] = inbox[1]
BY ReceiveHolds DEF InboxInv, Received

LEMMA InboxDispatch == ASSUME InboxInv, Dispatch PROVE InboxInv'
<1>0. UNCHANGED stray
  BY DEF Dispatch, SkipEnd, Consume, Read, Update, UnknownItem, WakeupRequest, Silence, GoOffline,
     ResetExecute, Keep, Discard
<1> SUFFICES ASSUME ~stray PROVE InboxInv'
  BY <1>0 DEF InboxInv
<1>1. ASSUME Keep, UNCHANGED response PROVE InboxInv'
  BY <1>1, Found DEF Keep, InboxInv, response
<1>2. ASSUME Rx!HasMessage(Received), Keep, NEW r, Answer(r) PROVE InboxInv'
  BY <1>2, Found DEF Keep, InboxInv
<1>3. ASSUME Rx!HasMessage(Received), Release(Received) PROVE InboxInv'
  <2>1. Holds(Rx!Release(Received), [kinds EXCEPT ![Received.read] = "stale"],
              SubSeq(inbox, 2, Len(inbox)))
    BY <1>3, Found, ReleaseHolds
  <2> QED BY <1>3, <2>1 DEF Release, InboxInv
<1>4. ASSUME NEW k, Handles(k) PROVE Rx!HasMessage(Received)
  BY <1>4 DEF Handles
<1>5. CASE SkipEnd
  BY <1>1, <1>5 DEF SkipEnd
<1>6. CASE Consume \/ GoOffline \/ ResetExecute \/ UnknownItem
  BY <1>3, <1>4, <1>6 DEF Consume, GoOffline, ResetExecute, UnknownItem, Discard
<1>7. CASE Read
  BY <1>1, <1>2, <1>3, <1>4, <1>7 DEF Read, Discard
<1>8. CASE Update
  BY <1>2, <1>4, <1>8 DEF Update
<1>9. CASE WakeupRequest \/ Silence
  BY <1>2, <1>3, <1>4, <1>9 DEF WakeupRequest, Silence, Discard
<1> QED BY <1>5, <1>6, <1>7, <1>8, <1>9 DEF Dispatch

LEMMA InboxStop == ASSUME InboxInv, StopRepeat PROVE InboxInv'
<1>1. CASE trigger
  BY <1>1 DEF StopRepeat, InboxInv, input
<1>2. CASE ~trigger
  <2>1. Release(ring) /\ stray' = (stray \/ ~handled)
    BY <1>2 DEF StopRepeat
  <2>2. CASE ~stray /\ handled
    <3>1. Holds(Rx!Release(ring), [kinds EXCEPT ![ring.read] = "stale"],
                SubSeq(inbox, 2, Len(inbox)))
      BY <2>2, ReleaseHolds DEF InboxInv
    <3> QED BY <2>1, <3>1 DEF Release, InboxInv
  <2>3. CASE stray \/ ~handled
    BY <2>1, <2>3 DEF InboxInv
  <2> QED BY <2>2, <2>3
<1> QED BY <1>1, <1>2

LEMMA InboxConfirm ==
    ASSUME InboxInv, NEW ack, Confirm(ack) PROVE InboxInv'
<1>1. CASE user # Service
  BY <1>1, InboxKept DEF Confirm, ConfirmAccess
<1>2. CASE user = Service
  <2>1. ASSUME reps' = reps - 1 /\ UNCHANGED <<send, buffer, handled, power, input>> PROVE InboxInv'
    BY <2>1 DEF InboxInv, input
  <2> QED BY <1>2, <2>1, InboxStop DEF Confirm, ConfirmService, DecrementRepeat
<1> QED BY <1>1, <1>2

LEMMA InboxStep ==
    ASSUME InboxInv, [Next]_vars PROVE InboxInv'
<1>1. CASE UNCHANGED vars
  BY <1>1, InboxKept DEF vars
<1>2. CASE Application
  BY <1>2, InboxKept DEF Application, TransmitMessage, CancelTransmitMessage, ClearMessagesToSend,
     TriggerPower, SendBreak
<1>3. CASE Tasks
  <2>1. CASE BalSearch \/ BalClear \/ BalTransmit \/ BalRefused \/ BalReset \/ DbplInit \/ DbplTransmit
    BY <2>1, InboxKept DEF BalSearch, BalClear, BalTransmit, BalRefused, BalReset, DbplInit, DbplTransmit
  <2>2. CASE BuildPowerMessage
    BY <2>2 DEF BuildPowerMessage, InboxInv, input
  <2> QED BY <1>3, <2>1, <2>2, InboxDispatch DEF Tasks
<1>4. CASE Timers
  <2>1. CASE Reset
    BY <2>1, EmptyHolds DEF Reset, InboxInv
  <2>2. ASSUME NEW h \in Handlers, BreakTimer(h) PROVE InboxInv'
    BY <2>2, InboxKept DEF BreakTimer
  <2> QED BY <1>4, <2>1, <2>2 DEF Timers
<1>5. CASE Bus
  BY <1>5, InboxConfirm DEF Bus
<1>6. ASSUME NEW k \in Kinds, FrameArrives(k) PROVE InboxInv'
  <2>1. UNCHANGED <<stray, response>>
    BY <1>6 DEF FrameArrives
  <2> QED BY <1>6, <2>1, FrameHolds DEF InboxInv, response
<1> QED BY <1>1, <1>2, <1>3, <1>4, <1>5, <1>6 DEF Next

\* Who ends a response: its confirmation, or the reset of the node.
LEMMA ResponseEnds ==
    ASSUME PowerInv, InboxInv, [Next]_vars, send, buffer = "response", ~send', state' # "INIT"
    PROVE  \/ handled /\ ~handled' /\ (~stray => inbox # <<>> /\ inbox' = Tail(inbox))
           \/ late /\ trigger /\ ~trigger' /\ inbox' = inbox
           \/ ~handled /\ stray'
<1> USE DEF response
<1>1. \E ack : Confirm(ack) /\ user = Service
  <2>1. ASSUME NEW m \in Messages, TransmitMessage(m) \/ CancelTransmitMessage(m) PROVE FALSE
    BY <2>1 DEF TransmitMessage, CancelTransmitMessage
  <2>2. ~ (ClearMessagesToSend \/ TriggerPower \/ \E h \in Handlers : SendBreak(h) \/ BreakTimer(h))
    BY DEF ClearMessagesToSend, TriggerPower, SendBreak, BreakTimer
  <2>3. ~ Tasks
    BY DEF Tasks, BalSearch, BalClear, BalTransmit, BalRefused, BalReset, DbplInit, BuildPowerMessage,
       Dispatch, DbplTransmit
  <2>4. ~ Reset
    BY DEF Reset
  <2>5. ASSUME NEW k \in Kinds, FrameArrives(k) PROVE FALSE
    BY <2>5 DEF FrameArrives
  <2>6. ~ UNCHANGED vars
    BY DEF vars
  <2>7. \E ack : Confirm(ack)
    BY <2>1, <2>2, <2>3, <2>4, <2>5, <2>6 DEF Next, Application, Timers, Bus
  <2> QED BY <2>7 DEF Confirm, ConfirmAccess
<1>2. StopRepeat
  BY <1>1 DEF Confirm, ConfirmService, DecrementRepeat
<1>3. CASE trigger
  BY <1>2, <1>3 DEF StopRepeat, PowerInv, input
<1>4. CASE ~trigger
  <2>1. Release(ring) /\ stray' = (stray \/ ~handled)
    BY <1>2, <1>4 DEF StopRepeat
  <2>2. CASE handled
    <3>1. inbox' = SubSeq(inbox, 2, Len(inbox)) /\ ~handled'
      BY <2>1 DEF Release
    <3>2. ASSUME ~stray PROVE inbox # <<>> /\ inbox' = Tail(inbox)
      <4>1. inbox \in Seq(Kinds) /\ inbox # <<>>
        BY <2>2, <3>2 DEF InboxInv, Holds, Shape
      <4> QED BY <3>1, <4>1, TailIsSubSeq
    <3> QED BY <2>2, <3>1, <3>2
  <2>3. CASE ~handled
    BY <2>1, <2>3
  <2> QED BY <2>2, <2>3
<1> QED BY <1>3, <1>4

-----------------------------------------------------------------------------
(* Theorems.                                                               *)

LEMMA InboxInvariant == Spec => []InboxInv
<1>1. InboxInv /\ [Next]_vars => InboxInv'
  BY InboxStep
<1> QED BY <1>1, InboxInit, PTL DEF Spec

\* The input buffer hands the messages accepted out in their order, each until it is
\* released and none that was, for every size of the buffer: DLL_ptReceiveMessage,
\* DLL_vReleaseDataFromReceivedMessage and the interrupt between them.  What breaks
\* it is a release on behalf of a response whose message was released before.
THEOREM BufferStaysInbox == Spec => []BufferIsInbox
<1>1. InboxInv => BufferIsInbox
  BY Found DEF BufferIsInbox, InboxInv, Holds, Shape
<1> QED BY <1>1, InboxInvariant, PTL

\* The end of a response releases the message it answers and no other, whatever is
\* received, retried or triggered meanwhile, with the two exceptions of
\* dbuspresentation.c that the property names.
THEOREM AnsweredOnceOnly == Spec => AnsweredOnce
<1>1. PowerInv /\ InboxInv /\ [Next]_vars =>
         [send /\ buffer = "response" /\ ~send' /\ state' # "INIT" =>
             \/ handled /\ ~handled' /\ (~stray => inbox # <<>> /\ inbox' = Tail(inbox))
             \/ late /\ trigger /\ ~trigger' /\ inbox' = inbox
             \/ ~handled /\ stray']_vars
  BY ResponseEnds
<1> QED BY <1>1, PowerInvariant, InboxInvariant, PTL DEF Spec, AnsweredOnce

-----------------------------------------------------------------------------
(* Types.  They do not need the order of the buffer.                       *)

LEMMA LeastIsMember ==
    ASSUME NEW S \in SUBSET Nat, S # {}
    PROVE  Min(S) \in S
<1> DEFINE R == {ss \in Nat \X Nat : ss[1] < ss[2]}
<1>1. IsWellFoundedOn(R, Nat)
  BY NatLessThanWellFounded, Zenon DEF OpToRel
<1> HIDE DEF R
<1>2. PICK x \in S : \A y \in S : ~ (<<y, x>> \in R)
  BY <1>1, WFMin, Zenon
<1>3. \A a, b \in Nat : a < b => <<a, b>> \in R
  BY DEF R
<1>4. \A a, b \in Nat : a < b \/ b <= a
  OBVIOUS
<1>5. \E m \in S : \A y \in S : m =< y
  BY <1>2, <1>3, <1>4
<1> QED BY <1>5 DEF Min

\* What is found is a message that is flagged.
LEMMA LowestFlaggedTyped ==
    ASSUME NEW b \in Access PROVE LowestFlagged(b) \in Messages \cup {NoMessage}
<1> DEFINE s == Min(b.mask)
           flagged == {m \in b.bits : m[1] = s}
           indices == {m[2] : m \in flagged}
<1>1. b.bits \subseteq Messages
  BY DEF Access
<1>2. CASE flagged = {}
  BY <1>2 DEF LowestFlagged
<1>3. CASE flagged # {}
  <2>1. PICK n \in flagged : TRUE
    BY <1>3
  <2>2. n \in Messages /\ n[1] = s
    BY <1>1, <2>1
  <2>3. s \in Subsystems
    BY <2>2 DEF Messages
  <2> HIDE DEF s
  <2>4. indices # {} /\ indices \subseteq 0 .. (MessagesPer - 1)
    BY <1>1, <1>3 DEF Messages
  <2>5. indices \in SUBSET Nat
    BY <2>4
  <2> HIDE DEF indices
  <2>6. Min(indices) \in 0 .. (MessagesPer - 1)
    BY <2>4, <2>5, LeastIsMember
  <2>7. <<s, Min(indices)>> \in Messages
    BY <2>3, <2>6 DEF Messages
  <2>8. LowestFlagged(b) = <<s, Min(indices)>>
    BY <1>3 DEF LowestFlagged, s, indices
  <2> QED BY <2>7, <2>8
<1> QED BY <1>2, <1>3

\* The functions of bal.c keep their variables within their types, whatever state
\* they are called in.
LEMMA AccessTyped ==
    ASSUME NEW b \in Access
    PROVE  /\ \A m \in Messages : Flag(b, m) \in Access /\ Cancel(b, m) \in Access
           /\ ClearMessages(b) \in Access /\ Search(b) \in Access
           /\ \A s : ClearSubsystem(b, s) \in Access
           /\ \A m : ResetTransmissionBit(b, m) \in Access
           /\ \A ack : MessageTransmitted(b, ack) \in Access
<1>1. ASSUME NEW m \in Messages PROVE Flag(b, m) \in Access
  <2>1. m[1] \in Subsystems
    BY DEF Messages
  <2> QED BY <2>1 DEF Flag, Access
<1>2. ASSUME NEW m \in Messages PROVE Cancel(b, m) \in Access
  BY DEF Cancel, Access
<1>3. ClearMessages(b) \in Access
  BY DEF ClearMessages, Access
<1>4. Search(b) \in Access
  <2> DEFINE found == LowestFlagged(b)
  <2>1. found \in Messages \cup {NoMessage}
    BY LowestFlaggedTyped
  <2> HIDE DEF found
  <2>2. [b EXCEPT !.cur = found] \in Access
    BY <2>1 DEF Access
  <2> QED BY <2>2 DEF Search, found
<1>5. ASSUME NEW s PROVE ClearSubsystem(b, s) \in Access
  BY DEF ClearSubsystem, Access
<1>6. ASSUME NEW m PROVE ResetTransmissionBit(b, m) \in Access
  BY DEF ResetTransmissionBit, Access
<1>7. ASSUME NEW ack PROVE MessageTransmitted(b, ack) \in Access
  <2> DEFINE limit == LimitAfter(b, ack)
  <2>1. b.attempts \in 0 .. MaxRetries \cup {Cancelled} /\ b.max \in 0 .. MaxRetries
    BY DEF Access
  <2>2. limit \in 0 .. MaxRetries /\ MaxRetries \in 0 .. 254
    BY <2>1, Limits, LimitAfterBounded
  <2>3. CASE ack = "OK" \/ b.attempts >= limit
    <3>1. MessageTransmitted(b, ack) = [b EXCEPT !.attempts = 0, !.max = 0]
      BY <2>3 DEF MessageTransmitted, IsGivenUp
    <3>2. 0 \in 0 .. MaxRetries
      BY <2>2
    <3> QED BY <3>1, <3>2 DEF Access
  <2>4. CASE ~(ack = "OK" \/ b.attempts >= limit)
    <3>1. MessageTransmitted(b, ack) = [b EXCEPT !.attempts = @ + 1, !.max = limit]
      BY <2>4 DEF MessageTransmitted, IsGivenUp
    <3> HIDE DEF limit
    <3>2. b.attempts + 1 \in 0 .. MaxRetries
      BY <2>1, <2>2, <2>4 DEF Cancelled
    <3> QED BY <2>2, <3>1, <3>2 DEF Access
  <2> QED BY <2>3, <2>4
<1> QED BY <1>1, <1>2, <1>3, <1>4, <1>5, <1>6, <1>7

-----------------------------------------------------------------------------
(* The buffer.                                                             *)

\* The reader stays before the end, and nothing is half received between two steps.
BufferTypes == Shape(ring, kinds, inbox) /\ ring.read < BufferLength

LEMMA SizeIsNumber == ASSUME NEW l \in Rx!Byte PROVE Rx!MessageSize(l) \in Nat
<1> DEFINE n == Rx!Plus(l, Rx!Overhead)
<1>1. n \in Nat
  BY Grid, SMTT(30) DEF Rx!Plus, Rx!Overhead, Rx!Byte
<1> HIDE DEF n
<1>2. n + (n % 2) \in Nat
  BY <1>1, SMTT(30)
<1> QED BY <1>2 DEF Rx!MessageSize, Rx!Even, n

LEMMA MinusIsByte == ASSUME NEW a \in Rx!Byte, NEW d \in 0 .. BufferLength PROVE Rx!Minus(a, d) \in Rx!Byte
<1>1. a + ByteMod - d \in Nat
  BY Grid DEF Rx!Byte
<1>2. \A x \in Nat : x % ByteMod \in 0 .. (ByteMod - 1)
  BY Grid, SMTT(30)
<1> QED BY <1>1, <1>2 DEF Rx!Minus, Rx!Byte

LEMMA ReceiveTyped ==
    ASSUME NEW r, NEW ks, NEW box, Shape(r, ks, box), r.read < BufferLength
    PROVE  LET m == Rx!Receive(r) IN Shape(m, ks, box) /\ m.read < BufferLength
<1> DEFINE c == Rx!Minus(r.count, BufferLength - r.read)
           s == [r EXCEPT !.count = c, !.read = 0]
           n == IF r.count # 0 /\ r.cell[r.read] = Rx!Dummy THEN s ELSE r
           l == n.cell[n.read]
<1>1. /\ r \in Rx!Ring /\ r.chars = 0 /\ r.count \in Rx!Byte
      /\ r.read \in 0 .. (BufferLength - 1) /\ 0 \in 0 .. (BufferLength - 1)
      /\ r.cell \in [0 .. (BufferLength - 1) -> Rx!Byte]
  BY Grid DEF Shape, Rx!Ring
<1>2. c \in Rx!Byte
  <2>1. BufferLength - r.read \in 0 .. BufferLength
    BY <1>1, Grid
  <2> QED BY <1>1, <2>1, MinusIsByte
<1>3. s \in Rx!Ring /\ s.chars = 0 /\ s.read = 0 /\ s.cell = r.cell
  <2> HIDE DEF c
  <2> QED BY <1>1, <1>2 DEF Rx!Ring
<1>4. n \in Rx!Ring /\ n.chars = 0 /\ n.read \in 0 .. (BufferLength - 1) /\ n.cell = r.cell
  <2> HIDE DEF s
  <2> QED BY <1>1, <1>3
<1>5. Rx!Receive(r) = IF n.count # 0 THEN [n EXCEPT !.len = l] ELSE n
  BY DEF Rx!Receive
<1> HIDE DEF n
<1>6. l \in Rx!Byte
  BY <1>1, <1>4
<1> HIDE DEF l
<1>7. /\ [n EXCEPT !.len = l] \in Rx!Ring /\ [n EXCEPT !.len = l].chars = 0
      /\ [n EXCEPT !.len = l].read = n.read
  BY <1>4, <1>6 DEF Rx!Ring
<1>8. n.read < BufferLength
  BY <1>4, Grid
<1>9. ks \in [0 .. (BufferLength - 1) -> Kinds \cup {"stale"}] /\ box \in Seq(Kinds)
  BY DEF Shape
<1> QED BY <1>4, <1>5, <1>7, <1>8, <1>9 DEF Shape

LEMMA ReleaseTyped ==
    ASSUME NEW r, NEW ks, NEW box, Shape(r, ks, box), r.read < BufferLength
    PROVE  /\ Shape(Rx!Release(r), [ks EXCEPT ![r.read] = "stale"], SubSeq(box, 2, Len(box)))
           /\ Rx!Release(r).read < BufferLength
<1> DEFINE size == Rx!MessageSize(r.len)
           next == IF r.read + size >= BufferLength THEN 0 ELSE r.read + size
           rest == SubSeq(box, 2, Len(box))
<1>1. /\ r \in Rx!Ring /\ r.chars = 0 /\ r.count \in Rx!Byte /\ r.len \in Rx!Byte
      /\ r.read \in 0 .. (BufferLength - 1)
  BY Grid DEF Shape, Rx!Ring
<1>2. size \in Nat
  BY <1>1, SizeIsNumber
<1> HIDE DEF size
<1>3. next \in 0 .. (BufferLength - 1) /\ 0 \in 0 .. BufferLength /\ 0 \in Rx!Byte
  BY <1>1, <1>2, Grid DEF Rx!Byte
<1>4. r.count < size \/ r.count - size \in Rx!Byte
  BY <1>1, <1>2, Grid DEF Rx!Byte
<1>5. Rx!Release(r) =
          IF r.count < size THEN [r EXCEPT !.read = 0, !.count = 0]
          ELSE [r EXCEPT !.count = r.count - size, !.read = next]
  BY DEF Rx!Release, Rx!Flushes, size
<1> HIDE DEF next
<1>6. Rx!Release(r) \in Rx!Ring /\ Rx!Release(r).chars = 0 /\ Rx!Release(r).read < BufferLength
  <2>1. next \in 0 .. BufferLength /\ next < BufferLength /\ 0 < BufferLength
    BY <1>3, Grid
  <2>2. CASE r.count < size
    <3>1. Rx!Release(r) = [r EXCEPT !.read = 0, !.count = 0]
      BY <1>5, <2>2
    <3> QED BY <1>1, <1>3, <2>1, <3>1 DEF Rx!Ring
  <2>3. CASE ~(r.count < size)
    <3> DEFINE c == r.count - size
    <3>1. Rx!Release(r) = [r EXCEPT !.count = c, !.read = next] /\ c \in Rx!Byte
      BY <1>4, <1>5, <2>3
    <3> HIDE DEF c
    <3> QED BY <1>1, <2>1, <3>1 DEF Rx!Ring
  <2> QED BY <2>2, <2>3
<1>7. rest \in Seq(Kinds)
  <2>1. box \in Seq(Kinds) /\ Len(box) \in Nat
    BY DEF Shape
  <2>2. \A j \in 2 .. Len(box) : box[j] \in Kinds
    BY <2>1
  <2> QED BY <2>1, <2>2, SubSeqProperties
<1>8. [ks EXCEPT ![r.read] = "stale"] \in [0 .. (BufferLength - 1) -> Kinds \cup {"stale"}]
  BY DEF Shape
<1> HIDE DEF rest
<1> QED BY <1>6, <1>7, <1>8 DEF Shape, rest

\* The writer, too, stays within the buffer, whatever the buffer holds.
LEMMA WrapTyped ==
    ASSUME NEW r \in Rx!Ring
    PROVE  LET w == Rx!Wrap(r, 4)
           IN  w \in Rx!Ring /\ w.chars = r.chars /\ w.read = r.read /\ w.write + 4 <= BufferLength
<1>1. r.write \in 0 .. BufferLength /\ r.count \in Rx!Byte
      /\ r.cell \in [0 .. (BufferLength - 1) -> Rx!Byte]
  BY DEF Rx!Ring
<1>2. CASE 4 <= Rx!Gap(r)
  <2>1. r.write + 4 <= BufferLength
    BY <1>1, <1>2, Grid DEF Rx!Gap
  <2> QED BY <1>2, <2>1 DEF Rx!Wrap
<1>3. CASE ~(4 <= Rx!Gap(r))
  <2> DEFINE c == Rx!Plus(r.count, Rx!Gap(r))
             cells == IF Rx!Gap(r) > 0 THEN [r.cell EXCEPT ![r.write] = Rx!Dummy] ELSE r.cell
             w == [r EXCEPT !.cell = cells, !.count = c, !.write = 0]
  <2>1. Rx!Wrap(r, 4) = w
    BY <1>3 DEF Rx!Wrap
  <2>2. c \in Rx!Byte
    <3>1. r.count + Rx!Gap(r) \in Nat
      BY <1>1, Grid DEF Rx!Gap, Rx!Byte
    <3>2. \A x \in Nat : x % ByteMod \in 0 .. (ByteMod - 1)
      BY Grid, SMTT(30)
    <3> QED BY <3>1, <3>2 DEF Rx!Plus, Rx!Byte
  <2>3. cells \in [0 .. (BufferLength - 1) -> Rx!Byte]
    BY <1>1, Bytes
  <2>4. 0 \in 0 .. BufferLength /\ 0 + 4 <= BufferLength
    BY Grid
  <2> HIDE DEF c, cells
  <2>5. w \in Rx!Ring /\ w.chars = r.chars /\ w.read = r.read /\ w.write = 0
    BY <2>2, <2>3, <2>4 DEF Rx!Ring
  <2> QED BY <2>1, <2>4, <2>5
<1> QED BY <1>2, <1>3

LEMMA FrameTyped ==
    ASSUME BufferTypes, NEW k \in Kinds, FrameArrives(k) PROVE BufferTypes'
<1> DEFINE w == Rx!Wrap(ring, 4)
           header == Rx!StoreHeader(ring, 4)
<1>1. /\ ring \in Rx!Ring /\ ring.chars = 0 /\ ring.read < BufferLength
      /\ kinds \in [0 .. (BufferLength - 1) -> Kinds \cup {"stale"}] /\ inbox \in Seq(Kinds)
  BY DEF BufferTypes, Shape
<1>2. w \in Rx!Ring /\ w.chars = 0 /\ w.read = ring.read /\ w.write + 4 <= BufferLength
  BY <1>1, WrapTyped
<1>3. 2 + Rx!Overhead = 4
  BY Bytes
<1>4. CASE Rx!HasRoom(w, 4)
  <2> DEFINE h == [w EXCEPT !.cell[w.write] = 2, !.cell[w.write + 1] = 0, !.chars = 2]
  <2>1. header = <<h, TRUE>>
    <3>1. header =
              <<[w EXCEPT !.cell[w.write] = Rx!Minus(4, Rx!Overhead),
                          !.cell[w.write + 1] = Rx!Data, !.chars = 2], TRUE>>
      BY <1>4 DEF Rx!StoreHeader
    <3> QED BY <3>1, Bytes
  <2>2. /\ ring' = Stored(w) /\ inbox' \in {<<>>, Append(inbox, k)}
        /\ \E p : kinds' = [kinds EXCEPT ![p] = k]
    <3> HIDE DEF w
    <3> HIDE DEF h
    <3>1. header[1] = h /\ header[2] = TRUE
      <4> HIDE DEF header
      <4> QED BY <2>1, PairParts, Zenon
    <3>2. /\ ring' = Rx!Commit(Rx!StoreByte(Rx!StoreByte(h)))
          /\ kinds' = [kinds EXCEPT ![h.write] = k] /\ inbox' \in {<<>>, Append(inbox, k)}
      BY <1>3, <3>1 DEF FrameArrives
    <3> QED BY <3>2 DEF Stored, h
  <2> HIDE DEF w, h
  <2>3. w.count + 4 < ByteMod
    <3>1. w.count \in 0 .. (ByteMod - 1) /\ w.count <= BufferLength - 2
      BY <1>2, <1>4, ReaderTypes, Bytes DEF Rx!HasRoom, Rx!Byte
    <3> QED BY <3>1, Grid
  <2>4. ring' \in Rx!Ring /\ ring'.chars = 0 /\ ring'.read = w.read
    BY <1>2, <2>2, <2>3, StoredFields
  <2>5. inbox' \in Seq(Kinds)
    <3>1. Append(inbox, k) \in Seq(Kinds) /\ <<>> \in Seq(Kinds)
      BY <1>1
    <3> QED BY <2>2, <3>1
  <2>6. kinds' \in [0 .. (BufferLength - 1) -> Kinds \cup {"stale"}]
    BY <1>1, <2>2, Zenon
  <2> QED BY <1>1, <1>2, <2>4, <2>5, <2>6 DEF BufferTypes, Shape
<1>5. CASE ~ Rx!HasRoom(w, 4)
  <2>1. header = <<[w EXCEPT !.chars = 0], FALSE>>
    BY <1>5 DEF Rx!StoreHeader
  <2>2. [w EXCEPT !.chars = 0] = w
    BY <1>2 DEF Rx!Ring
  <2> HIDE DEF w
  <2>3. ring' = w /\ UNCHANGED <<kinds, inbox>>
    <3>1. header = <<w, FALSE>>
      BY <2>1, <2>2, Zenon
    <3>2. header[1] = w /\ header[2] = FALSE
      <4> HIDE DEF header
      <4> QED BY <3>1, PairParts, Zenon
    <3> QED BY <1>3, <3>2 DEF FrameArrives
  <2> QED BY <1>1, <1>2, <2>3 DEF BufferTypes, Shape
<1> QED BY <1>4, <1>5

\* A message is released, or kept as it was found.
LEMMA ReleaseStep ==
    ASSUME NEW r, Shape(r, kinds, inbox), r.read < BufferLength, Release(r) PROVE BufferTypes'
BY ReleaseTyped DEF Release, BufferTypes

LEMMA BufferKept == ASSUME BufferTypes, UNCHANGED input PROVE BufferTypes'
BY DEF BufferTypes, input

-----------------------------------------------------------------------------
(* The other variables.                                                    *)

AccessTypes ==
    /\ link \in {"free", "busy", "down"} /\ user \in Messages \cup {NoMessage, Service}
    /\ bal \in Access /\ step \in {"done", "found", "notFound", "taken"}
    /\ asked \in Subsystems /\ due \subseteq Messages /\ lost \subseteq Messages
    /\ open \in Messages \cup {NoMessage}

Repetitions == 0 .. Max({PowerRetries, ResponseRetries})

ServiceTypes ==
    /\ state \in {"INIT", "ONLINE", "WAIT_FOR_RESET", "STAY_OFFLINE"} /\ silent \in BOOLEAN
    /\ send \in BOOLEAN /\ buffer \in {"response", "power"} /\ reps \in Repetitions
    /\ trigger \in BOOLEAN /\ wakeupSent \in BOOLEAN
    /\ {stray, handled, powerEnded, late} \subseteq BOOLEAN

TypesInv == BufferTypes /\ AccessTypes /\ ServiceTypes

LEMMA MostRetries ==
    LET most == Max({PowerRetries, ResponseRetries})
    IN  most \in Nat /\ most >= PowerRetries /\ most >= ResponseRetries
<1>1. PowerRetries \in Nat /\ ResponseRetries \in Nat
  BY NodeStackAssumption
<1>2. \E x \in {PowerRetries, ResponseRetries} : \A y \in {PowerRetries, ResponseRetries} : x >= y
  <2>1. CASE PowerRetries >= ResponseRetries
    BY <1>1, <2>1
  <2>2. CASE ResponseRetries >= PowerRetries
    BY <1>1, <2>2
  <2> QED BY <1>1, <2>1, <2>2
<1> QED BY <1>1, <1>2 DEF Max

LEMMA RetriesAllowed ==
    /\ {0, PowerRetries, ResponseRetries} \subseteq Repetitions
    /\ \A n \in Repetitions : n > 0 => n - 1 \in Repetitions
<1> DEFINE most == Max({PowerRetries, ResponseRetries})
<1>1. most \in Nat /\ most >= PowerRetries /\ most >= ResponseRetries
  BY MostRetries
<1>2. Repetitions = 0 .. most /\ PowerRetries \in Nat /\ ResponseRetries \in Nat
  BY NodeStackAssumption DEF Repetitions
<1> HIDE DEF most
<1> QED BY <1>1, <1>2

LEMMA TypesInit == Init => TypesInv
<1> SUFFICES ASSUME Init PROVE TypesInv
  OBVIOUS
<1>1. BufferTypes
  BY EmptyHolds, Grid DEF Init, BufferTypes, Holds, Rx!EmptyRing
<1>2. AccessTypes
  <2>1. Min(Subsystems) \in Subsystems
    BY BusAccessAssumption, LeastIsMember
  <2> QED BY <2>1, Limits DEF Init, AccessTypes, Dll!Init, NewAccess, Access
<1>3. ServiceTypes
  BY RetriesAllowed DEF Init, ServiceTypes
<1> QED BY <1>1, <1>2, <1>3 DEF TypesInv

\* The two ends of a service message.
LEMMA StopTyped ==
    ASSUME TypesInv, StopRepeat, powerEnded' \in BOOLEAN,
           UNCHANGED <<state, silent, wakeupSent>>
    PROVE  BufferTypes' /\ ServiceTypes'
<1>1. BufferTypes'
  BY ReleaseStep, BufferKept DEF StopRepeat, TypesInv, BufferTypes
<1>2. ServiceTypes'
  <2>1. /\ reps' = 0 /\ send' = FALSE /\ buffer' = buffer /\ trigger' \in {FALSE, trigger}
        /\ handled' \in {FALSE, handled} /\ stray' \in BOOLEAN /\ late' = late
    <3>1. trigger \in BOOLEAN /\ stray \in BOOLEAN /\ handled \in BOOLEAN
      BY DEF TypesInv, ServiceTypes
    <3>2. CASE trigger
      BY <3>1, <3>2 DEF StopRepeat, input
    <3>3. CASE ~trigger
      BY <3>1, <3>3 DEF StopRepeat, Release
    <3> QED BY <3>2, <3>3
  <2> QED BY <2>1, RetriesAllowed DEF ServiceTypes, TypesInv
<1> QED BY <1>1, <1>2

LEMMA DispatchTyped == ASSUME TypesInv, Dispatch PROVE TypesInv'
<1>1. /\ Shape(Received, kinds, inbox) /\ Received.read < BufferLength
  BY ReceiveTyped DEF TypesInv, BufferTypes, Received
<1>2. BufferTypes'
  <2>1. Keep => BufferTypes'
    BY <1>1 DEF Keep, BufferTypes
  <2>2. Release(Received) => BufferTypes'
    BY <1>1, ReleaseStep
  <2> QED BY <2>1, <2>2 DEF Dispatch, SkipEnd, Consume, Read, Update, UnknownItem, WakeupRequest, Silence,
         GoOffline, ResetExecute, Discard
<1>3. AccessTypes'
  BY DEF TypesInv, AccessTypes, access, dll, Dispatch, SkipEnd, Consume, Read, Update, UnknownItem,
     WakeupRequest, Silence, GoOffline, ResetExecute, Dll!Down
<1>4. ServiceTypes'
  <2>1. /\ \/ UNCHANGED <<send, buffer, reps>>
           \/ \E r \in {reps, ResponseRetries, PowerRetries} : Respond(r)
        /\ handled' \in {handled, FALSE, TRUE} /\ stray' = stray
    BY DEF Dispatch, SkipEnd, Consume, Read, Update, UnknownItem, WakeupRequest, Silence,
       GoOffline, ResetExecute, Discard, Keep, Answer, Release, response
  <2>2. /\ send' \in BOOLEAN /\ buffer' \in {"response", "power"} /\ reps' \in Repetitions
        /\ handled' \in BOOLEAN /\ stray' \in BOOLEAN
    BY <2>1, RetriesAllowed DEF Respond, TypesInv, ServiceTypes
  <2>3. state' \in {state, "WAIT_FOR_RESET", "STAY_OFFLINE"} /\ silent' \in BOOLEAN
    BY DEF Dispatch, SkipEnd, Consume, Read, Update, UnknownItem, WakeupRequest, Silence,
       GoOffline, ResetExecute, TypesInv, ServiceTypes
  <2>4. UNCHANGED <<power, breaking>>
    BY DEF Dispatch
  <2> QED BY <2>2, <2>3, <2>4 DEF TypesInv, ServiceTypes, power, breaking
<1> QED BY <1>2, <1>3, <1>4 DEF TypesInv

LEMMA ConfirmTyped == ASSUME TypesInv, NEW ack, Confirm(ack) PROVE TypesInv'
<1>1. /\ link' = "free" /\ user' = NoMessage /\ UNCHANGED <<silent, state, breaking>>
  BY DEF Confirm, Dll!EndFrame
<1>2. CASE user = Service
  <2>1. /\ UNCHANGED access
        /\ \/ StopRepeat /\ powerEnded' \in BOOLEAN
           \/ reps > 0 /\ reps' = reps - 1 /\ UNCHANGED <<send, buffer, handled, power, input>>
    <3> DEFINE sent == powerEnded \/ buffer = "power"
               failed == powerEnded \/ trigger
    <3>1. sent \in BOOLEAN /\ failed \in BOOLEAN
      BY DEF TypesInv, ServiceTypes
    <3>2. /\ UNCHANGED access
          /\ \/ StopRepeat /\ powerEnded' = sent
             \/ StopRepeat /\ powerEnded' = failed
             \/ reps > 0 /\ reps' = reps - 1 /\ UNCHANGED <<send, buffer, handled, power, input>>
      BY <1>2 DEF Confirm, ConfirmService, DecrementRepeat
    <3> HIDE DEF sent, failed
    <3> QED BY <3>1, <3>2
  <2>2. AccessTypes'
    BY <1>1, <2>1 DEF access, AccessTypes, TypesInv
  <2>3. BufferTypes' /\ ServiceTypes'
    <3>1. CASE StopRepeat /\ powerEnded' \in BOOLEAN
      BY <1>1, <3>1, StopTyped DEF breaking
    <3>2. CASE reps > 0 /\ reps' = reps - 1 /\ UNCHANGED <<send, buffer, handled, power, input>>
      BY <1>1, <3>2, BufferKept, RetriesAllowed DEF TypesInv, ServiceTypes, input, breaking, power
    <3> QED BY <2>1, <3>1, <3>2
  <2> QED BY <2>2, <2>3 DEF TypesInv
<1>3. CASE user # Service
  <2>1. /\ bal' = MessageTransmitted(bal, ack) /\ open' \in {open, NoMessage}
        /\ UNCHANGED <<input, step, asked, due, lost, response, power>>
    BY <1>3 DEF Confirm, ConfirmAccess
  <2> QED BY <1>1, <2>1, AccessTyped, BufferKept DEF TypesInv, AccessTypes, ServiceTypes, input, response, power, breaking
<1> QED BY <1>2, <1>3

LEMMA TypesStep == TypesInv /\ [Next]_vars => TypesInv'
<1> SUFFICES ASSUME TypesInv, [Next]_vars PROVE TypesInv'
  OBVIOUS
<1>1. ASSUME UNCHANGED <<input, dll, access>>, ServiceTypes' PROVE TypesInv'
  BY <1>1, BufferKept DEF TypesInv, AccessTypes, dll, access
<1>2. ASSUME UNCHANGED <<input, silent, state, response, power, breaking>>, AccessTypes' PROVE TypesInv'
  BY <1>2, BufferKept DEF TypesInv, ServiceTypes, input, response, power, breaking
<1>3. CASE UNCHANGED vars
  BY <1>1, <1>3 DEF vars, TypesInv, ServiceTypes, input, response, power, breaking
<1>4. CASE Application
  <2>1. ASSUME NEW m \in Messages, TransmitMessage(m) \/ CancelTransmitMessage(m) PROVE TypesInv'
    <3>1. bal' \in Access /\ due' \subseteq Messages /\ lost' \subseteq Messages
      BY <2>1, AccessTyped DEF TransmitMessage, CancelTransmitMessage, TypesInv, AccessTypes
    <3> QED BY <1>2, <2>1, <3>1 DEF TransmitMessage, CancelTransmitMessage, TypesInv, AccessTypes, dll
  <2>2. CASE ClearMessagesToSend
    BY <1>2, <2>2, AccessTyped DEF ClearMessagesToSend, TypesInv, AccessTypes, dll
  <2>3. CASE TriggerPower \/ \E h \in Handlers : SendBreak(h)
    BY <1>1, <2>3 DEF TriggerPower, SendBreak, TypesInv, ServiceTypes, input, response, power, breaking
  <2> QED BY <1>4, <2>1, <2>2, <2>3 DEF Application
<1>5. CASE Tasks
  <2>1. CASE BalSearch \/ BalClear \/ BalReset
    <3>1. bal' \in Access
      BY <2>1, AccessTyped DEF BalSearch, BalClear, BalReset, TypesInv, AccessTypes
    <3>2. step' \in {"done", "found", "notFound"} /\ asked' \in Subsystems
      <4>1. ASSUME bal.mask # {} PROVE Min(bal.mask) \in Subsystems
        <5>1. bal.mask \subseteq Subsystems /\ Subsystems \subseteq Nat
          BY BusAccessAssumption DEF TypesInv, AccessTypes, Access
        <5>2. Min(bal.mask) \in bal.mask
          BY <4>1, <5>1, LeastIsMember
        <5> QED BY <5>1, <5>2
      <4>2. asked \in Subsystems
        BY DEF TypesInv, AccessTypes
      <4> QED BY <2>1, <4>1, <4>2 DEF BalSearch, BalClear, BalReset
    <3> QED BY <1>2, <2>1, <3>1, <3>2 DEF BalSearch, BalClear, BalReset, TypesInv, AccessTypes, dll
  <2>2. CASE BalTransmit
    <3>1. bal.cur \in Messages \cup {NoMessage}
      BY DEF TypesInv, AccessTypes, Access
    <3> QED BY <1>2, <2>2, <3>1 DEF BalTransmit, Dll!Start, TypesInv, AccessTypes
  <2>3. CASE BalRefused
    BY <1>2, <2>3 DEF BalRefused, TypesInv, AccessTypes, dll
  <2>4. CASE DbplInit \/ BuildPowerMessage
    BY <1>1, <2>4, RetriesAllowed DEF DbplInit, BuildPowerMessage, TypesInv, ServiceTypes, input, response, power, breaking
  <2>5. CASE DbplTransmit
    BY <1>2, <2>5 DEF DbplTransmit, Dll!Start, TypesInv, AccessTypes, access
  <2> QED BY <1>5, <2>1, <2>2, <2>3, <2>4, <2>5, DispatchTyped DEF Tasks
<1>6. CASE Timers
  <2>1. CASE Reset
    <3>1. BufferTypes'
      BY <2>1, EmptyHolds, Grid DEF Reset, BufferTypes, Holds, Rx!EmptyRing
    <3>2. AccessTypes'
      BY <2>1, Limits DEF Reset, TypesInv, AccessTypes, NewAccess, Access
    <3>3. ServiceTypes'
      BY <2>1, RetriesAllowed DEF Reset, ServiceTypes
    <3> QED BY <3>1, <3>2, <3>3 DEF TypesInv
  <2>2. ASSUME NEW h \in Handlers, BreakTimer(h) PROVE TypesInv'
    <3>1. wakeupSent' \in BOOLEAN
      BY <2>2 DEF BreakTimer, TypesInv, ServiceTypes
    <3> QED BY <1>1, <2>2, <3>1 DEF BreakTimer, TypesInv, ServiceTypes, input, response, power
  <2> QED BY <1>6, <2>1, <2>2 DEF Timers
<1>7. CASE Bus
  BY <1>7, ConfirmTyped DEF Bus
<1>8. ASSUME NEW k \in Kinds, FrameArrives(k) PROVE TypesInv'
  <2>1. BufferTypes'
    BY <1>8, FrameTyped DEF TypesInv
  <2> QED BY <1>8, <2>1 DEF FrameArrives, TypesInv, AccessTypes, ServiceTypes, dll, access, response, power, breaking
<1> QED BY <1>3, <1>4, <1>5, <1>6, <1>7, <1>8 DEF Next

\* Every variable holds a value of its kind whatever is received, requested,
\* cancelled, interrupted and reset: the offsets and the fill level of the input
\* buffer (dbusdll.c), the retry counters of bal.c and of dbuspresentation.c, the
\* stages of the breaks.
THEOREM TypesOK == Spec => []TypeOK
<1>1. TypesInv /\ AccessInv /\ LockInv => TypeOK
  <2> SUFFICES ASSUME TypesInv, AccessInv, LockInv PROVE TypeOK
    OBVIOUS
  <2>1. tries \in 0 .. (MaxRetries + 1)
    BY Limits DEF AccessInv, LimitInv, TriesInv, TriesBounded
  <2>2. ring \in Rx!Ring /\ inbox \in Seq(Kinds)
        /\ kinds \in [0 .. (BufferLength - 1) -> Kinds \cup {"stale"}]
    BY DEF TypesInv, BufferTypes, Shape
  <2>3. lock \in BOOLEAN /\ breaks \in [Handlers -> [stage : 0 .. 3, timer : BOOLEAN]]
    BY DEF LockInv
  <2> QED BY <2>1, <2>2, <2>3 DEF TypeOK, TypesInv, AccessTypes, ServiceTypes, Repetitions
<1> QED BY <1>1, TypesInit, TypesStep, LockInit, LockStep, AccessInvariant, PTL DEF Spec
=============================================================================
