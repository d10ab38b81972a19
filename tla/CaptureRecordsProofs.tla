------------------------ MODULE CaptureRecordsProofs ------------------------
(***************************************************************************)
(* Theorems about CaptureRecords, for every length of the ring, of a line,  *)
(* of what may be pending and of a chunk.                                    *)
(***************************************************************************)
EXTENDS CaptureLoopsProofs

-----------------------------------------------------------------------------
(* Pieces of a stream: s are its bytes, T the places at which it was        *)
(* flushed, as in the reference definition.                                  *)

StartIn(s, T, i) ==
  /\ i \in 1..Len(s) /\ s[i] \in Texts
  /\ i = 1 \/ (i - 1) \in T \/ s[i - 1] \in Ends

\* The piece from i to j is complete.
PieceIn(s, T, i, j) ==
  /\ StartIn(s, T, i) /\ j \in i..Len(s)
  /\ \A k \in i..j : s[k] \in Texts
  /\ \A t \in T : ~(i <= t /\ t < j)
  /\ j \in T \/ (j < Len(s) /\ s[j + 1] \in Ends)

PieceStarts(s, T) == {i \in 1..Len(s) : \E j \in 1..Len(s) : PieceIn(s, T, i, j)}

\* Behind o everything is open: text without an end, and o is where it could begin.
OpenFrom(s, T, o) ==
  /\ o \in 0..Len(s) /\ T \subseteq 1..o
  /\ \A i \in (o + 1)..Len(s) : s[i] \in Texts
  /\ o = 0 \/ o \in T \/ s[o] \in Ends

PieceOf(s, T, i, j) == Record(SubSeq(s, i, j), j \in T \/ j - i + 1 > MaxLine)

\* The records are those of the complete pieces that begin in S, in their order.
RecordedOf(s, T, S, out, c) ==
  /\ Lists(c, S) /\ out \in Seq(Records) /\ Len(out) = Len(c)
  /\ \A n \in 1..Len(c) : \E j \in 1..Len(s) :
       PieceIn(s, T, c[n], j) /\ out[n] = PieceOf(s, T, c[n], j)

Recorded(s, T, out, c) == RecordedOf(s, T, PieceStarts(s, T), out, c)

PiecesUpTo(s, T, o)   == {i \in PieceStarts(s, T) : i <= o}
PiecesBehind(s, T, o) == {i \in PieceStarts(s, T) : i > o}

\* The options and limits are numbers.
LEMMA BufferNumbers ==
  /\ MessageLimit \in Nat /\ MessageLimit > 0 /\ MaxLine \in Nat /\ MaxLine > 0
  /\ MaxPending \in Nat /\ MaxPending > 0 /\ MaxChunk \in Nat /\ MaxBytes \in Nat
  /\ MaxLine <= MaxPending
BY BufferAssumption

\* A record is typed, whatever it is made of.
LEMMA RecordTyped ==
  ASSUME NEW raw \in Seq(Texts), raw # <<>>, NEW b \in BOOLEAN
  PROVE  Record(raw, b) \in Records
<1> DEFINE m == IF Len(raw) < MaxLine THEN Len(raw) ELSE MaxLine
           t == SubSeq(raw, 1, m)
<1>1. m \in 1..MaxLine /\ m <= Len(raw) /\ Len(raw) \in Nat
  BY BufferNumbers
<1> HIDE DEF m
<1>2. t \in Seq(Texts) /\ Len(t) = m
  BY <1>1
<1> HIDE DEF t
<1>3. t \in [1..m -> Texts]
  BY <1>1, <1>2
<1>4. Record(raw, b) = [text |-> t, truncated |-> b]
  BY DEF Record, t, m
<1>5. t \in UNION {[1..n -> Texts] : n \in 1..MaxLine}
  BY <1>1, <1>3
<1>6. QED
  BY <1>4, <1>5 DEF Records

\* Two lists, one behind the other.
LEMMA ListsConcat ==
  ASSUME NEW S, NEW U, NEW c, NEW d, Lists(c, S), Lists(d, U),
         \A x \in S : \A y \in U : x < y
  PROVE  Lists(c \o d, S \cup U)
<1> DEFINE e == c \o d
<1>1. c \in Seq(Nat) /\ d \in Seq(Nat) /\ Len(c) \in Nat /\ Len(d) \in Nat
  BY DEF Lists
<1>2. /\ e \in Seq(Nat) /\ Len(e) = Len(c) + Len(d)
      /\ \A n \in 1..Len(c) : e[n] = c[n]
      /\ \A n \in 1..Len(d) : e[Len(c) + n] = d[n]
  BY <1>1
<1> HIDE DEF e
<1>3. ASSUME NEW n \in 1..Len(e)
      PROVE  \/ n \in 1..Len(c) /\ e[n] = c[n]
             \/ n > Len(c) /\ n - Len(c) \in 1..Len(d) /\ e[n] = d[n - Len(c)]
  <2>1. CASE n <= Len(c)
    BY <1>1, <1>2, <2>1
  <2>2. CASE n > Len(c)
    <3>1. n - Len(c) \in 1..Len(d) /\ Len(c) + (n - Len(c)) = n
      BY <1>1, <1>2, <2>2
    <3>2. QED
      BY <1>2, <2>2, <3>1
  <2>3. QED
    BY <1>1, <1>2, <2>1, <2>2
<1>4. \A n \in 1..Len(e) : e[n] \in S \cup U
  BY <1>3 DEF Lists
<1>5. ASSUME NEW x \in S \cup U PROVE \E n \in 1..Len(e) : e[n] = x
  <2>1. CASE x \in S
    <3>1. PICK n \in 1..Len(c) : c[n] = x
      BY <2>1 DEF Lists
    <3>2. n \in 1..Len(e)
      BY <1>1, <1>2
    <3>3. QED
      BY <1>2, <3>1, <3>2
  <2>2. CASE x \in U
    <3>1. PICK n \in 1..Len(d) : d[n] = x
      BY <2>2 DEF Lists
    <3>2. Len(c) + n \in 1..Len(e)
      BY <1>1, <1>2
    <3>3. QED
      BY <1>2, <3>1, <3>2
  <2>3. QED
    BY <2>1, <2>2
<1>6. ASSUME NEW m \in 1..Len(e), NEW n \in 1..Len(e), m < n PROVE e[m] < e[n]
  <2>1. CASE n \in 1..Len(c)
    <3>1. m \in 1..Len(c)
      <4>1. m \in Nat /\ m >= 1 /\ n \in Nat
        BY <1>1, <1>2
      <4>2. QED
        BY <1>1, <1>6, <2>1, <4>1
    <3>2. e[m] = c[m] /\ e[n] = c[n]
      BY <1>2, <2>1, <3>1
    <3>3. c[m] < c[n]
      BY <1>6, <2>1, <3>1 DEF Lists
    <3>4. QED
      BY <3>2, <3>3
  <2>2. CASE n \notin 1..Len(c)
    <3>1. n > Len(c) /\ n - Len(c) \in 1..Len(d) /\ e[n] = d[n - Len(c)]
      BY <1>3, <2>2
    <3>2. CASE m \in 1..Len(c)
      <4>1. e[m] \in S /\ e[n] \in U
        BY <1>2, <3>1, <3>2 DEF Lists
      <4>2. QED
        BY <4>1
    <3>3. CASE m \notin 1..Len(c)
      <4>1. m - Len(c) \in 1..Len(d) /\ e[m] = d[m - Len(c)]
        BY <1>3, <3>3
      <4>2. m - Len(c) < n - Len(c)
        BY <1>1, <1>6, <1>2
      <4>3. QED
        BY <3>1, <4>1, <4>2 DEF Lists
    <3>4. QED
      BY <3>2, <3>3
  <2>3. QED
    BY <2>1, <2>2
<1>7. Lists(e, S \cup U)
  BY <1>2, <1>4, <1>5, <1>6 DEF Lists
<1>8. QED
  BY <1>7 DEF e

\* A list with one more element behind it.
LEMMA ListsOne == ASSUME NEW x \in Nat PROVE Lists(<<x>>, {x})
BY DEF Lists

-----------------------------------------------------------------------------
(* How the pieces change when bytes arrive, and when what is open is        *)
(* flushed.                                                                  *)

Extends(s2, s) == Len(s) <= Len(s2) /\ \A i \in 1..Len(s) : s2[i] = s[i]

\* A byte is text or a line end, not both.
LEMMA TextOrEnd == \A b \in Bytes : (b \in Texts) <=> ~(b \in Ends)
BY ByteAssumption DEF Bytes

\* A complete piece ends where the open text begins, at the latest.
LEMMA PieceBehind ==
  ASSUME NEW s \in Seq(Bytes), NEW T, NEW o, OpenFrom(s, T, o), NEW i, NEW j,
         PieceIn(s, T, i, j)
  PROVE  i \in 1..o /\ j \in i..o
<1>1. /\ o \in 0..Len(s) /\ T \subseteq 1..o /\ Len(s) \in Nat
      /\ \A n \in (o + 1)..Len(s) : s[n] \in Texts
  BY DEF OpenFrom
<1>2. i \in 1..Len(s) /\ j \in i..Len(s)
  BY DEF PieceIn, StartIn
<1>3. CASE j \in T
  BY <1>1, <1>2, <1>3
<1>4. CASE j < Len(s) /\ s[j + 1] \in Ends
  <2>1. j + 1 \in 1..Len(s)
    BY <1>1, <1>2, <1>4
  <2>2. s[j + 1] \notin Texts
    BY <1>4, ByteAssumption
  <2>3. ~(j + 1 \in (o + 1)..Len(s))
    BY <1>1, <2>2
  <2>4. QED
    BY <1>1, <1>2, <2>1, <2>3
<1>5. QED
  BY <1>3, <1>4 DEF PieceIn

\* The pieces before the open text stay what they are.
LEMMA PiecesStay ==
  ASSUME NEW s \in Seq(Bytes), NEW s2 \in Seq(Bytes), Extends(s2, s),
         NEW T, NEW T2, NEW o, OpenFrom(s, T, o), T \subseteq T2, T2 \subseteq Nat,
         \A t \in T2 : t \in T \/ t > o, NEW i \in 1..o, NEW j \in Nat
  PROVE  PieceIn(s2, T2, i, j) <=> PieceIn(s, T, i, j)
<1>1. /\ o \in 0..Len(s) /\ T \subseteq 1..o /\ Len(s) \in Nat /\ Len(s2) \in Nat
      /\ o = 0 \/ o \in T \/ s[o] \in Ends
      /\ i \in Nat /\ i >= 1 /\ i <= o
  BY DEF OpenFrom
<1>2. Len(s) <= Len(s2) /\ \A n \in 1..Len(s) : s2[n] = s[n]
  BY DEF Extends
<1>3. s[i] = s2[i] /\ (i = 1 \/ s[i - 1] = s2[i - 1])
  <2>1. i \in 1..Len(s) /\ (i = 1 \/ i - 1 \in 1..Len(s))
    BY <1>1
  <2>2. QED
    BY <1>2, <2>1
<1>4. (i - 1) \in T2 <=> (i - 1) \in T
  BY <1>1
<1>5. StartIn(s2, T2, i) <=> StartIn(s, T, i)
  <2>1. i \in 1..Len(s) /\ i \in 1..Len(s2)
    BY <1>1, <1>2
  <2>2. QED
    BY <1>3, <1>4, <2>1 DEF StartIn
<1>6. ASSUME PieceIn(s, T, i, j) PROVE PieceIn(s2, T2, i, j)
  <2>1. j \in i..o
    BY <1>6, PieceBehind
  <2>2. j \in i..Len(s2)
    BY <1>1, <1>2, <2>1
  <2>3. \A k \in i..j : s2[k] \in Texts
    <3>1. \A k \in i..j : k \in 1..Len(s)
      BY <1>1, <2>1
    <3>2. QED
      BY <1>2, <1>6, <3>1 DEF PieceIn
  <2>4. \A t \in T2 : ~(i <= t /\ t < j)
    BY <1>1, <1>6, <2>1 DEF PieceIn
  <2>5. j \in T2 \/ (j < Len(s2) /\ s2[j + 1] \in Ends)
    <3>1. CASE j \in T
      BY <3>1
    <3>2. CASE j < Len(s) /\ s[j + 1] \in Ends
      <4>1. j + 1 \in 1..Len(s)
        BY <1>1, <2>1, <3>2
      <4>2. QED
        BY <1>1, <1>2, <3>2, <4>1
    <3>3. QED
      BY <1>6, <3>1, <3>2 DEF PieceIn
  <2>6. QED
    BY <1>5, <1>6, <2>2, <2>3, <2>4, <2>5 DEF PieceIn
<1>7. ASSUME PieceIn(s2, T2, i, j) PROVE PieceIn(s, T, i, j)
  <2>1. /\ j >= i /\ j <= Len(s2)
        /\ \A k \in i..j : s2[k] \in Texts
        /\ \A t \in T2 : ~(i <= t /\ t < j)
        /\ j \in T2 \/ (j < Len(s2) /\ s2[j + 1] \in Ends)
    BY <1>1, <1>7 DEF PieceIn
  <2>2. j <= o
    <3> SUFFICES ASSUME o < j PROVE FALSE
      BY <1>1
    <3>1. o \notin T
      BY <1>1, <2>1
    <3>2. s[o] \in Ends /\ o \in i..j /\ o \in 1..Len(s)
      BY <1>1, <3>1
    <3>3. s2[o] = s[o] /\ s2[o] \in Texts
      BY <1>2, <2>1, <3>2
    <3>4. QED
      BY <3>2, <3>3, ByteAssumption
  <2>3. j \in i..Len(s)
    BY <1>1, <2>1, <2>2
  <2>4. \A k \in i..j : s[k] \in Texts
    <3>1. \A k \in i..j : k \in 1..Len(s)
      BY <1>1, <2>3
    <3>2. QED
      BY <1>2, <2>1, <3>1
  <2>5. j \in T \/ (j < Len(s) /\ s[j + 1] \in Ends)
    <3>1. CASE j \in T2
      BY <1>1, <2>2, <3>1
    <3>2. CASE j < Len(s) /\ s2[j + 1] \in Ends
      <4>1. j + 1 \in 1..Len(s)
        BY <1>1, <3>2
      <4>2. QED
        BY <1>2, <3>2, <4>1
    <3>3. CASE j = Len(s)
      <4>1. j = o /\ o \in i..j
        BY <1>1, <2>1, <2>2, <3>3
      <4>2. s[o] \notin Ends
        BY <2>4, <4>1, ByteAssumption
      <4>3. QED
        BY <1>1, <4>1, <4>2
    <3>4. QED
      BY <1>1, <2>1, <2>3, <3>1, <3>2, <3>3
  <2>6. QED
    BY <1>5, <1>7, <2>1, <2>3, <2>4, <2>5 DEF PieceIn
<1>8. QED
  BY <1>6, <1>7

\* Behind the start of the open text the pieces are the lines that are cut from it.
LEMMA PiecesNew ==
  ASSUME NEW s \in Seq(Bytes), NEW s2 \in Seq(Bytes), Extends(s2, s),
         NEW T, NEW o, OpenFrom(s, T, o), NEW i \in Nat, i > o, NEW j \in Nat, j > o
  PROVE  PieceIn(s2, T, i, j) <=> IsLine(SubSeq(s2, o + 1, Len(s2)), i - o, j - o)
<1> DEFINE p == SubSeq(s2, o + 1, Len(s2))
           x == i - o
           y == j - o
<1>1. /\ o \in 0..Len(s) /\ T \subseteq 1..o /\ Len(s) \in Nat /\ Len(s2) \in Nat
      /\ o = 0 \/ o \in T \/ s[o] \in Ends
      /\ Len(s) <= Len(s2) /\ \A n \in 1..Len(s) : s2[n] = s[n]
      /\ o \in Nat
  BY DEF OpenFrom, Extends
<1>2. p \in Seq(Bytes) /\ Len(p) = Len(s2) - o
        /\ \A n \in 1..(Len(s2) - o) : p[n] = s2[o + n]
  BY <1>1
<1>3. x \in Nat /\ y \in Nat /\ x >= 1 /\ y >= 1 /\ i = o + x /\ j = o + y
  BY <1>1
<1> HIDE DEF p, x, y
<1>4. ASSUME NEW k \in Nat, k > o, k <= Len(s2) PROVE p[k - o] = s2[k]
  <2>1. k - o \in 1..(Len(s2) - o) /\ o + (k - o) = k
    BY <1>1, <1>4
  <2>2. QED
    BY <1>2, <2>1
<1>5. ASSUME PieceIn(s2, T, i, j) PROVE IsLine(p, x, y)
  <2>1. /\ j >= i /\ j <= Len(s2) /\ i <= Len(s2)
        /\ \A k \in i..j : s2[k] \in Texts
        /\ j < Len(s2) /\ s2[j + 1] \in Ends
        /\ i = 1 \/ (i - 1) \in T \/ s2[i - 1] \in Ends
    <3>1. j \notin T
      BY <1>1
    <3>2. j \in i..Len(s2) /\ i \in 1..Len(s2)
      BY <1>5 DEF PieceIn, StartIn
    <3>3. j >= i /\ j <= Len(s2) /\ i <= Len(s2)
      BY <1>1, <3>2
    <3>4. QED
      BY <1>5, <3>1, <3>3 DEF PieceIn, StartIn
  <2>2. x \in 1..y /\ y \in 1..(Len(p) - 1)
    BY <1>1, <1>2, <1>3, <2>1
  <2>3. ASSUME NEW n \in x..y PROVE p[n] \in Texts
    <3>1. o + n \in i..j /\ n \in 1..(Len(s2) - o)
      BY <1>1, <1>3, <2>1
    <3>2. QED
      BY <1>2, <2>1, <3>1
  <2>4. p[y + 1] \in Ends
    <3>1. y + 1 \in 1..(Len(s2) - o) /\ o + (y + 1) = j + 1
      BY <1>1, <1>3, <2>1
    <3>2. QED
      BY <1>2, <2>1, <3>1
  <2>5. x = 1 \/ p[x - 1] \in Ends
    <3> SUFFICES ASSUME x # 1 PROVE p[x - 1] \in Ends
      OBVIOUS
    <3>1. /\ x - 1 \in 1..(Len(s2) - o) /\ o + (x - 1) = i - 1
          /\ i # 1 /\ ~(i - 1 <= o)
      BY <1>1, <1>3, <2>1
    <3>2. s2[i - 1] \in Ends
      BY <1>1, <2>1, <3>1
    <3>3. QED
      BY <1>2, <3>1, <3>2
  <2>6. QED
    BY <2>2, <2>3, <2>4, <2>5 DEF IsLine
<1>6. ASSUME IsLine(p, x, y) PROVE PieceIn(s2, T, i, j)
  <2>1. /\ x <= y /\ y <= Len(s2) - o - 1
        /\ \A k \in x..y : p[k] \in Texts
        /\ p[y + 1] \in Ends
        /\ x = 1 \/ p[x - 1] \in Ends
    BY <1>1, <1>2, <1>3, <1>6 DEF IsLine
  <2>2. i \in 1..Len(s2) /\ j \in i..Len(s2) /\ j < Len(s2)
    BY <1>1, <1>3, <2>1
  <2>3. ASSUME NEW k \in i..j PROVE s2[k] \in Texts
    <3>1. k - o \in x..y /\ k \in Nat /\ k > o /\ k <= Len(s2)
      BY <1>1, <1>3, <2>1
    <3>2. QED
      BY <1>4, <2>1, <3>1
  <2>4. \A t \in T : ~(i <= t /\ t < j)
    BY <1>1
  <2>5. s2[j + 1] \in Ends
    <3>1. y + 1 \in 1..(Len(s2) - o) /\ o + (y + 1) = j + 1
      BY <1>1, <1>3, <2>1
    <3>2. QED
      BY <1>2, <2>1, <3>1
  <2>6. i = 1 \/ (i - 1) \in T \/ s2[i - 1] \in Ends
    <3>1. CASE x = 1
      <4>1. i - 1 = o
        BY <1>1, <1>3, <3>1
      <4>2. CASE o = 0
        BY <1>3, <3>1, <4>2
      <4>3. CASE o \in T
        BY <4>1, <4>3
      <4>4. CASE o # 0 /\ s[o] \in Ends
        <5>1. o \in 1..Len(s)
          BY <1>1, <4>4
        <5>2. QED
          BY <1>1, <4>1, <4>4, <5>1
      <4>5. QED
        BY <1>1, <4>2, <4>3, <4>4
    <3>2. CASE x # 1
      <4>1. x - 1 \in 1..(Len(s2) - o) /\ o + (x - 1) = i - 1
        BY <1>1, <1>3, <2>1, <3>2
      <4>2. QED
        BY <1>2, <2>1, <3>2, <4>1
    <3>3. QED
      BY <3>1, <3>2
  <2>7. s2[i] \in Texts
    BY <1>1, <2>2, <2>3
  <2>8. QED
    BY <2>2, <2>3, <2>4, <2>5, <2>6, <2>7 DEF PieceIn, StartIn
<1>7. QED
  BY <1>5, <1>6 DEF p, x, y

\* The records of the pieces up to a place, then those of the pieces behind it.
LEMMA RecordedJoin ==
  ASSUME NEW s \in Seq(Bytes), NEW T, NEW o \in Nat, NEW out, NEW c, NEW new, NEW d,
         RecordedOf(s, T, PiecesUpTo(s, T, o), out, c),
         RecordedOf(s, T, PiecesBehind(s, T, o), new, d)
  PROVE  Recorded(s, T, out \o new, c \o d)
<1> DEFINE S == PiecesUpTo(s, T, o)
           U == PiecesBehind(s, T, o)
           all == out \o new
           e   == c \o d
           Right(r, i) == \E j \in 1..Len(s) : PieceIn(s, T, i, j)
             /\ r = PieceOf(s, T, i, j)
<1>1. Lists(c, S) /\ Lists(d, U)
  BY DEF RecordedOf
<1>2. /\ \A x \in S : \A y \in U : x < y
      /\ S \cup U = PieceStarts(s, T)
  BY DEF PiecesUpTo, PiecesBehind, PieceStarts
<1>3. /\ out \in Seq(Records) /\ new \in Seq(Records) /\ Len(out) = Len(c)
      /\ Len(new) = Len(d)
      /\ \A n \in 1..Len(c) : Right(out[n], c[n])
      /\ \A n \in 1..Len(d) : Right(new[n], d[n])
  BY DEF RecordedOf
<1>4. c \in Seq(Nat) /\ d \in Seq(Nat) /\ Len(c) \in Nat /\ Len(d) \in Nat
  BY <1>1 DEF Lists
<1> HIDE DEF S, U, Right
<1>5. Lists(e, PieceStarts(s, T))
  <2>1. Lists(e, S \cup U)
    BY <1>1, <1>2, ListsConcat
  <2>2. QED
    BY <1>2, <2>1
<1>6. /\ all \in Seq(Records) /\ Len(all) = Len(c) + Len(d)
      /\ \A n \in 1..Len(c) : all[n] = out[n]
      /\ \A n \in 1..Len(d) : all[Len(c) + n] = new[n]
  <2>1. out \in Seq(Records) /\ new \in Seq(Records) /\ Len(out) = Len(c)
          /\ Len(new) = Len(d)
    BY <1>3
  <2>2. all \in Seq(Records) /\ Len(all) = Len(out) + Len(new)
    BY <2>1
  <2>3. \A n \in 1..Len(out) : all[n] = out[n]
    BY <2>1
  <2>4. \A n \in 1..Len(new) : all[Len(out) + n] = new[n]
    BY <2>1
  <2> HIDE DEF all
  <2>5. QED
    BY <2>1, <2>2, <2>3, <2>4
<1>7. /\ Len(e) = Len(c) + Len(d)
      /\ \A n \in 1..Len(c) : e[n] = c[n]
      /\ \A n \in 1..Len(d) : e[Len(c) + n] = d[n]
  BY <1>4
<1> HIDE DEF all, e
<1>8. ASSUME NEW n \in 1..Len(e) PROVE Right(all[n], e[n])
  <2>1. CASE n <= Len(c)
    <3>1. n \in 1..Len(c)
      BY <1>4, <1>7, <2>1
    <3>2. QED
      BY <1>3, <1>6, <1>7, <3>1
  <2>2. CASE n > Len(c)
    <3>1. n - Len(c) \in 1..Len(d) /\ Len(c) + (n - Len(c)) = n
      BY <1>4, <1>7, <2>2
    <3>2. Right(new[n - Len(c)], d[n - Len(c)])
      BY <1>3, <3>1
    <3>3. QED
      BY <1>6, <1>7, <3>1, <3>2
  <2>3. QED
    BY <1>4, <1>7, <2>1, <2>2
<1>9. QED
  BY <1>5, <1>6, <1>7, <1>8 DEF Recorded, RecordedOf, Right, all, e

\* A part of a sequence.
LEMMA PartIs ==
  ASSUME NEW s \in Seq(Bytes), NEW i \in Nat, NEW j \in Nat, i >= 1, i <= j, j <= Len(s)
  PROVE  /\ SubSeq(s, i, j) \in Seq(Bytes) /\ Len(SubSeq(s, i, j)) = j - i + 1
         /\ \A m \in 1..(j - i + 1) : SubSeq(s, i, j)[m] = s[i + m - 1]
<1>1. Len(s) \in Nat
  OBVIOUS
<1>2. SubSeq(s, i, j) \in Seq(Bytes)
  BY <1>1
<1>3. Len(SubSeq(s, i, j)) = j - i + 1
  BY <1>1
<1>4. \A m \in 1..(j - i + 1) : SubSeq(s, i, j)[m] = s[i + m - 1]
  BY <1>1
<1>5. QED
  BY <1>2, <1>3, <1>4

\* The records that were made stay right when bytes arrive or the rest is flushed.
LEMMA RecordsStay ==
  ASSUME NEW s \in Seq(Bytes), NEW s2 \in Seq(Bytes), Extends(s2, s),
         NEW T, NEW T2, NEW o, OpenFrom(s, T, o), T \subseteq T2, T2 \subseteq Nat,
         \A t \in T2 : t \in T \/ t > o, NEW out, NEW c, Recorded(s, T, out, c)
  PROVE  RecordedOf(s2, T2, PiecesUpTo(s2, T2, o), out, c)
<1> DEFINE S == PieceStarts(s, T)
           U == PiecesUpTo(s2, T2, o)
<1>1. /\ o \in 0..Len(s) /\ Len(s) \in Nat /\ Len(s2) \in Nat /\ Len(s) <= Len(s2)
      /\ o \in Nat
  BY DEF OpenFrom, Extends
<1>2. ASSUME NEW i \in S PROVE i \in 1..o
  BY PieceBehind DEF PieceStarts
<1>3. \A i \in 1..o : \A j \in Nat : PieceIn(s2, T2, i, j) <=> PieceIn(s, T, i, j)
  BY PiecesStay
<1>4. S = U
  <2>1. ASSUME NEW i \in S PROVE i \in U
    <3>1. PICK j \in 1..Len(s) : PieceIn(s, T, i, j)
      BY DEF PieceStarts
    <3>2. i \in 1..o /\ j \in Nat
      BY <1>1, <1>2
    <3>3. PieceIn(s2, T2, i, j)
      BY <1>3, <3>1, <3>2
    <3>4. i \in 1..Len(s2) /\ j \in 1..Len(s2) /\ i <= o
      BY <1>1, <3>2
    <3>5. QED
      BY <3>3, <3>4 DEF PiecesUpTo, PieceStarts
  <2>2. ASSUME NEW i \in U PROVE i \in S
    <3>1. /\ i \in 1..Len(s2) /\ i <= o
          /\ \E j \in 1..Len(s2) : PieceIn(s2, T2, i, j)
      BY DEF PiecesUpTo, PieceStarts
    <3>2. PICK j \in 1..Len(s2) : PieceIn(s2, T2, i, j)
      BY <3>1
    <3>3. i \in 1..o /\ j \in Nat
      BY <1>1, <3>1
    <3>4. PieceIn(s, T, i, j)
      BY <1>3, <3>2, <3>3
    <3>5. j \in i..Len(s)
      BY <3>4 DEF PieceIn
    <3>6. i \in 1..Len(s) /\ j \in 1..Len(s)
      BY <1>1, <3>3, <3>5
    <3>7. QED
      BY <3>4, <3>6 DEF PieceStarts
  <2>3. QED
    BY <2>1, <2>2
<1>5. /\ Lists(c, S) /\ out \in Seq(Records) /\ Len(out) = Len(c)
      /\ \A n \in 1..Len(c) : \E j \in 1..Len(s) :
           PieceIn(s, T, c[n], j) /\ out[n] = PieceOf(s, T, c[n], j)
  BY DEF Recorded, RecordedOf
<1> HIDE DEF S, U
<1>6. ASSUME NEW n \in 1..Len(c)
      PROVE  \E j \in 1..Len(s2) :
               PieceIn(s2, T2, c[n], j) /\ out[n] = PieceOf(s2, T2, c[n], j)
  <2>1. PICK j \in 1..Len(s) : PieceIn(s, T, c[n], j) /\ out[n] = PieceOf(s, T, c[n], j)
    BY <1>5
  <2>2. c[n] \in 1..o /\ j \in c[n]..o
    BY <2>1, PieceBehind
  <2>3. PieceIn(s2, T2, c[n], j)
    BY <1>1, <1>3, <2>1, <2>2
  <2>4. SubSeq(s2, c[n], j) = SubSeq(s, c[n], j)
    <3> DEFINE a == SubSeq(s, c[n], j)
               b == SubSeq(s2, c[n], j)
    <3>1. /\ c[n] \in Nat /\ c[n] >= 1 /\ j \in Nat /\ c[n] <= j /\ j <= Len(s)
          /\ j <= Len(s2)
      BY <1>1, <2>2
    <3>2. /\ a \in Seq(Bytes) /\ Len(a) = j - c[n] + 1
          /\ \A m \in 1..(j - c[n] + 1) : a[m] = s[c[n] + m - 1]
      BY <3>1, PartIs
    <3>3. /\ b \in Seq(Bytes) /\ Len(b) = j - c[n] + 1
          /\ \A m \in 1..(j - c[n] + 1) : b[m] = s2[c[n] + m - 1]
      BY <3>1, PartIs
    <3> HIDE DEF a, b
    <3>4. ASSUME NEW m \in 1..(j - c[n] + 1) PROVE a[m] = b[m]
      <4>1. c[n] + m - 1 \in 1..Len(s)
        BY <1>1, <3>1
      <4>2. s2[c[n] + m - 1] = s[c[n] + m - 1]
        BY <4>1 DEF Extends
      <4>3. QED
        BY <3>2, <3>3, <4>2
    <3>5. Len(a) = Len(b) /\ \A m \in 1..Len(a) : a[m] = b[m]
      BY <3>2, <3>3, <3>4
    <3>6. a = b
      BY <3>2, <3>3, <3>5, SeqEqual
    <3>7. QED
      BY <3>6 DEF a, b
  <2>5. (j \in T2) = (j \in T)
    BY <1>1, <2>2
  <2>6. PieceOf(s2, T2, c[n], j) = PieceOf(s, T, c[n], j)
    BY <2>4, <2>5 DEF PieceOf
  <2>7. j \in 1..Len(s2)
    BY <1>1
  <2>8. QED
    BY <2>1, <2>3, <2>6, <2>7
<1>7. QED
  BY <1>4, <1>5, <1>6 DEF RecordedOf, U

\* The lines that are cut from the open text are the new pieces, and their records
\* are right.
LEMMA LinesAreRecorded ==
  ASSUME NEW s \in Seq(Bytes), NEW s2 \in Seq(Bytes), Extends(s2, s),
         NEW T, NEW o, OpenFrom(s, T, o), NEW lines, NEW d,
         LinesAt(SubSeq(s2, o + 1, Len(s2)), lines, d)
  PROVE  RecordedOf(s2, T, PiecesBehind(s2, T, o),
                    [n \in DOMAIN lines |-> LineRecord(lines[n])], Moved(d, o))
<1> DEFINE p   == SubSeq(s2, o + 1, Len(s2))
           S   == LineStarts(p)
           U   == PiecesBehind(s2, T, o)
           e   == Moved(d, o)
           new == [n \in DOMAIN lines |-> LineRecord(lines[n])]
<1>1. /\ o \in 0..Len(s) /\ T \subseteq 1..o /\ Len(s) \in Nat /\ Len(s2) \in Nat
      /\ Len(s) <= Len(s2) /\ o \in Nat /\ o \in 0..Len(s2)
  BY DEF OpenFrom, Extends
<1>2. p \in Seq(Bytes) /\ Len(p) = Len(s2) - o
  BY <1>1
<1>3. \A i, j \in Nat : i > o /\ j > o =>
        (PieceIn(s2, T, i, j) <=> IsLine(p, i - o, j - o))
  BY PiecesNew
<1> HIDE DEF p
<1>4. /\ Lists(d, S) /\ lines \in Seq(Seq(Texts)) /\ Len(lines) = Len(d)
      /\ \A n \in 1..Len(d) : \E y \in 1..Len(p) :
           IsLine(p, d[n], y) /\ lines[n] = SubSeq(p, d[n], y)
  BY DEF LinesAt, p
<1> HIDE DEF S
<1>5. /\ d \in Seq(Nat) /\ Len(d) \in Nat
      /\ \A n \in 1..Len(d) : d[n] \in S /\ d[n] \in Nat
      /\ \A x \in S : \E n \in 1..Len(d) : d[n] = x
      /\ \A m, n \in 1..Len(d) : m < n => d[m] < d[n]
  <2>1. d \in Seq(Nat)
    BY <1>4 DEF Lists
  <2>2. Len(d) \in Nat /\ \A n \in 1..Len(d) : d[n] \in Nat
    BY <2>1
  <2>3. QED
    BY <1>4, <2>1, <2>2 DEF Lists
<1>6. /\ e \in Seq(Nat) /\ Len(e) = Len(d)
      /\ \A n \in 1..Len(d) : e[n] = o + d[n]
  <2>1. e = [n \in 1..Len(d) |-> o + d[n]]
    BY DEF Moved
  <2> HIDE DEF e
  <2>2. e \in [1..Len(d) -> Nat]
    BY <1>1, <1>5, <2>1
  <2>3. Len(d) \in Nat
    BY <1>5
  <2>4. e \in Seq(Nat) /\ Len(e) = Len(d)
    BY <2>2, <2>3
  <2>5. QED
    BY <2>1, <2>4
<1> HIDE DEF e
<1>7. ASSUME NEW i \in Nat, NEW j \in Nat, IsLine(p, i, j)
      PROVE  /\ i \in 1..j /\ j \in 1..(Len(p) - 1)
             /\ PieceIn(s2, T, o + i, o + j) /\ o + i \in U /\ o + j \in 1..Len(s2)
  <2>1. i \in 1..j /\ j \in 1..(Len(p) - 1)
    BY <1>7 DEF IsLine
  <2>2. /\ o + i \in 1..Len(s2) /\ o + j \in 1..Len(s2) /\ o + i > o /\ o + j > o
        /\ (o + i) - o = i /\ (o + j) - o = j /\ o + i \in Nat /\ o + j \in Nat
    BY <1>1, <1>2, <2>1
  <2>3. PieceIn(s2, T, o + i, o + j)
    BY <1>3, <1>7, <2>2
  <2>4. QED
    BY <2>1, <2>2, <2>3 DEF PiecesBehind, PieceStarts
<1>8. ASSUME NEW n \in 1..Len(d)
      PROVE  \E y \in 1..Len(p) : /\ IsLine(p, d[n], y) /\ lines[n] = SubSeq(p, d[n], y)
                                  /\ y \in Nat
  BY <1>1, <1>2, <1>4
<1>9. Lists(e, U)
  <2>1. ASSUME NEW n \in 1..Len(e) PROVE e[n] \in U
    <3>1. PICK y \in 1..Len(p) : IsLine(p, d[n], y) /\ y \in Nat
      BY <1>6, <1>8
    <3>2. e[n] = o + d[n] /\ d[n] \in Nat
      BY <1>5, <1>6
    <3>3. o + d[n] \in U
      BY <1>7, <3>1, <3>2
    <3>4. QED
      BY <3>2, <3>3
  <2>2. ASSUME NEW i \in U PROVE \E n \in 1..Len(e) : e[n] = i
    <3>1. PICK j \in 1..Len(s2) : PieceIn(s2, T, i, j) /\ i \in 1..Len(s2) /\ i > o
      BY DEF PiecesBehind, PieceStarts
    <3>2. j \in i..Len(s2)
      BY <3>1 DEF PieceIn
    <3>3. i \in Nat /\ j \in Nat /\ j > o
      BY <1>1, <3>1, <3>2
    <3>4. IsLine(p, i - o, j - o)
      BY <1>3, <3>1, <3>3
    <3>5. i - o \in 1..Len(p) /\ j - o \in 1..Len(p)
      BY <1>1, <1>2, <3>1, <3>2
    <3>6. i - o \in S
      BY <3>4, <3>5 DEF S, LineStarts
    <3>7. PICK n \in 1..Len(d) : d[n] = i - o
      BY <1>5, <3>6
    <3>8. QED
      BY <1>1, <1>6, <3>3, <3>7
  <2>3. ASSUME NEW m \in 1..Len(e), NEW n \in 1..Len(e), m < n PROVE e[m] < e[n]
    <3>1. d[m] < d[n] /\ d[m] \in Nat /\ d[n] \in Nat
      BY <1>5, <1>6, <2>3
    <3>2. e[m] = o + d[m] /\ e[n] = o + d[n]
      BY <1>6
    <3>3. QED
      BY <1>1, <3>1, <3>2
  <2>4. QED
    BY <1>6, <2>1, <2>2, <2>3 DEF Lists
<1>10. DOMAIN lines = 1..Len(d) /\ new = [n \in 1..Len(d) |-> LineRecord(lines[n])]
  BY <1>4
<1>11. ASSUME NEW n \in 1..Len(d)
       PROVE  /\ LineRecord(lines[n]) \in Records
              /\ \E j \in 1..Len(s2) : /\ PieceIn(s2, T, e[n], j)
                                       /\ LineRecord(lines[n]) = PieceOf(s2, T, e[n], j)
  <2>1. PICK y \in 1..Len(p) : /\ IsLine(p, d[n], y) /\ lines[n] = SubSeq(p, d[n], y)
                               /\ y \in Nat
    BY <1>8
  <2>2. d[n] \in Nat /\ e[n] = o + d[n]
    BY <1>5, <1>6
  <2>3. /\ d[n] \in 1..y /\ y \in 1..(Len(p) - 1)
        /\ PieceIn(s2, T, o + d[n], o + y) /\ o + y \in 1..Len(s2)
    BY <1>7, <2>1, <2>2
  <2>4. lines[n] = SubSeq(s2, o + d[n], o + y)
    <3>1. d[n] \in 1..(Len(s2) - o) /\ y \in 1..(Len(s2) - o)
      BY <1>1, <1>2, <2>3
    <3>2. QED
      BY <1>1, <2>1, <3>1, PartOfRest DEF p
  <2>5. lines[n] \in Seq(Texts) /\ Len(lines[n]) = (o + y) - (o + d[n]) + 1
    <3>1. lines[n] \in Seq(Texts)
      BY <1>4
    <3>2. /\ o + d[n] \in 1..Len(s2) /\ o + y \in 1..Len(s2)
          /\ o + d[n] <= o + y
      BY <1>1, <1>2, <2>3
    <3>3. QED
      BY <2>4, <3>1, <3>2
  <2>6. lines[n] # <<>>
    <3>1. (o + y) - (o + d[n]) + 1 > 0
      <4>1. o \in Nat /\ y \in Nat /\ d[n] \in Nat /\ d[n] <= y
        BY <1>1, <2>1, <2>2, <2>3
      <4>2. QED
        BY <4>1
    <3>2. Len(lines[n]) # 0
      BY <2>5, <3>1
    <3>3. QED
      BY <3>2
  <2>7. o + y \notin T
    BY <1>1, <2>3
  <2>8. LineRecord(lines[n]) = PieceOf(s2, T, o + d[n], o + y)
    <3>1. (Len(lines[n]) > MaxLine)
            = (o + y \in T \/ (o + y) - (o + d[n]) + 1 > MaxLine)
      BY <2>5, <2>7
    <3>2. QED
      BY <2>4, <3>1 DEF LineRecord, PieceOf
  <2>9. LineRecord(lines[n]) \in Records
    <3>1. (Len(lines[n]) > MaxLine) \in BOOLEAN
      OBVIOUS
    <3>2. QED
      BY <2>5, <2>6, <3>1, RecordTyped DEF LineRecord
  <2>10. QED
    BY <2>2, <2>3, <2>8, <2>9
<1> HIDE DEF new
<1>12. new \in Seq(Records) /\ Len(new) = Len(e)
  <2>1. new \in [1..Len(d) -> Records]
    BY <1>10, <1>11
  <2>2. Len(d) \in Nat
    BY <1>5
  <2>3. new \in Seq(Records) /\ Len(new) = Len(d)
    BY <2>1, <2>2
  <2>4. QED
    BY <1>6, <2>3
<1>13. ASSUME NEW n \in 1..Len(e)
       PROVE  \E j \in 1..Len(s2) : PieceIn(s2, T, e[n], j)
                /\ new[n] = PieceOf(s2, T, e[n], j)
  <2>1. n \in 1..Len(d) /\ new[n] = LineRecord(lines[n])
    BY <1>6, <1>10
  <2>2. QED
    BY <1>11, <2>1
<1> HIDE DEF U
<1>14. RecordedOf(s2, T, U, new, e)
  BY <1>9, <1>12, <1>13 DEF RecordedOf
<1>15. QED
  BY <1>14 DEF U, new, e

\* What is open after the lines were cut.
LEMMA RestIsOpen ==
  ASSUME NEW s \in Seq(Bytes), NEW s2 \in Seq(Bytes), Extends(s2, s),
         NEW T, NEW o, OpenFrom(s, T, o), NEW rest,
         RestAt(SubSeq(s2, o + 1, Len(s2)), rest)
  PROVE  /\ Len(s2) - Len(rest) \in o..Len(s2)
         /\ OpenFrom(s2, T, Len(s2) - Len(rest))
         /\ SubSeq(s2, (Len(s2) - Len(rest)) + 1, Len(s2)) = rest
<1> DEFINE p  == SubSeq(s2, o + 1, Len(s2))
           r  == Len(rest)
           o2 == Len(s2) - r
           v  == SubSeq(s2, o2 + 1, Len(s2))
<1>1. /\ o \in 0..Len(s) /\ T \subseteq 1..o /\ Len(s) \in Nat /\ Len(s2) \in Nat
      /\ Len(s) <= Len(s2) /\ o \in Nat /\ o <= Len(s2)
      /\ o = 0 \/ o \in T \/ s[o] \in Ends
      /\ \A n \in 1..Len(s) : s2[n] = s[n]
  BY DEF OpenFrom, Extends
<1>2. p \in Seq(Bytes) /\ Len(p) = Len(s2) - o
        /\ \A n \in 1..(Len(s2) - o) : p[n] = s2[o + n]
  BY <1>1
<1> HIDE DEF p
<1>3. /\ rest \in Seq(Texts) /\ r <= Len(p) /\ r \in Nat
      /\ rest = SubSeq(p, Len(p) - r + 1, Len(p))
      /\ \A n \in (Len(p) - r + 1)..Len(p) : p[n] \in Texts
      /\ r = Len(p) \/ p[Len(p) - r] \in Ends
  <2>1. /\ rest \in Seq(Texts) /\ r <= Len(p)
        /\ rest = SubSeq(p, Len(p) - r + 1, Len(p))
        /\ r = Len(p) \/ p[Len(p) - r] \in Ends
    BY DEF RestAt, p
  <2>2. r \in Nat /\ \A m \in 1..r : rest[m] \in Texts
    BY <2>1
  <2> HIDE DEF r
  <2>3. ASSUME NEW n \in (Len(p) - r + 1)..Len(p) PROVE p[n] \in Texts
    <3>1. n - (Len(p) - r) \in 1..r /\ (Len(p) - r) + (n - (Len(p) - r)) = n
      BY <1>1, <1>2, <2>1, <2>2
    <3>2. rest[n - (Len(p) - r)] = p[(Len(p) - r) + (n - (Len(p) - r))]
      BY <1>1, <1>2, <2>1, <2>2, <3>1
    <3>3. QED
      BY <2>2, <3>1, <3>2
  <2>4. QED
    BY <2>1, <2>2, <2>3
<1> HIDE DEF r
<1>4. o2 \in o..Len(s2) /\ o2 = o + (Len(p) - r) /\ o2 \in Nat /\ Len(p) - r \in Nat
  <2>1. /\ Len(p) = Len(s2) - o /\ r <= Len(p) /\ r \in Nat /\ o \in Nat
        /\ Len(s2) \in Nat /\ o <= Len(s2)
    BY <1>1, <1>2, <1>3
  <2>2. QED
    BY <2>1
<1> HIDE DEF o2
<1>5. ASSUME NEW n \in (o2 + 1)..Len(s2) PROVE s2[n] \in Texts
  <2>1. /\ n - o \in (Len(p) - r + 1)..Len(p) /\ n - o \in 1..(Len(s2) - o)
        /\ o + (n - o) = n
    BY <1>1, <1>2, <1>3, <1>4
  <2>2. QED
    BY <1>2, <1>3, <2>1
<1>6. o2 = 0 \/ o2 \in T \/ s2[o2] \in Ends
  <2>1. CASE r = Len(p)
    <3>1. o2 = o
      BY <1>1, <1>2, <1>4, <2>1
    <3>2. CASE o # 0 /\ s[o] \in Ends
      <4>1. o \in 1..Len(s)
        BY <1>1, <3>2
      <4>2. QED
        BY <1>1, <3>1, <3>2, <4>1
    <3>3. QED
      BY <1>1, <3>1, <3>2
  <2>2. CASE r # Len(p) /\ p[Len(p) - r] \in Ends
    <3>1. Len(p) - r \in 1..(Len(s2) - o) /\ o + (Len(p) - r) = o2
      <4>1. /\ Len(p) = Len(s2) - o /\ r <= Len(p) /\ r \in Nat /\ o2 = o + (Len(p) - r)
            /\ o \in Nat /\ Len(s2) \in Nat
        BY <1>1, <1>2, <1>3, <1>4
      <4>2. QED
        BY <2>2, <4>1
    <3>2. QED
      BY <1>2, <2>2, <3>1
  <2>3. QED
    BY <1>3, <2>1, <2>2
<1>7. OpenFrom(s2, T, o2)
  <2>1. o2 \in 0..Len(s2) /\ T \subseteq 1..o2
    BY <1>1, <1>4
  <2>2. QED
    BY <1>5, <1>6, <2>1 DEF OpenFrom
<1>8. v = rest
  <2>1. v \in Seq(Bytes) /\ Len(v) = r /\ \A n \in 1..r : v[n] = s2[o2 + n]
    <3>1. Len(s2) - o2 = r
      BY <1>1, <1>2, <1>3, <1>4
    <3>2. v \in Seq(Bytes) /\ Len(v) = Len(s2) - o2
            /\ \A n \in 1..(Len(s2) - o2) : v[n] = s2[o2 + n]
      <4>1. o2 \in Nat /\ Len(s2) \in Nat /\ o2 <= Len(s2)
        BY <1>1, <1>4
      <4>2. QED
        BY <4>1
    <3> HIDE DEF v
    <3>3. QED
      BY <3>1, <3>2
  <2> HIDE DEF v
  <2>2. ASSUME NEW n \in 1..r PROVE rest[n] = s2[o2 + n]
    <3>1. rest[n] = p[(Len(p) - r) + n]
      BY <1>1, <1>2, <1>3
    <3>2. /\ (Len(p) - r) + n \in 1..(Len(s2) - o)
          /\ o + ((Len(p) - r) + n) = o2 + n
      BY <1>1, <1>2, <1>3, <1>4
    <3>3. QED
      BY <1>2, <3>1, <3>2
  <2>3. rest \in Seq(Bytes) /\ Len(rest) = r
    <3>1. Texts \subseteq Bytes
      BY DEF Bytes
    <3>2. QED
      BY <1>3, <3>1 DEF r
  <2>4. Len(v) = Len(rest) /\ \A n \in 1..Len(v) : v[n] = rest[n]
    BY <2>1, <2>2, <2>3
  <2>5. QED
    BY <2>1, <2>3, <2>4, SeqEqual
<1>9. QED
  BY <1>4, <1>7, <1>8 DEF o2, r, v

\* A flush completes the one piece that is open.
LEMMA FlushIsRecorded ==
  ASSUME NEW s \in Seq(Bytes), NEW T, NEW o, OpenFrom(s, T, o), o < Len(s),
         NEW out, NEW c, Recorded(s, T, out, c)
  PROVE  /\ OpenFrom(s, T \cup {Len(s)}, Len(s))
         /\ Recorded(s, T \cup {Len(s)},
                     out \o <<Record(SubSeq(s, o + 1, Len(s)), TRUE)>>, c \o <<o + 1>>)
<1> DEFINE T2  == T \cup {Len(s)}
           raw == SubSeq(s, o + 1, Len(s))
           new == <<Record(raw, TRUE)>>
           d   == <<o + 1>>
           U   == PiecesBehind(s, T2, o)
<1>1. /\ o \in 0..Len(s) /\ T \subseteq 1..o /\ Len(s) \in Nat /\ o \in Nat
      /\ o = 0 \/ o \in T \/ s[o] \in Ends
      /\ \A n \in (o + 1)..Len(s) : s[n] \in Texts
      /\ o + 1 \in 1..Len(s) /\ Len(s) \in (o + 1)..Len(s) /\ Len(s) \in 1..Len(s)
  BY DEF OpenFrom
<1>2. OpenFrom(s, T2, Len(s))
  <2>1. T2 \subseteq 1..Len(s) /\ Len(s) \in 0..Len(s) /\ Len(s) \in T2
    <3>1. Len(s) \in 0..Len(s) /\ Len(s) \in T2
      BY <1>1
    <3>2. T \subseteq 1..Len(s)
      BY <1>1
    <3>3. QED
      BY <1>1, <3>1, <3>2
  <2>2. (Len(s) + 1)..Len(s) = {}
    BY <1>1
  <2>3. QED
    BY <2>1, <2>2 DEF OpenFrom
<1>3. PieceIn(s, T2, o + 1, Len(s))
  <2>1. \A t \in T2 : ~(o + 1 <= t /\ t < Len(s))
    BY <1>1
  <2>2. o + 1 = 1 \/ (o + 1) - 1 \in T2 \/ s[(o + 1) - 1] \in Ends
    BY <1>1
  <2>3. QED
    BY <1>1, <2>1, <2>2 DEF PieceIn, StartIn
<1>4. ASSUME NEW i \in U PROVE i = o + 1
  <2>1. PICK j \in 1..Len(s) : PieceIn(s, T2, i, j) /\ i \in 1..Len(s) /\ i > o
    BY DEF PiecesBehind, PieceStarts
  <2>2. i = 1 \/ (i - 1) \in T2 \/ s[i - 1] \in Ends
    BY <2>1 DEF PieceIn, StartIn
  <2>3. CASE i = 1
    BY <1>1, <2>1, <2>3
  <2>4. CASE (i - 1) \in T2
    BY <1>1, <2>1, <2>4
  <2>5. CASE s[i - 1] \in Ends /\ i - 1 > o
    <3>1. s[i - 1] \in Texts
      BY <1>1, <2>1, <2>5
    <3>2. QED
      BY <2>5, <3>1, ByteAssumption
  <2>6. CASE i - 1 <= o
    BY <1>1, <2>1, <2>6
  <2>7. QED
    BY <1>1, <2>1, <2>2, <2>3, <2>4, <2>5, <2>6
<1>5. U = {o + 1}
  <2>1. o + 1 \in U
    BY <1>1, <1>3 DEF PiecesBehind, PieceStarts
  <2>2. QED
    BY <1>4, <2>1
<1>6. Lists(d, U)
  <2>1. Lists(d, {o + 1})
    BY <1>1, ListsOne
  <2>2. QED
    BY <1>5, <2>1
<1>7. raw \in Seq(Texts) /\ raw # <<>>
  <2>1. raw \in Seq(Bytes) /\ Len(raw) = Len(s) - o
          /\ \A n \in 1..(Len(s) - o) : raw[n] = s[o + n]
    BY <1>1
  <2> HIDE DEF raw
  <2>2. \A n \in 1..(Len(s) - o) : o + n \in (o + 1)..Len(s)
    BY <1>1
  <2>3. \A n \in 1..Len(raw) : raw[n] \in Texts
    BY <1>1, <2>1, <2>2
  <2>4. raw \in Seq(Texts)
    BY <2>1, <2>3
  <2>5. Len(raw) # 0
    BY <1>1, <2>1
  <2>6. QED
    BY <2>4, <2>5
<1> HIDE DEF raw, U
<1>8. Record(raw, TRUE) \in Records
  BY <1>7, RecordTyped
<1>9. Record(raw, TRUE) = PieceOf(s, T2, o + 1, Len(s))
  <2>1. (Len(s) \in T2 \/ Len(s) - (o + 1) + 1 > MaxLine) = TRUE
    OBVIOUS
  <2>2. QED
    BY <2>1 DEF PieceOf, raw
<1>10. RecordedOf(s, T2, U, new, d)
  <2>1. new \in Seq(Records) /\ Len(new) = Len(d) /\ Len(d) = 1
    <3>1. Len(new) = Len(d) /\ Len(d) = 1
      OBVIOUS
    <3>2. \A r : r \in Records => <<r>> \in Seq(Records)
      OBVIOUS
    <3>3. QED
      BY <1>8, <3>1, <3>2
  <2>2. d[1] = o + 1 /\ new[1] = Record(raw, TRUE)
    OBVIOUS
  <2> HIDE DEF T2, d, new
  <2>3. \A n \in 1..Len(d) : n = 1
    BY <2>1
  <2>4. PieceIn(s, T2, d[1], Len(s)) /\ new[1] = PieceOf(s, T2, d[1], Len(s))
    BY <1>3, <1>9, <2>2
  <2>5. QED
    BY <1>1, <1>6, <2>1, <2>3, <2>4 DEF RecordedOf
<1>11. RecordedOf(s, T2, PiecesUpTo(s, T2, o), out, c)
  <2>1. Extends(s, s)
    BY <1>1 DEF Extends
  <2>2. T \subseteq T2 /\ T2 \subseteq Nat /\ \A t \in T2 : t \in T \/ t > o
    <3>1. Len(s) \in Nat /\ Len(s) > o /\ \A t \in T : t \in Nat
      BY <1>1
    <3>2. \A t \in T2 : t \in T \/ t = Len(s)
      OBVIOUS
    <3>3. \A t \in T2 : t \in Nat /\ (t \in T \/ t > o)
      <4> HIDE DEF T2
      <4> QED BY <3>1, <3>2
    <3>4. QED
      BY <3>3
  <2> HIDE DEF T2
  <2>3. QED
    BY <2>1, <2>2, RecordsStay
<1> HIDE DEF T2, new, d
<1>12. Recorded(s, T2, out \o new, c \o d)
  BY <1>1, <1>10, <1>11, RecordedJoin DEF U
<1>13. QED
  BY <1>2, <1>12 DEF T2, new, d, raw

\* One cut: the records of the lines go behind those that were made.
LEMMA CutIsRecorded ==
  ASSUME NEW s \in Seq(Bytes), NEW s2 \in Seq(Bytes), Extends(s2, s),
         NEW T, NEW o, OpenFrom(s, T, o), NEW out, NEW c, Recorded(s, T, out, c),
         NEW lines, NEW d, LinesAt(SubSeq(s2, o + 1, Len(s2)), lines, d)
  PROVE  Recorded(s2, T, out \o [n \in DOMAIN lines |-> LineRecord(lines[n])],
                  c \o Moved(d, o))
<1> DEFINE new == [n \in DOMAIN lines |-> LineRecord(lines[n])]
           e   == Moved(d, o)
<1>1. RecordedOf(s2, T, PiecesBehind(s2, T, o), new, e)
  BY LinesAreRecorded
<1> HIDE DEF new, e
<1>2. T \subseteq T /\ T \subseteq Nat /\ o \in Nat /\ \A t \in T : t \in T \/ t > o
  BY DEF OpenFrom
<1>3. RecordedOf(s2, T, PiecesUpTo(s2, T, o), out, c)
  BY <1>2, RecordsStay
<1>4. Recorded(s2, T, out \o new, c \o e)
  BY <1>1, <1>2, <1>3, RecordedJoin
<1>5. QED
  BY <1>4 DEF new, e

-----------------------------------------------------------------------------
(* The reference definition, in the same terms.                             *)

UpTo(S, i)    == {k \in S : k <= i}
FirstOf(c, n) == {c[m] : m \in 1..n}

\* The first n elements of a list are n.
LEMMA ListCounts ==
  ASSUME NEW S, NEW c, Lists(c, S), NEW n \in 0..Len(c)
  PROVE  Cardinality(FirstOf(c, n)) = n
<1> DEFINE U == FirstOf(c, n)
           f == [m \in 1..n |-> c[m]]
<1>1. /\ c \in Seq(Nat) /\ Len(c) \in Nat /\ n \in Nat /\ n <= Len(c)
      /\ \A m, k \in 1..Len(c) : m < k => c[m] < c[k]
  BY DEF Lists
<1>2. \A m \in 1..n : c[m] \in Nat /\ m \in 1..Len(c)
  BY <1>1
<1>3. f \in [1..n -> U] /\ \A m \in 1..n : f[m] = c[m]
  BY DEF FirstOf
<1>4. ASSUME NEW m \in 1..n, NEW k \in 1..n, f[m] = f[k] PROVE m = k
  <2>1. c[m] = c[k] /\ c[m] \in Nat
    BY <1>2, <1>3, <1>4
  <2>2. ~(m < k) /\ ~(k < m)
    BY <1>1, <1>2, <2>1
  <2>3. QED
    BY <2>2
<1>5. ASSUME NEW x \in U PROVE \E m \in 1..n : f[m] = x
  BY <1>3 DEF FirstOf
<1> HIDE DEF f, U
<1>6. f \in Bijection(1..n, U)
  BY <1>3, <1>4, <1>5 DEF Bijection, Injection, Surjection, IsInjective
<1>7. ExistsBijection(1..n, U)
  BY <1>6 DEF ExistsBijection
<1>8. Cardinality(U) = n
  BY <1>1, <1>7, FS_CountingElements
<1>9. QED
  BY <1>8 DEF U

\* The n-th element of the list of a set is the one up to which the set has n.
LEMMA ListNumbers ==
  ASSUME NEW S, NEW c, Lists(c, S)
  PROVE  /\ Cardinality(S) = Len(c)
         /\ c = [n \in 1..Len(c) |-> CHOOSE i \in S : Cardinality(UpTo(S, i)) = n]
<1>1. /\ c \in Seq(Nat) /\ Len(c) \in Nat
      /\ \A n \in 1..Len(c) : c[n] \in S /\ c[n] \in Nat
      /\ \A x \in S : \E n \in 1..Len(c) : c[n] = x
      /\ \A m, n \in 1..Len(c) : m < n => c[m] < c[n]
  <2>1. c \in Seq(Nat)
    BY DEF Lists
  <2>2. Len(c) \in Nat /\ \A n \in 1..Len(c) : c[n] \in Nat
    BY <2>1
  <2>3. QED
    BY <2>1, <2>2 DEF Lists
<1>2. S = FirstOf(c, Len(c))
  BY <1>1 DEF FirstOf
<1>3. Cardinality(S) = Len(c)
  <2>1. Len(c) \in 0..Len(c)
    BY <1>1
  <2>2. Cardinality(FirstOf(c, Len(c))) = Len(c)
    BY <2>1, ListCounts
  <2>3. QED
    BY <1>2, <2>2
<1>4. ASSUME NEW n \in 1..Len(c) PROVE Cardinality(UpTo(S, c[n])) = n
  <2>1. ASSUME NEW x \in UpTo(S, c[n]) PROVE x \in FirstOf(c, n)
    <3>1. PICK m \in 1..Len(c) : c[m] = x
      BY <1>1 DEF UpTo
    <3>2. c[m] <= c[n] /\ c[m] \in Nat /\ c[n] \in Nat
      BY <1>1, <3>1 DEF UpTo
    <3>3. ~(n < m)
      BY <1>1, <3>2
    <3>4. m \in 1..n
      BY <1>1, <3>3
    <3>5. QED
      BY <3>1, <3>4 DEF FirstOf
  <2>2. ASSUME NEW x \in FirstOf(c, n) PROVE x \in UpTo(S, c[n])
    <3>1. PICK m \in 1..n : c[m] = x
      BY DEF FirstOf
    <3>2. m \in 1..Len(c) /\ (m < n \/ m = n)
      BY <1>1
    <3>3. c[m] <= c[n] /\ c[m] \in S
      BY <1>1, <3>2
    <3>4. QED
      BY <3>1, <3>3 DEF UpTo
  <2>3. UpTo(S, c[n]) = FirstOf(c, n)
    BY <2>1, <2>2
  <2>4. n \in 0..Len(c)
    BY <1>1
  <2>5. Cardinality(FirstOf(c, n)) = n
    BY <2>4, ListCounts
  <2>6. QED
    BY <2>3, <2>5
<1>5. ASSUME NEW n \in 1..Len(c)
      PROVE  (CHOOSE i \in S : Cardinality(UpTo(S, i)) = n) = c[n]
  <2>1. c[n] \in S /\ Cardinality(UpTo(S, c[n])) = n
    BY <1>1, <1>4
  <2>2. ASSUME NEW i \in S, Cardinality(UpTo(S, i)) = n PROVE i = c[n]
    <3>1. PICK m \in 1..Len(c) : c[m] = i
      BY <1>1
    <3>2. Cardinality(UpTo(S, c[m])) = m
      BY <1>4
    <3>3. QED
      BY <2>2, <3>1, <3>2
  <2> DEFINE Is(i) == i \in S /\ Cardinality(UpTo(S, i)) = n
  <2>3. Is(c[n]) /\ \A i : Is(i) => i = c[n]
    BY <2>1, <2>2
  <2>4. (CHOOSE i : Is(i)) = c[n]
    <3> HIDE DEF Is
    <3> QED BY <2>3
  <2>5. (CHOOSE i \in S : Cardinality(UpTo(S, i)) = n) = CHOOSE i : Is(i)
    OBVIOUS
  <2>6. QED
    BY <2>4, <2>5
<1> DEFINE d == [n \in 1..Len(c) |-> CHOOSE i \in S : Cardinality(UpTo(S, i)) = n]
<1>6. \A n \in 1..Len(c) : d[n] = c[n]
  BY <1>5
<1>7. d = [n \in 1..Len(c) |-> d[n]] /\ c = [n \in 1..Len(c) |-> c[n]]
  BY <1>1
<1> HIDE DEF d
<1>8. d = c
  BY <1>6, <1>7
<1>9. QED
  BY <1>3, <1>8 DEF d

\* The complete pieces, and where each stops.
LEMMA PieceStops ==
  ASSUME stream \in Seq(Bytes), torn \subseteq Nat, NEW i, NEW j
  PROVE  /\ PieceIn(stream, torn, i, j) => i \in Starts /\ Stops(i) # {} /\ Stop(i) = j
         /\ i \in Starts /\ Stops(i) # {} => PieceIn(stream, torn, i, Stop(i))
<1>1. Len(stream) \in Nat /\ DOMAIN stream = 1..Len(stream)
  OBVIOUS
<1>2. i \in Starts <=> StartIn(stream, torn, i)
  BY <1>1 DEF Starts, StartIn, IsText, IsEnd
<1>3. \A k : k \in Stops(i) <=> /\ k \in i..Len(stream)
                                /\ \A n \in i..k : stream[n] \in Texts
                                /\ \/ k \in torn
                                   \/ k < Len(stream) /\ stream[k + 1] \in Ends
  BY DEF Stops, IsText, IsEnd
<1>4. ASSUME PieceIn(stream, torn, i, j)
      PROVE  i \in Starts /\ Stops(i) # {} /\ Stop(i) = j
  <2>1. i \in Starts /\ i \in Nat
    BY <1>1, <1>2, <1>4 DEF PieceIn, StartIn
  <2>2. j \in Stops(i)
    BY <1>3, <1>4 DEF PieceIn
  <2>3. j \in i..Len(stream) /\ \A n \in i..j : stream[n] \in Texts
    BY <1>4 DEF PieceIn
  <2>4. ASSUME NEW k \in Stops(i) PROVE j <= k
    <3> SUFFICES ASSUME k < j PROVE FALSE
      BY <1>1, <1>3, <2>1, <2>3
    <3>1. k \in i..Len(stream) /\ (k \in torn \/ stream[k + 1] \in Ends)
      BY <1>3
    <3>2. CASE k \in torn
      BY <1>1, <1>4, <2>1, <3>1, <3>2 DEF PieceIn
    <3>3. CASE stream[k + 1] \in Ends
      <4>1. k + 1 \in i..j
        BY <1>1, <2>1, <2>3, <3>1
      <4>2. QED
        BY <2>3, <3>3, <4>1, ByteAssumption
    <3>4. QED
      BY <3>1, <3>2, <3>3
  <2>5. ASSUME NEW m \in Stops(i), \A k \in Stops(i) : m <= k PROVE m = j
    <3>1. m <= j /\ j <= m
      BY <2>2, <2>4, <2>5
    <3>2. m \in i..Len(stream)
      BY <1>3
    <3>3. QED
      BY <1>1, <2>1, <2>3, <3>1, <3>2
  <2>6. Stop(i) \in Stops(i) /\ \A k \in Stops(i) : Stop(i) <= k
    BY <2>2, <2>4 DEF Stop
  <2>7. QED
    BY <2>1, <2>2, <2>5, <2>6
<1>5. ASSUME i \in Starts, Stops(i) # {} PROVE PieceIn(stream, torn, i, Stop(i))
  <2>1. StartIn(stream, torn, i) /\ i \in 1..Len(stream)
    BY <1>2, <1>5 DEF StartIn
  <2>2. Stops(i) \subseteq Nat
    BY <1>1, <1>3, <2>1
  <2>3. \E m \in Stops(i) : \A k \in Stops(i) : m <= k
    BY <1>5, <2>2, SmallestNat
  <2>4. Stop(i) \in Stops(i) /\ \A k \in Stops(i) : Stop(i) <= k
    BY <2>3 DEF Stop
  <2> DEFINE m == Stop(i)
  <2> HIDE DEF m
  <2>5. /\ m \in i..Len(stream) /\ \A n \in i..m : stream[n] \in Texts
        /\ m \in torn \/ (m < Len(stream) /\ stream[m + 1] \in Ends)
        /\ \A k \in Stops(i) : m <= k
    BY <1>3, <2>4 DEF m
  <2>6. ASSUME NEW t \in torn, i <= t, t < m PROVE FALSE
    <3>1. t \in i..Len(stream) /\ t \in Nat
      BY <1>1, <2>1, <2>5, <2>6
    <3>2. \A n \in i..t : n \in i..m
      BY <1>1, <2>1, <2>5, <2>6, <3>1
    <3>3. t \in Stops(i)
      BY <1>3, <2>5, <3>1, <3>2
    <3>4. m <= t
      BY <2>5, <3>3
    <3>5. QED
      BY <1>1, <2>1, <2>5, <2>6, <3>1, <3>4
  <2>7. PieceIn(stream, torn, i, m)
    BY <2>1, <2>5, <2>6 DEF PieceIn
  <2>8. QED
    BY <2>7 DEF m
<1>6. QED
  BY <1>4, <1>5

\* The text that is open, and its record once the capture has ended.
OpenText(o)   == SubSeq(stream, o + 1, Len(stream))
OpenRecord(o) ==
  IF capturing \/ OpenText(o) = <<>> THEN <<>> ELSE <<LineRecord(OpenText(o))>>

\* The list of the complete pieces is the reference's.
LEMMA CompleteIs ==
  ASSUME stream \in Seq(Bytes), torn \subseteq Nat, NEW c,
         Lists(c, PieceStarts(stream, torn))
  PROVE  Complete = c
<1> DEFINE S == {i \in Starts : Stops(i) # {}}
           P == PieceStarts(stream, torn)
<1>1. ASSUME NEW i \in S PROVE i \in P
  <2>1. PieceIn(stream, torn, i, Stop(i))
    BY PieceStops
  <2>2. i \in 1..Len(stream) /\ Stop(i) \in i..Len(stream)
    BY <2>1 DEF PieceIn, StartIn
  <2>3. Stop(i) \in 1..Len(stream)
    BY <2>2
  <2>4. QED
    BY <2>1, <2>2, <2>3 DEF PieceStarts
<1>2. ASSUME NEW i \in P PROVE i \in S
  <2>1. PICK j \in 1..Len(stream) : PieceIn(stream, torn, i, j)
    BY DEF PieceStarts
  <2>2. i \in Starts /\ Stops(i) # {}
    BY <2>1, PieceStops
  <2>3. QED
    BY <2>2
<1>3. S = P
  BY <1>1, <1>2
<1>4. Complete = [n \in 1..Cardinality(S) |-> CHOOSE i \in S : Cardinality(UpTo(S, i)) = n]
  BY DEF Complete, UpTo
<1> HIDE DEF S, P
<1>5. Lists(c, S)
  BY <1>3 DEF P
<1>6. /\ Cardinality(S) = Len(c)
      /\ c = [n \in 1..Len(c) |-> CHOOSE i \in S : Cardinality(UpTo(S, i)) = n]
  BY <1>5, ListNumbers
<1>7. QED
  BY <1>4, <1>6

\* Where text is open its start is the only one without a stop.
LEMMA OpenStartsIs ==
  ASSUME stream \in Seq(Bytes), NEW o, OpenFrom(stream, torn, o)
  PROVE  OpenStarts = IF o < Len(stream) THEN {o + 1} ELSE {}
<1>1. /\ o \in 0..Len(stream) /\ torn \subseteq 1..o /\ Len(stream) \in Nat
      /\ o = 0 \/ o \in torn \/ stream[o] \in Ends
      /\ \A n \in (o + 1)..Len(stream) : stream[n] \in Texts
      /\ o \in Nat /\ DOMAIN stream = 1..Len(stream)
  BY DEF OpenFrom
<1>2. \A i : i \in Starts <=> /\ i \in 1..Len(stream) /\ stream[i] \in Texts
                              /\ i = 1 \/ (i - 1) \in torn \/ stream[i - 1] \in Ends
  BY <1>1 DEF Starts, IsText, IsEnd
<1>3. \A i, k : k \in Stops(i) <=> /\ k \in i..Len(stream)
                                   /\ \A n \in i..k : stream[n] \in Texts
                                   /\ \/ k \in torn
                                      \/ k < Len(stream) /\ stream[k + 1] \in Ends
  BY DEF Stops, IsText, IsEnd
<1>4. ASSUME NEW i \in Starts, i <= o PROVE Stops(i) # {}
  <2>1. i \in Nat /\ i >= 1 /\ stream[i] \in Texts /\ i \in 1..Len(stream)
    BY <1>1, <1>2
  <2>2. CASE \A n \in i..o : stream[n] \in Texts
    <3>1. o \in i..o /\ o \in i..Len(stream)
      BY <1>1, <1>4, <2>1
    <3>2. stream[o] \notin Ends
      BY <2>2, <3>1, ByteAssumption
    <3>3. o \in torn
      BY <1>1, <1>4, <2>1, <3>2
    <3>4. o \in Stops(i)
      BY <1>3, <2>2, <3>1, <3>3
    <3>5. QED
      BY <3>4
  <2>3. CASE \E n \in i..o : stream[n] \notin Texts
    <3> DEFINE B == {n \in i..o : stream[n] \notin Texts}
    <3>1. B # {} /\ B \subseteq Nat
      BY <1>1, <2>1, <2>3
    <3>2. \E m \in B : \A n \in B : m <= n
      <4> HIDE DEF B
      <4> QED BY <3>1, SmallestNat
    <3>3. PICK m \in B : \A n \in B : m <= n
      BY <3>2
    <3>4. m \in i..o /\ stream[m] \notin Texts /\ m # i
      BY <2>1, <3>3
    <3>5. m \in 1..Len(stream) /\ m > i /\ m - 1 \in i..Len(stream) /\ m - 1 < Len(stream)
      BY <1>1, <2>1, <3>4
    <3>6. stream[m] \in Ends
      <4>1. stream[m] \in Bytes
        BY <3>5
      <4>2. QED
        BY <3>4, <4>1 DEF Bytes
    <3>7. ASSUME NEW n \in i..(m - 1) PROVE stream[n] \in Texts
      <4>1. n \in i..o /\ ~(m <= n)
        BY <1>1, <2>1, <3>4
      <4>2. QED
        BY <3>3, <4>1
    <3>8. (m - 1) + 1 = m
      BY <3>4, <2>1
    <3>9. m - 1 \in Stops(i)
      BY <1>3, <3>5, <3>6, <3>7, <3>8
    <3>10. QED
      BY <3>9
  <2>4. QED
    BY <2>2, <2>3
<1>5. ASSUME NEW i \in Starts, i > o PROVE i = o + 1
  <2>1. i \in 1..Len(stream) /\ (i = 1 \/ (i - 1) \in torn \/ stream[i - 1] \in Ends)
    BY <1>2
  <2>2. CASE i - 1 <= o
    BY <1>1, <1>5, <2>1, <2>2
  <2>3. CASE i - 1 > o
    <3>1. i - 1 \in (o + 1)..Len(stream) /\ i # 1 /\ i - 1 \notin torn
      BY <1>1, <2>1, <2>3
    <3>2. stream[i - 1] \in Texts
      BY <1>1, <3>1
    <3>3. QED
      BY <2>1, <3>1, <3>2, ByteAssumption
  <2>4. QED
    BY <1>1, <2>1, <2>2, <2>3
<1>6. ASSUME o < Len(stream) PROVE o + 1 \in Starts /\ Stops(o + 1) = {}
  <2>1. o + 1 \in 1..Len(stream) /\ stream[o + 1] \in Texts /\ (o + 1) - 1 = o
    BY <1>1, <1>6
  <2>2. o + 1 \in Starts
    BY <1>1, <1>2, <2>1
  <2>3. ASSUME NEW k \in Stops(o + 1) PROVE FALSE
    <3>1. /\ k \in (o + 1)..Len(stream)
          /\ k \in torn \/ (k < Len(stream) /\ stream[k + 1] \in Ends)
      BY <1>3
    <3>2. k \notin torn
      BY <1>1, <3>1
    <3>3. k + 1 \in (o + 1)..Len(stream)
      BY <1>1, <3>1, <3>2
    <3>4. stream[k + 1] \in Texts
      BY <1>1, <3>3
    <3>5. QED
      BY <3>1, <3>2, <3>4, ByteAssumption
  <2>4. QED
    BY <2>2, <2>3
<1>7. \A i \in Starts : i \in Nat /\ i <= Len(stream)
  BY <1>1, <1>2
<1>8. \A i : i \in OpenStarts <=> i \in Starts /\ Stops(i) = {}
  BY DEF OpenStarts
<1>9. CASE o < Len(stream)
  <2>1. o + 1 \in OpenStarts
    BY <1>6, <1>8, <1>9
  <2>2. ASSUME NEW i \in OpenStarts PROVE i = o + 1
    <3>1. i \in Starts /\ Stops(i) = {} /\ i \in Nat
      BY <1>7, <1>8
    <3>2. ~(i <= o)
      BY <1>4, <3>1
    <3>3. QED
      BY <1>1, <1>5, <3>1, <3>2
  <2>3. QED
    BY <1>9, <2>1, <2>2
<1>10. CASE ~(o < Len(stream))
  <2>1. ASSUME NEW i \in OpenStarts PROVE FALSE
    <3>1. i \in Starts /\ Stops(i) = {} /\ i <= o
      BY <1>1, <1>7, <1>8, <1>10
    <3>2. QED
      BY <1>4, <3>1
  <2>2. QED
    BY <1>10, <2>1
<1>11. QED
  BY <1>9, <1>10

\* The reference's rest is the open text.
LEMMA RestIs ==
  ASSUME stream \in Seq(Bytes), NEW o, OpenFrom(stream, torn, o)
  PROVE  Rest = OpenText(o)
<1>1. o \in 0..Len(stream) /\ Len(stream) \in Nat /\ o \in Nat
  BY DEF OpenFrom
<1>2. OpenStarts = IF o < Len(stream) THEN {o + 1} ELSE {}
  BY OpenStartsIs
<1>3. CASE o < Len(stream)
  <2>1. OpenStarts = {o + 1}
    BY <1>2, <1>3
  <2>2. (CHOOSE i \in OpenStarts : TRUE) = o + 1
    BY <2>1
  <2>3. QED
    BY <2>1, <2>2 DEF Rest, OpenText
<1>4. CASE ~(o < Len(stream))
  <2>1. o = Len(stream)
    BY <1>1, <1>4
  <2>2. OpenText(o) = <<>>
    BY <1>1, <2>1 DEF OpenText
  <2>3. QED
    BY <1>2, <1>4, <2>2 DEF Rest
<1>5. QED
  BY <1>3, <1>4

\* Records made right are those of the reference definition.
LEMMA ReferenceIs ==
  ASSUME stream \in Seq(Bytes), NEW o, OpenFrom(stream, torn, o), NEW out, NEW c,
         Recorded(stream, torn, out, c)
  PROVE  Reference = out \o OpenRecord(o)
<1>1. torn \subseteq Nat
  BY DEF OpenFrom
<1>2. /\ Lists(c, PieceStarts(stream, torn)) /\ out \in Seq(Records) /\ Len(out) = Len(c)
      /\ \A n \in 1..Len(c) : \E j \in 1..Len(stream) :
           PieceIn(stream, torn, c[n], j) /\ out[n] = PieceOf(stream, torn, c[n], j)
  BY DEF Recorded, RecordedOf
<1>3. Complete = c
  BY <1>1, <1>2, CompleteIs
<1>4. c \in Seq(Nat) /\ DOMAIN c = 1..Len(c) /\ Len(c) \in Nat
  BY <1>2 DEF Lists
<1>5. ASSUME NEW n \in 1..Len(c) PROVE Piece(c[n]) = out[n]
  <2>1. PICK j \in 1..Len(stream) : /\ PieceIn(stream, torn, c[n], j)
                                    /\ out[n] = PieceOf(stream, torn, c[n], j)
    BY <1>2
  <2>2. Stop(c[n]) = j
    BY <1>1, <2>1, PieceStops
  <2>3. QED
    BY <2>1, <2>2 DEF Piece, PieceOf
<1>6. out = [n \in 1..Len(c) |-> out[n]]
  BY <1>2, <1>4
<1>7. [n \in DOMAIN Complete |-> Piece(Complete[n])] = out
  BY <1>3, <1>4, <1>5, <1>6
<1>8. (IF capturing \/ Rest = <<>> THEN <<>> ELSE <<LineRecord(Rest)>>) = OpenRecord(o)
  BY RestIs DEF OpenRecord
<1>9. QED
  BY <1>7, <1>8 DEF Reference

-----------------------------------------------------------------------------
(* The ring and the places of a flush.                                      *)

\* The end of a list that is put together.
LEMMA EndOfBoth ==
  ASSUME NEW R, NEW s \in Seq(R), NEW new \in Seq(R), NEW m \in 0..Len(s)
  PROVE  SubSeq(s \o new, m + 1, Len(s \o new)) = SubSeq(s, m + 1, Len(s)) \o new
<1> DEFINE all == s \o new
           u   == SubSeq(all, m + 1, Len(all))
           a   == SubSeq(s, m + 1, Len(s))
           v   == a \o new
<1>1. /\ all \in Seq(R) /\ Len(all) = Len(s) + Len(new)
      /\ Len(s) \in Nat /\ Len(new) \in Nat /\ m \in Nat /\ m <= Len(s)
  OBVIOUS
<1>2. /\ \A i \in 1..Len(s) : all[i] = s[i]
      /\ \A i \in 1..Len(new) : all[Len(s) + i] = new[i]
  OBVIOUS
<1>3. a \in Seq(R) /\ Len(a) = Len(s) - m /\ \A i \in 1..(Len(s) - m) : a[i] = s[m + i]
  <2>1. Len(s) \in Nat /\ m \in Nat /\ m <= Len(s)
    BY <1>1
  <2>2. QED
    BY <2>1
<1> HIDE DEF all, a
<1>4. u \in Seq(R) /\ Len(u) = Len(all) - m
        /\ \A i \in 1..(Len(all) - m) : u[i] = all[m + i]
  BY <1>1
<1>5. /\ v \in Seq(R) /\ Len(v) = Len(a) + Len(new)
      /\ \A i \in 1..Len(a) : v[i] = a[i]
      /\ \A i \in 1..Len(new) : v[Len(a) + i] = new[i]
  <2>1. a \in Seq(R)
    BY <1>3
  <2>2. QED
    BY <2>1
<1> HIDE DEF u, v
<1>6. ASSUME NEW i \in 1..Len(u) PROVE u[i] = v[i]
  <2>1. i \in 1..(Len(all) - m) /\ u[i] = all[m + i]
    BY <1>4
  <2>2. CASE i <= Len(s) - m
    <3>1. i \in 1..(Len(s) - m) /\ i \in 1..Len(a) /\ m + i \in 1..Len(s)
      BY <1>1, <1>3, <2>1, <2>2
    <3>2. QED
      BY <1>2, <1>3, <1>5, <2>1, <3>1
  <2>3. CASE ~(i <= Len(s) - m)
    <3>1. /\ i - Len(a) \in 1..Len(new) /\ Len(a) + (i - Len(a)) = i
          /\ Len(s) + (i - Len(a)) = m + i
      <4>1. /\ Len(all) = Len(s) + Len(new) /\ Len(a) = Len(s) - m
            /\ Len(s) \in Nat /\ Len(new) \in Nat /\ m \in Nat /\ m <= Len(s)
        BY <1>1, <1>3
      <4>2. QED
        BY <2>1, <2>3, <4>1
    <3>2. v[i] = new[i - Len(a)]
      BY <1>5, <3>1
    <3>3. all[m + i] = new[i - Len(a)]
      BY <1>2, <3>1
    <3>4. QED
      BY <2>1, <3>2, <3>3
  <2>4. QED
    BY <2>2, <2>3
<1>7. Len(u) = Len(v)
  BY <1>1, <1>3, <1>4, <1>5
<1>8. u = v
  BY <1>4, <1>5, <1>6, <1>7, SeqEqual
<1>9. QED
  BY <1>8 DEF u, v, a, all

\* To add to the newest and to keep the newest is to keep the newest of all.
LEMMA NewestOfBoth ==
  ASSUME NEW R, NEW s \in Seq(R), NEW new \in Seq(R), NEW n \in Nat
  PROVE  Newest(Newest(s, n) \o new, n) = Newest(s \o new, n)
<1> DEFINE a == Newest(s, n)
           b == a \o new
           all == s \o new
           u == Newest(b, n)
           v == Newest(all, n)
<1>1. /\ a \in Seq(R) /\ Len(a) = (IF Len(s) > n THEN n ELSE Len(s))
      /\ \A i \in 1..Len(a) : a[i] = s[(Len(s) - Len(a)) + i]
      /\ Len(s) \in Nat /\ Len(new) \in Nat /\ Len(a) \in Nat
  BY NewestIs
<1> HIDE DEF a
<1>2. /\ b \in Seq(R) /\ Len(b) = Len(a) + Len(new)
      /\ \A i \in 1..Len(a) : b[i] = a[i]
      /\ \A i \in 1..Len(new) : b[Len(a) + i] = new[i]
  <2>1. a \in Seq(R)
    BY <1>1
  <2>2. QED
    BY <2>1
<1>3. /\ all \in Seq(R) /\ Len(all) = Len(s) + Len(new)
      /\ \A i \in 1..Len(s) : all[i] = s[i]
      /\ \A i \in 1..Len(new) : all[Len(s) + i] = new[i]
  OBVIOUS
<1> HIDE DEF b, all
<1>4. /\ u \in Seq(R) /\ Len(u) = (IF Len(b) > n THEN n ELSE Len(b))
      /\ \A i \in 1..Len(u) : u[i] = b[(Len(b) - Len(u)) + i]
  BY <1>2, NewestIs
<1>5. /\ v \in Seq(R) /\ Len(v) = (IF Len(all) > n THEN n ELSE Len(all))
      /\ \A i \in 1..Len(v) : v[i] = all[(Len(all) - Len(v)) + i]
  BY <1>3, NewestIs
<1> HIDE DEF u, v
<1>6. Len(u) = Len(v) /\ Len(u) \in Nat /\ Len(u) <= Len(b) /\ Len(b) \in Nat
        /\ Len(all) \in Nat
  BY <1>1, <1>2, <1>3, <1>4, <1>5
<1>7. ASSUME NEW i \in 1..Len(u) PROVE u[i] = v[i]
  <2> DEFINE k == (Len(b) - Len(u)) + i
             l == (Len(all) - Len(v)) + i
  <2>1. u[i] = b[k] /\ v[i] = all[l]
    BY <1>4, <1>5, <1>6
  <2>2. k \in 1..Len(b) /\ l = (Len(s) - Len(a)) + k
    <3>1. /\ Len(b) = Len(a) + Len(new) /\ Len(all) = Len(s) + Len(new)
          /\ Len(u) = Len(v) /\ Len(u) \in Nat /\ Len(u) <= Len(b)
          /\ Len(s) \in Nat /\ Len(new) \in Nat /\ Len(a) \in Nat
      BY <1>1, <1>2, <1>3, <1>6
    <3>2. QED
      BY <3>1
  <2> HIDE DEF k, l
  <2>3. CASE k <= Len(a)
    <3>1. k \in 1..Len(a) /\ l \in 1..Len(s)
      BY <1>1, <2>2, <2>3
    <3>2. QED
      BY <1>1, <1>2, <1>3, <2>1, <2>2, <3>1
  <2>4. CASE ~(k <= Len(a))
    <3>1. /\ k - Len(a) \in 1..Len(new) /\ Len(a) + (k - Len(a)) = k
          /\ Len(s) + (k - Len(a)) = l
      BY <1>1, <1>2, <2>2, <2>4
    <3>2. QED
      BY <1>2, <1>3, <2>1, <3>1
  <2>5. QED
    BY <2>3, <2>4
<1>8. u = v
  BY <1>4, <1>5, <1>6, <1>7, SeqEqual
<1>9. QED
  BY <1>8 DEF u, v, b, all, a

\* The flush at t ended a line of more than MAX_PENDING_BYTES.
TornLong(s, T, t) ==
  \E i \in 1..Len(s) : /\ StartIn(s, T, i) /\ i <= t
                       /\ \A k \in i..t : s[k] \in Texts
                       /\ t - i + 1 > MaxPending

\* It stays so when bytes arrive, and it is so for a flush of a long open text.
LEMMA TornLongStays ==
  ASSUME NEW s \in Seq(Bytes), NEW s2 \in Seq(Bytes), Extends(s2, s), NEW T, NEW T2,
         T \subseteq T2, NEW t \in 1..Len(s), TornLong(s, T, t)
  PROVE  TornLong(s2, T2, t)
<1>1. /\ Len(s) \in Nat /\ Len(s2) \in Nat /\ Len(s) <= Len(s2)
      /\ \A n \in 1..Len(s) : s2[n] = s[n]
  BY DEF Extends
<1>2. PICK i \in 1..Len(s) : /\ StartIn(s, T, i) /\ i <= t
                             /\ \A k \in i..t : s[k] \in Texts
                             /\ t - i + 1 > MaxPending
  BY DEF TornLong
<1>3. \A k \in i..t : k \in 1..Len(s)
  BY <1>1
<1>4. \A k \in i..t : s2[k] \in Texts
  BY <1>1, <1>2, <1>3
<1>5. i \in 1..Len(s2) /\ s2[i] = s[i] /\ (i = 1 \/ s2[i - 1] = s[i - 1])
  <2>1. i = 1 \/ i - 1 \in 1..Len(s)
    BY <1>1
  <2>2. QED
    BY <1>1, <2>1
<1>6. StartIn(s2, T2, i)
  BY <1>2, <1>5 DEF StartIn
<1>7. QED
  BY <1>2, <1>4, <1>5, <1>6 DEF TornLong

\* A flush of more than that.
LEMMA TornLongNow ==
  ASSUME NEW s \in Seq(Bytes), NEW T, NEW T2, T \subseteq T2, NEW o, OpenFrom(s, T, o),
         Len(s) - o > MaxPending
  PROVE  TornLong(s, T2, Len(s))
<1>1. /\ o \in 0..Len(s) /\ Len(s) \in Nat /\ o \in Nat
      /\ o = 0 \/ o \in T \/ s[o] \in Ends
      /\ \A n \in (o + 1)..Len(s) : s[n] \in Texts
  BY DEF OpenFrom
<1>2. o + 1 \in 1..Len(s) /\ (o + 1) - 1 = o /\ o + 1 <= Len(s)
  BY <1>1, BufferNumbers
<1>3. o + 1 \in (o + 1)..Len(s)
  BY <1>2
<1>4. StartIn(s, T2, o + 1)
  BY <1>1, <1>2, <1>3 DEF StartIn
<1>5. Len(s) - (o + 1) + 1 > MaxPending
  BY <1>1, BufferNumbers
<1>6. QED
  BY <1>1, <1>2, <1>4, <1>5 DEF TornLong

-----------------------------------------------------------------------------
(* The inductive invariant.                                                 *)

\* The records of this capture.
Mine == SubSeq(log, first + 1, Len(log))

\* The log is typed, and the bounds hold for what they bound.
LogInv ==
  /\ log \in Seq(Records) /\ first <= Len(log) /\ mark <= Len(log)
  /\ arrived \in Nat /\ Len(stream) <= arrived /\ arrived <= MaxBytes

\* The stream is cut at o: the pieces up to there are recorded, in their order; what
\* follows is open text, and that is what is pending.
CutAt(o, out, c) ==
  /\ OpenFrom(stream, torn, o)
  /\ pending = IF capturing THEN OpenText(o) ELSE <<>>
  /\ Recorded(stream, torn, out, c)
  /\ Mine = out \o OpenRecord(o)

CutInv == \E o, out, c : CutAt(o, out, c)

IInv == TypeOK /\ LogInv /\ CutInv /\ ShortLinesWhole /\ RingIsNewest

\* TypeOK in two parts: the variables of the ring, and the others.
RingTyped ==
  /\ \A i \in DOMAIN records : records[i] \in Records
  /\ Len(records) <= MessageLimit
  /\ received \in Nat /\ discarded \in Nat

RestTyped ==
  /\ capturing \in BOOLEAN
  /\ pending \in Seq(Texts) /\ stream \in Seq(Bytes)
  /\ torn \subseteq 1..MaxBytes
  /\ first \in Nat /\ mark \in Nat

\* They are TypeOK, before and after a step.
LEMMA TypeParts == (TypeOK <=> RingTyped /\ RestTyped) /\ (TypeOK' <=> RingTyped'
  /\ RestTyped')
<1>1. \A a, b, c, d : {a, b, c, d} \subseteq Nat <=> a \in Nat /\ b \in Nat
        /\ c \in Nat /\ d \in Nat
  OBVIOUS
<1>2. TypeOK <=> RingTyped /\ RestTyped
  BY <1>1, Zenon DEF TypeOK, RingTyped, RestTyped
<1>3. TypeOK' <=> RingTyped' /\ RestTyped'
  BY <1>1, Zenon DEF TypeOK, RingTyped, RestTyped
<1>4. QED
  BY <1>2, <1>3

\* The invariant holds at the start and every action keeps it.
LEMMA InitRight == Init => IInv
<1> SUFFICES ASSUME Init PROVE IInv
  OBVIOUS
<1>1. /\ capturing = FALSE /\ pending = <<>> /\ records = <<>> /\ received = 0
      /\ discarded = 0 /\ stream = <<>> /\ torn = {} /\ log = <<>> /\ first = 0
      /\ mark = 0 /\ arrived = 0
  BY DEF Init
<1>2. TypeOK
  <2>1. <<>> \in Seq(Texts) /\ <<>> \in Seq(Bytes) /\ Len(<<>>) = 0 /\ DOMAIN <<>> = {}
    OBVIOUS
  <2>2. RingTyped
    BY <1>1, <2>1, BufferNumbers DEF RingTyped
  <2>3. RestTyped
    BY <1>1, <2>1 DEF RestTyped
  <2>4. QED
    BY <2>2, <2>3, TypeParts
<1>3. LogInv
  BY <1>1, BufferNumbers DEF LogInv
<1>4. OpenFrom(<<>>, {}, 0) /\ Recorded(<<>>, {}, <<>>, <<>>)
  <2>1. OpenFrom(<<>>, {}, 0)
    BY DEF OpenFrom
  <2>2. PieceStarts(<<>>, {}) = {}
    BY DEF PieceStarts
  <2>3. Lists(<<>>, {})
    BY DEF Lists
  <2>4. <<>> \in Seq(Records) /\ Len(<<>>) = 0 /\ 1..0 = {}
    OBVIOUS
  <2>5. QED
    BY <2>1, <2>2, <2>3, <2>4 DEF Recorded, RecordedOf
<1>5. CutAt(0, <<>>, <<>>)
  <2>1. OpenText(0) = <<>> /\ Mine = <<>>
    BY <1>1 DEF OpenText, Mine
  <2>2. OpenRecord(0) = <<>>
    BY <2>1 DEF OpenRecord
  <2>3. <<>> \o <<>> = <<>>
    OBVIOUS
  <2>4. QED
    BY <1>1, <1>4, <2>1, <2>2, <2>3 DEF CutAt
<1>6. CutInv
  BY <1>5 DEF CutInv
<1>7. ShortLinesWhole
  BY <1>1, BufferNumbers DEF ShortLinesWhole
<1>8. RingIsNewest
  <2>1. Newest(<<>>, MessageLimit) = <<>> /\ SubSeq(<<>>, 1, 0) = <<>>
    BY BufferNumbers DEF Newest
  <2>2. Len(<<>>) = 0 /\ 0 + 1 = 1 /\ 0 <= 0 - 0 /\ 0 = 0 - 0
    OBVIOUS
  <2>3. records = Newest(SubSeq(log, mark + 1, Len(log)), MessageLimit)
    BY <1>1, <2>1, <2>2
  <2>4. received = Len(log) /\ discarded <= received - Len(records)
    BY <1>1, <2>2
  <2>5. discarded = received - Len(records)
    BY <1>1, <2>2
  <2>6. QED
    BY <2>3, <2>4, <2>5 DEF RingIsNewest
<1>9. QED
  BY <1>2, <1>3, <1>6, <1>7, <1>8 DEF IInv

\* _append_records keeps the ring the newest, whatever the records are.
LEMMA AppendRight ==
  ASSUME TypeOK, LogInv, RingIsNewest, NEW new \in Seq(Records), _append_records(new),
         mark' = mark
  PROVE  /\ RingIsNewest' /\ RingTyped'
         /\ log' = log \o new /\ log' \in Seq(Records) /\ Len(log') = Len(log) + Len(new)
<1> DEFINE all   == records \o new
           since == SubSeq(log, mark + 1, Len(log))
           n     == Len(records)
           k     == Len(new)
<1>1. /\ log \in Seq(Records) /\ Len(log) \in Nat /\ mark \in Nat /\ mark <= Len(log)
      /\ received \in Nat /\ discarded \in Nat /\ k \in Nat /\ mark \in 0..Len(log)
  BY DEF TypeOK, LogInv
<1>2. /\ records = Newest(since, MessageLimit)
      /\ received = Len(log) /\ discarded <= received - n
      /\ mark = 0 => discarded = received - n
  BY DEF RingIsNewest
<1>3. since \in Seq(Records) /\ Len(since) = Len(log) - mark
  BY <1>1
<1>4. MessageLimit \in Nat /\ MessageLimit > 0
  BY BufferNumbers
<1> HIDE DEF since
<1>5. records \in Seq(Records) /\ n \in Nat
  <2>1. records \in Seq(Records)
    BY <1>2, <1>3, <1>4, NewestIs
  <2>2. QED
    BY <2>1
<1>6. all \in Seq(Records) /\ Len(all) = n + k
  BY <1>5
<1>7. /\ records' = Newest(all, MessageLimit)
      /\ received' = received + k
      /\ discarded' = discarded + (IF Len(all) > MessageLimit
                                   THEN Len(all) - MessageLimit ELSE 0)
      /\ log' = log \o new
  BY DEF _append_records
<1>8. log' \in Seq(Records) /\ Len(log') = Len(log) + k
  BY <1>1, <1>7
<1> HIDE DEF all, n, k
<1>9. records' \in Seq(Records)
        /\ Len(records') = IF n + k > MessageLimit THEN MessageLimit ELSE n + k
  BY <1>4, <1>6, <1>7, NewestIs
<1>10. discarded' = discarded + (n + k - Len(records'))
  <2>1. discarded' = discarded + (IF n + k > MessageLimit THEN n + k - MessageLimit ELSE 0)
    <3>1. /\ Len(all) = n + k
          /\ discarded' = discarded + (IF Len(all) > MessageLimit
                                       THEN Len(all) - MessageLimit ELSE 0)
      BY <1>6, <1>7
    <3>2. Len(all) \in Nat /\ MessageLimit \in Nat /\ discarded \in Nat /\ n \in Nat
            /\ k \in Nat
      BY <1>1, <1>4, <1>5, <1>6
    <3>3. CASE Len(all) > MessageLimit
      BY <3>1, <3>2, <3>3
    <3>4. CASE ~(Len(all) > MessageLimit)
      BY <3>1, <3>2, <3>4
    <3>5. QED
      BY <3>3, <3>4
  <2>2. Len(records') = IF n + k > MessageLimit THEN MessageLimit ELSE n + k
    BY <1>9
  <2>3. QED
    BY <1>1, <1>4, <1>5, <2>1, <2>2
<1>11. Len(records') \in Nat /\ Len(records') <= MessageLimit /\ Len(records') <= n + k
  BY <1>1, <1>4, <1>5, <1>9
<1>12. RingTyped'
  <2>1. discarded' \in Nat /\ received' \in Nat
    BY <1>1, <1>5, <1>7, <1>10, <1>11
  <2>2. \A i \in DOMAIN records' : records'[i] \in Records
    BY <1>9
  <2>3. QED
    BY <1>11, <2>1, <2>2 DEF RingTyped
<1>13. SubSeq(log', mark' + 1, Len(log')) = since \o new
  BY <1>1, <1>7, EndOfBoth DEF since
<1>14. records' = Newest(since \o new, MessageLimit)
  BY <1>2, <1>3, <1>4, <1>7, NewestOfBoth DEF all
<1>15. RingIsNewest'
  <2>1. received' = Len(log')
    BY <1>2, <1>7, <1>8
  <2>2. discarded' <= received' - Len(records')
    <3>1. discarded <= received - n
      BY <1>2
    <3>2. received' = received + k /\ discarded' = discarded + (n + k - Len(records'))
      BY <1>7, <1>10
    <3>3. /\ received \in Nat /\ discarded \in Nat /\ n \in Nat /\ k \in Nat
          /\ Len(records') \in Nat
      BY <1>1, <1>5, <1>11
    <3>4. QED
      BY <3>1, <3>2, <3>3
  <2>3. mark' = 0 => discarded' = received' - Len(records')
    <3> SUFFICES ASSUME mark = 0 PROVE discarded' = received' - Len(records')
      OBVIOUS
    <3>1. discarded = received - n
      BY <1>2
    <3>2. received' = received + k /\ discarded' = discarded + (n + k - Len(records'))
      BY <1>7, <1>10
    <3>3. received \in Nat /\ n \in Nat /\ k \in Nat /\ Len(records') \in Nat
      BY <1>1, <1>5, <1>11
    <3>4. QED
      BY <3>1, <3>2, <3>3
  <2>4. QED
    BY <1>13, <1>14, <2>1, <2>2, <2>3 DEF RingIsNewest
<1>16. QED
  BY <1>7, <1>8, <1>12, <1>15 DEF k

\* A new capture starts a stream, and its records begin where the log ends.
LEMMA BeginRight == ASSUME IInv, BeginCapture PROVE IInv'
<1>1. /\ capturing' = TRUE /\ pending' = <<>> /\ stream' = <<>> /\ torn' = {}
      /\ first' = Len(log) /\ records' = records /\ received' = received
      /\ discarded' = discarded /\ log' = log /\ mark' = mark /\ arrived' = arrived
  BY DEF BeginCapture, ring
<1>2. TypeOK /\ LogInv /\ ShortLinesWhole /\ RingIsNewest
  BY DEF IInv
<1>3. log \in Seq(Records) /\ Len(log) \in Nat
  BY <1>2 DEF LogInv
<1>4. TypeOK'
  BY <1>1, <1>2, <1>3 DEF TypeOK
<1>5. LogInv'
  BY <1>1, <1>2, <1>3 DEF LogInv
<1>6. CutAt(0, <<>>, <<>>)'
  <2>1. OpenFrom(<<>>, {}, 0)
    BY DEF OpenFrom
  <2>2. PieceStarts(<<>>, {}) = {}
    BY DEF PieceStarts
  <2>3. Lists(<<>>, {})
    BY DEF Lists
  <2>4. Recorded(<<>>, {}, <<>>, <<>>)
    <3>1. <<>> \in Seq(Records) /\ Len(<<>>) = 0 /\ 1..0 = {}
      OBVIOUS
    <3>2. QED
      BY <2>2, <2>3, <3>1 DEF Recorded, RecordedOf
  <2>5. OpenText(0)' = <<>> /\ Mine' = <<>>
    BY <1>1, <1>3 DEF OpenText, Mine
  <2>6. OpenRecord(0)' = <<>> /\ <<>> \o <<>> = <<>>
    BY <2>5 DEF OpenRecord
  <2>7. QED
    BY <1>1, <2>1, <2>4, <2>5, <2>6 DEF CutAt
<1>7. CutInv'
  BY <1>6 DEF CutInv
<1>8. ShortLinesWhole'
  BY <1>1, BufferNumbers DEF ShortLinesWhole
<1>9. RingIsNewest'
  BY <1>1, <1>2 DEF RingIsNewest
<1>10. QED
  BY <1>4, <1>5, <1>7, <1>8, <1>9 DEF IInv

\* The finally clause records what is open, if anything is.
LEMMA EndRight == ASSUME IInv, EndCapture PROVE IInv'
<1>1. /\ capturing /\ capturing' = FALSE /\ pending' = <<>> /\ stream' = stream
      /\ torn' = torn /\ first' = first /\ mark' = mark /\ arrived' = arrived
  BY DEF EndCapture
<1>2. TypeOK /\ LogInv /\ CutInv /\ ShortLinesWhole /\ RingIsNewest
  BY DEF IInv
<1>3. PICK o, out, c : CutAt(o, out, c)
  BY <1>2 DEF CutInv
<1>4. /\ OpenFrom(stream, torn, o) /\ pending = OpenText(o)
      /\ Recorded(stream, torn, out, c) /\ out \in Seq(Records)
      /\ Mine = out
  <2>1. /\ OpenFrom(stream, torn, o) /\ pending = OpenText(o)
        /\ Recorded(stream, torn, out, c) /\ Mine = out \o OpenRecord(o)
    BY <1>1, <1>3 DEF CutAt
  <2>2. OpenRecord(o) = <<>>
    BY <1>1 DEF OpenRecord
  <2>3. out \in Seq(Records)
    BY <2>1 DEF Recorded, RecordedOf
  <2>4. out \o <<>> = out
    BY <2>3
  <2>5. QED
    BY <2>1, <2>2, <2>3, <2>4
<1>5. OpenText(o)' = OpenText(o)
  BY <1>1 DEF OpenText
<1>6. /\ log \in Seq(Records) /\ Len(log) \in Nat /\ first \in 0..Len(log)
      /\ pending \in Seq(Texts)
  BY <1>2 DEF TypeOK, LogInv
<1>7. ShortLinesWhole'
  BY <1>1, <1>2, BufferNumbers DEF ShortLinesWhole, Starts
<1>8. CASE pending = <<>>
  <2>1. /\ records' = records /\ received' = received /\ discarded' = discarded
        /\ log' = log
    BY <1>8 DEF EndCapture, ring
  <2>2. TypeOK' /\ LogInv' /\ RingIsNewest'
    <3>1. LogInv'
      BY <1>1, <1>2, <2>1 DEF LogInv
    <3>2. RingIsNewest'
      BY <1>1, <1>2, <2>1 DEF RingIsNewest
    <3>3. RingTyped'
      BY <1>2, <2>1, TypeParts DEF RingTyped
    <3>4. RestTyped'
      <4>1. <<>> \in Seq(Texts)
        OBVIOUS
      <4>2. QED
        BY <1>1, <1>2, <4>1, TypeParts DEF RestTyped
    <3>5. QED
      BY <3>1, <3>2, <3>3, <3>4, TypeParts
  <2>3. OpenRecord(o)' = <<>> /\ Mine' = Mine /\ out \o <<>> = out
    BY <1>1, <1>4, <1>5, <1>8, <2>1 DEF OpenRecord, Mine
  <2>4. CutAt(o, out, c)'
    BY <1>1, <1>4, <2>3 DEF CutAt
  <2>5. QED
    BY <1>7, <2>2, <2>4 DEF IInv, CutInv
<1>9. CASE pending # <<>>
  <2> DEFINE new == <<LineRecord(pending)>>
  <2>1. _append_records(new)
    BY <1>9 DEF EndCapture
  <2>2. new \in Seq(Records) /\ Len(new) \in Nat
    <3>1. (Len(pending) > MaxLine) \in BOOLEAN
      OBVIOUS
    <3>2. LineRecord(pending) \in Records
      BY <1>6, <1>9, <3>1, RecordTyped DEF LineRecord
    <3>3. QED
      BY <3>2
  <2> HIDE DEF new
  <2>3. /\ RingIsNewest' /\ RingTyped'
        /\ log' = log \o new /\ log' \in Seq(Records) /\ Len(log') = Len(log) + Len(new)
    BY <1>1, <1>2, <2>1, <2>2, AppendRight
  <2>4. TypeOK'
    <3>1. RestTyped'
      <4>1. <<>> \in Seq(Texts)
        OBVIOUS
      <4>2. QED
        BY <1>1, <1>2, <4>1, TypeParts DEF RestTyped
    <3>2. QED
      BY <2>3, <3>1, TypeParts
  <2>5. LogInv'
    <3>1. Len(log) <= Len(log')
      BY <1>6, <2>2, <2>3
    <3>2. first' <= Len(log') /\ mark' <= Len(log')
      BY <1>1, <1>2, <1>6, <2>2, <2>3, <3>1 DEF LogInv, TypeOK
    <3>3. QED
      BY <1>1, <1>2, <2>3, <3>2 DEF LogInv
  <2>6. Mine' = out \o new
    BY <1>1, <1>4, <1>6, <2>2, <2>3, EndOfBoth DEF Mine
  <2>7. OpenRecord(o)' = new
    BY <1>1, <1>4, <1>5, <1>9 DEF OpenRecord, new
  <2>8. CutAt(o, out, c)'
    BY <1>1, <1>4, <2>6, <2>7 DEF CutAt
  <2>9. QED
    BY <1>7, <2>3, <2>4, <2>5, <2>8 DEF IInv, CutInv
<1>10. QED
  BY <1>8, <1>9

\* A clear takes nothing from the log.
LEMMA ClearRight == ASSUME IInv, Clear PROVE IInv'
<1>1. /\ records' = <<>> /\ mark' = Len(log) /\ capturing' = capturing
      /\ pending' = pending /\ received' = received /\ discarded' = discarded
      /\ stream' = stream /\ torn' = torn /\ log' = log /\ first' = first
      /\ arrived' = arrived
  BY DEF Clear
<1>2. TypeOK /\ LogInv /\ CutInv /\ ShortLinesWhole /\ RingIsNewest
  BY DEF IInv
<1>3. log \in Seq(Records) /\ Len(log) \in Nat
  BY <1>2 DEF LogInv
<1>4. TypeOK' /\ LogInv'
  BY <1>1, <1>2, <1>3, BufferNumbers DEF TypeOK, LogInv
<1>5. CutInv'
  BY <1>1, <1>2 DEF CutInv, CutAt, OpenText, OpenRecord, Mine
<1>6. ShortLinesWhole'
  BY <1>1, <1>2 DEF ShortLinesWhole, Starts
<1>7. RingIsNewest'
  <2>1. SubSeq(log', mark' + 1, Len(log')) = <<>>
    BY <1>1, <1>3
  <2>2. Newest(<<>>, MessageLimit) = <<>>
    BY BufferNumbers DEF Newest
  <2>3. /\ received = Len(log) /\ discarded \in Nat /\ received \in Nat
        /\ discarded <= received - Len(records)
    BY <1>2 DEF RingIsNewest, TypeOK
  <2>4. Len(records) \in Nat
    <3>1. log \in Seq(Records) /\ mark \in Nat /\ MessageLimit \in Nat
      BY <1>2, BufferNumbers DEF LogInv, TypeOK
    <3>2. SubSeq(log, mark + 1, Len(log)) \in Seq(Records)
      BY <3>1
    <3>3. records \in Seq(Records)
      BY <1>2, <3>1, <3>2, NewestIs DEF RingIsNewest
    <3>4. QED
      BY <3>3
  <2>5. Len(records') = 0 /\ discarded <= received
    BY <1>1, <2>3, <2>4
  <2>6. mark' = 0 => discarded' = received' - Len(records')
    BY <1>1, <2>3, <2>5
  <2>7. discarded' <= received' - Len(records')
    BY <1>1, <2>3, <2>5
  <2>8. records' = Newest(SubSeq(log', mark' + 1, Len(log')), MessageLimit)
    BY <1>1, <2>1, <2>2
  <2>9. QED
    BY <1>1, <2>3, <2>6, <2>7, <2>8 DEF RingIsNewest
<1>8. QED
  BY <1>4, <1>5, <1>6, <1>7 DEF IInv

\* ShortLinesWhole in terms of a stream and of its flushes, before and after a step.
LEMMA TornParts ==
  /\ stream \in Seq(Bytes) =>
       (ShortLinesWhole <=> /\ Len(pending) <= MaxPending
                            /\ \A t \in torn : TornLong(stream, torn, t))
  /\ stream' \in Seq(Bytes) =>
       (ShortLinesWhole' <=> /\ Len(pending') <= MaxPending
                             /\ \A t \in torn' : TornLong(stream', torn', t))
<1>1. ASSUME stream \in Seq(Bytes)
      PROVE  \A i : i \in Starts <=> i \in 1..Len(stream) /\ StartIn(stream, torn, i)
  <2>1. DOMAIN stream = 1..Len(stream)
    BY <1>1
  <2>2. QED
    BY <2>1 DEF Starts, StartIn, IsText, IsEnd
<1>2. ASSUME stream' \in Seq(Bytes)
      PROVE  \A i : i \in Starts' <=> i \in 1..Len(stream') /\ StartIn(stream', torn', i)
  <2>1. DOMAIN stream' = 1..Len(stream')
    BY <1>2
  <2>2. QED
    BY <2>1 DEF Starts, StartIn, IsText, IsEnd
<1>3. ASSUME stream \in Seq(Bytes)
      PROVE  ShortLinesWhole <=> /\ Len(pending) <= MaxPending
                                 /\ \A t \in torn : TornLong(stream, torn, t)
  <2>1. ShortLinesWhole <=>
          /\ Len(pending) <= MaxPending
          /\ \A t \in torn : \E i \in Starts :
               i <= t /\ (\A k \in i..t : stream[k] \in Texts) /\ t - i + 1 > MaxPending
    BY DEF ShortLinesWhole, IsText
  <2>2. QED
    BY <1>1, <1>3, <2>1, Zenon DEF TornLong
<1>4. ASSUME stream' \in Seq(Bytes)
      PROVE  ShortLinesWhole' <=> /\ Len(pending') <= MaxPending
                                  /\ \A t \in torn' : TornLong(stream', torn', t)
  <2>1. ShortLinesWhole' <=>
          /\ Len(pending') <= MaxPending
          /\ \A t \in torn' : \E i \in Starts' :
               i <= t /\ (\A k \in i..t : stream'[k] \in Texts) /\ t - i + 1 > MaxPending
    BY DEF ShortLinesWhole, IsText
  <2>2. QED
    BY <1>2, <1>4, <2>1, Zenon DEF TornLong
<1>5. QED
  BY <1>3, <1>4

\* One read, from its cut to what it leaves open.  The bytes of the read go behind what
\* was open, so the lines that are cut are the new pieces; a flush completes one more.
LEMMA ReadRight == ASSUME IInv, ReadChunk PROVE IInv'
<1>1. /\ capturing = TRUE /\ capturing' = TRUE /\ first' = first /\ mark' = mark
  BY DEF ReadChunk, IInv, TypeOK
<1>2. TypeOK /\ LogInv /\ CutInv /\ ShortLinesWhole /\ RingIsNewest
  BY DEF IInv
<1>3. PICK chunk \in Chunks :
        LET cut   == _consume_lines(pending \o chunk)
            lines == [i \in DOMAIN cut.lines |-> LineRecord(cut.lines[i])]
        IN
          /\ arrived + Len(chunk) <= MaxBytes
          /\ arrived' = arrived + Len(chunk) /\ stream' = stream \o chunk
          /\ IF Len(cut.rest) > MaxPending
             THEN /\ _append_records(Append(lines, Record(cut.rest, TRUE)))
                  /\ pending' = <<>> /\ torn' = torn \cup {Len(stream')}
             ELSE /\ _append_records(lines)
                  /\ pending' = cut.rest /\ UNCHANGED torn
  BY DEF ReadChunk
<1> DEFINE p     == pending \o chunk
           cut   == _consume_lines(p)
           rest  == cut.rest
           new   == [i \in DOMAIN cut.lines |-> LineRecord(cut.lines[i])]
           flush == Record(rest, TRUE)
           s     == stream
           s2    == stream'
           T     == torn
           o2    == Len(s2) - Len(rest)
<1>4. /\ arrived + Len(chunk) <= MaxBytes
      /\ arrived' = arrived + Len(chunk) /\ s2 = s \o chunk
      /\ Len(rest) > MaxPending =>
           /\ _append_records(Append(new, flush))
           /\ pending' = <<>> /\ torn' = T \cup {Len(s2)}
      /\ ~(Len(rest) > MaxPending) =>
           _append_records(new) /\ pending' = rest /\ torn' = T
  BY <1>3
<1>5. chunk \in Seq(Bytes) /\ Len(chunk) \in Nat
  <2>1. PICK n \in 1..MaxChunk : chunk \in [1..n -> Bytes]
    BY DEF Chunks
  <2>2. n \in Nat
    OBVIOUS
  <2>3. QED
    BY <2>1, <2>2
<1>6. /\ s \in Seq(Bytes) /\ Len(s) \in Nat /\ pending \in Seq(Texts)
        /\ Texts \subseteq Bytes
      /\ log \in Seq(Records) /\ Len(log) \in Nat /\ first \in 0..Len(log)
      /\ mark \in 0..Len(log) /\ arrived \in Nat /\ Len(s) <= arrived
      /\ MaxPending \in Nat /\ MaxPending > 0 /\ MaxBytes \in Nat
  BY <1>2, BufferNumbers, TypeParts DEF RestTyped, LogInv, Bytes
<1>7. /\ p \in Seq(Bytes) /\ s2 \in Seq(Bytes) /\ Len(s2) = Len(s) + Len(chunk)
      /\ Extends(s2, s)
  <2>1. pending \in Seq(Bytes)
    BY <1>6
  <2>2. p \in Seq(Bytes)
    BY <1>5, <2>1
  <2>3. /\ s \o chunk \in Seq(Bytes) /\ Len(s \o chunk) = Len(s) + Len(chunk)
        /\ \A i \in 1..Len(s) : (s \o chunk)[i] = s[i]
    BY <1>5, <1>6
  <2>4. Len(s) <= Len(s \o chunk)
    BY <1>5, <1>6, <2>3
  <2>5. QED
    BY <1>4, <2>2, <2>3, <2>4 DEF Extends
<1>8. PICK o, out, c : CutAt(o, out, c)
  BY <1>2 DEF CutInv
<1>9. /\ OpenFrom(s, T, o) /\ pending = OpenText(o) /\ Recorded(s, T, out, c)
      /\ Mine = out /\ out \in Seq(Records) /\ o \in 0..Len(s) /\ T \subseteq 1..o
  <2>1. /\ OpenFrom(s, T, o) /\ pending = OpenText(o)
        /\ Recorded(s, T, out, c) /\ Mine = out \o OpenRecord(o)
    BY <1>1, <1>8 DEF CutAt
  <2>2. OpenRecord(o) = <<>>
    BY <1>1 DEF OpenRecord
  <2>3. out \in Seq(Records)
    BY <2>1 DEF Recorded, RecordedOf
  <2>4. out \o <<>> = out
    BY <2>3
  <2>5. o \in 0..Len(s) /\ T \subseteq 1..o
    BY <2>1 DEF OpenFrom
  <2>6. QED
    BY <2>1, <2>2, <2>3, <2>4, <2>5
<1>10. p = SubSeq(s2, o + 1, Len(s2))
  <2>1. SubSeq(s \o chunk, o + 1, Len(s \o chunk)) = SubSeq(s, o + 1, Len(s)) \o chunk
    BY <1>5, <1>6, <1>9, EndOfBoth
  <2>2. QED
    BY <1>4, <1>9, <2>1 DEF OpenText
<1> HIDE DEF p, s2
<1>11. PICK d : LinesAt(p, cut.lines, d) /\ RestAt(p, rest)
  BY <1>7, ConsumeCuts
<1> HIDE DEF cut
<1>12. LinesAt(SubSeq(s2, o + 1, Len(s2)), cut.lines, d)
  BY <1>10, <1>11
<1>13. RestAt(SubSeq(s2, o + 1, Len(s2)), rest)
  BY <1>10, <1>11
<1>14. rest \in Seq(Texts) /\ Len(rest) \in Nat
  BY <1>11 DEF RestAt
<1> HIDE DEF rest
<1>15. /\ o2 \in o..Len(s2) /\ OpenFrom(s2, T, o2)
       /\ SubSeq(s2, o2 + 1, Len(s2)) = rest
  <2>1. s \in Seq(Bytes) /\ s2 \in Seq(Bytes) /\ Extends(s2, s) /\ OpenFrom(s, T, o)
    BY <1>6, <1>7, <1>9
  <2>2. QED
    BY <1>13, <2>1, RestIsOpen
<1>16. Recorded(s2, T, out \o new, c \o Moved(d, o))
  BY <1>6, <1>7, <1>9, <1>12, CutIsRecorded
<1> HIDE DEF new
<1>17. new \in Seq(Records) /\ Len(new) \in Nat
  <2>1. RecordedOf(s2, T, PiecesBehind(s2, T, o), new, Moved(d, o))
    BY <1>6, <1>7, <1>9, <1>12, LinesAreRecorded DEF new
  <2>2. new \in Seq(Records)
    BY <2>1 DEF RecordedOf
  <2>3. QED
    BY <2>2
<1>18. /\ Len(s2) \in Nat /\ Len(s2) - o2 = Len(rest) /\ Len(s2) <= arrived'
       /\ arrived' \in Nat /\ arrived' <= MaxBytes /\ o2 \in Nat
  <2>1. /\ arrived + Len(chunk) <= MaxBytes /\ arrived' = arrived + Len(chunk)
        /\ Len(s2) = Len(s) + Len(chunk) /\ Len(s) <= arrived
        /\ arrived \in Nat /\ Len(s) \in Nat /\ Len(chunk) \in Nat
    BY <1>4, <1>5, <1>6, <1>7
  <2>2. Len(s2) \in Nat /\ Len(s2) <= arrived' /\ arrived' \in Nat /\ arrived' <= MaxBytes
    BY <2>1
  <2>3. Len(s2) - o2 = Len(rest) /\ o2 \in Nat
    <3>1. o2 \in o..Len(s2) /\ o \in Nat
      BY <1>9, <1>15
    <3>2. Len(s2) - (Len(s2) - Len(rest)) = Len(rest)
      BY <1>14, <2>2
    <3>3. QED
      BY <2>2, <3>1, <3>2
  <2>4. QED
    BY <2>2, <2>3
<1> HIDE DEF o2
<1>19. /\ Len(pending) <= MaxPending
       /\ \A t \in T : TornLong(s, T, t)
  BY <1>2, <1>6, TornParts
<1>20. \A t \in T : t \in 1..Len(s)
  BY <1>6, <1>9
\* The parts of the invariant from what either branch appends.
<1>21. ASSUME NEW more, more \in Seq(Records), _append_records(more), T \subseteq torn',
              torn' \subseteq 1..Len(s2), pending' \in Seq(Texts),
              Len(pending') <= MaxPending,
              \A t \in torn' : t \in T \/ TornLong(s2, torn', t),
              NEW o3, NEW e, OpenFrom(s2, torn', o3), Recorded(s2, torn', out \o more, e),
              pending' = SubSeq(s2, o3 + 1, Len(s2))
       PROVE  IInv'
  <2>1. /\ RingIsNewest' /\ RingTyped'
        /\ log' = log \o more /\ log' \in Seq(Records) /\ Len(log') = Len(log) + Len(more)
    BY <1>1, <1>2, <1>21, AppendRight
  <2>2. RestTyped'
    <3>1. torn' \subseteq 1..MaxBytes
      BY <1>6, <1>18, <1>21
    <3>2. first' \in Nat /\ mark' \in Nat
      BY <1>1, <1>6
    <3>3. stream' \in Seq(Bytes)
      BY <1>7 DEF s2
    <3>4. capturing' \in BOOLEAN
      BY <1>1
    <3>5. QED
      BY <1>21, <3>1, <3>2, <3>3, <3>4 DEF RestTyped
  <2>3. LogInv'
    <3>1. Len(more) \in Nat
      BY <1>21
    <3>2. first' <= Len(log') /\ mark' <= Len(log')
      BY <1>1, <1>6, <2>1, <3>1
    <3>3. Len(stream') <= arrived'
      BY <1>18 DEF s2
    <3>4. QED
      BY <1>18, <2>1, <3>2, <3>3 DEF LogInv
  <2>4. Mine' = out \o more
    BY <1>1, <1>6, <1>9, <1>21, <2>1, EndOfBoth DEF Mine
  <2>5. CutAt(o3, out \o more, e)'
    <3>1. OpenRecord(o3)' = <<>> /\ (out \o more) \o <<>> = out \o more
      <4>1. out \o more \in Seq(Records)
        BY <1>9, <1>21
      <4>2. (out \o more) \o <<>> = out \o more
        BY <4>1
      <4>3. QED
        BY <1>1, <4>2 DEF OpenRecord
    <3>2. OpenText(o3)' = pending'
      BY <1>21 DEF OpenText, s2
    <3>3. OpenFrom(stream', torn', o3) /\ Recorded(stream', torn', out \o more, e)
      BY <1>21 DEF s2
    <3>4. QED
      BY <1>1, <2>4, <3>1, <3>2, <3>3 DEF CutAt
  <2>6. ShortLinesWhole'
    <3>1. ASSUME NEW t \in torn' PROVE TornLong(s2, torn', t)
      <4>1. CASE t \in T
        BY <1>6, <1>7, <1>19, <1>20, <1>21, <4>1, TornLongStays
      <4>2. QED
        BY <1>21, <4>1
    <3>2. \A t \in torn' : TornLong(stream', torn', t)
      BY <3>1 DEF s2
    <3>3. QED
      BY <1>7, <1>21, <3>2, TornParts DEF s2
  <2>7. QED
    BY <2>1, <2>2, <2>3, <2>5, <2>6, TypeParts DEF IInv, CutInv
<1>22. CASE ~(Len(rest) > MaxPending)
  <2>1. _append_records(new) /\ pending' = rest /\ torn' = T
    BY <1>4, <1>22
  <2>2. T \subseteq torn' /\ torn' \subseteq 1..Len(s2)
    BY <1>7, <1>5, <1>6, <1>18, <1>20, <2>1
  <2>3. \A t \in torn' : t \in T \/ TornLong(s2, torn', t)
    BY <2>1
  <2>4. Len(pending') <= MaxPending /\ pending' \in Seq(Texts)
    BY <1>6, <1>14, <1>22, <2>1
  <2>5. /\ OpenFrom(s2, torn', o2) /\ Recorded(s2, torn', out \o new, c \o Moved(d, o))
        /\ pending' = SubSeq(s2, o2 + 1, Len(s2))
    BY <1>15, <1>16, <2>1
  <2>6. QED
    BY <1>17, <1>21, <2>1, <2>2, <2>3, <2>4, <2>5
<1>23. CASE Len(rest) > MaxPending
  <2>1. /\ _append_records(Append(new, flush)) /\ pending' = <<>>
        /\ torn' = T \cup {Len(s2)}
    BY <1>4, <1>23
  <2>2. o2 < Len(s2) /\ rest # <<>> /\ Len(s2) \in 1..Len(s2)
    <3>1. o2 < Len(s2) /\ Len(s2) \in 1..Len(s2)
      BY <1>6, <1>14, <1>18, <1>23
    <3>2. Len(rest) # 0
      BY <1>6, <1>14, <1>23
    <3>3. QED
      BY <3>1, <3>2
  <2>3. flush \in Records
    BY <1>14, <2>2, RecordTyped
  <2>4. /\ OpenFrom(s2, torn', Len(s2))
        /\ Recorded(s2, torn', (out \o new) \o <<flush>>, (c \o Moved(d, o)) \o <<o2 + 1>>)
    <3>1. /\ OpenFrom(s2, T \cup {Len(s2)}, Len(s2))
          /\ Recorded(s2, T \cup {Len(s2)},
                      (out \o new) \o <<Record(SubSeq(s2, o2 + 1, Len(s2)), TRUE)>>,
                      (c \o Moved(d, o)) \o <<o2 + 1>>)
      BY <1>7, <1>15, <1>16, <2>2, FlushIsRecorded
    <3>2. QED
      BY <1>15, <2>1, <3>1
  <2> HIDE DEF flush
  <2>5. /\ (out \o new) \o <<flush>> = out \o Append(new, flush)
        /\ Append(new, flush) \in Seq(Records)
    <3>1. Append(new, flush) = new \o <<flush>> /\ Append(new, flush) \in Seq(Records)
      BY <1>17, <2>3
    <3>2. <<flush>> \in Seq(Records)
      BY <2>3
    <3>3. (out \o new) \o <<flush>> = out \o (new \o <<flush>>)
      BY <1>9, <1>17, <3>2, ConcatAssociative
    <3>4. QED
      BY <3>1, <3>3
  <2>6. T \subseteq torn' /\ torn' \subseteq 1..Len(s2)
    <3>1. \A t \in T : t \in 1..Len(s2)
      BY <1>5, <1>6, <1>7, <1>20
    <3>2. QED
      BY <2>1, <2>2, <3>1
  <2>7. TornLong(s2, torn', Len(s2))
    BY <1>7, <1>15, <1>18, <1>23, <2>6, TornLongNow
  <2>8. \A t \in torn' : t \in T \/ TornLong(s2, torn', t)
    BY <2>1, <2>7
  <2>9. Len(pending') <= MaxPending /\ pending' \in Seq(Texts)
    BY <1>6, <2>1
  <2>10. pending' = SubSeq(s2, Len(s2) + 1, Len(s2))
    BY <1>7, <1>18, <2>1
  <2>11. Recorded(s2, torn', out \o Append(new, flush), (c \o Moved(d, o)) \o <<o2 + 1>>)
    BY <2>4, <2>5
  <2>12. QED
    BY <1>21, <2>1, <2>4, <2>5, <2>6, <2>8, <2>9, <2>10, <2>11
<1>24. QED
  BY <1>22, <1>23

\* Every step.
LEMMA NextRight == IInv /\ [Next]_vars => IInv'
<1> SUFFICES ASSUME IInv, [Next]_vars PROVE IInv'
  OBVIOUS
<1>1. CASE BeginCapture
  BY <1>1, BeginRight
<1>2. CASE ReadChunk
  BY <1>2, ReadRight
<1>3. CASE EndCapture
  BY <1>3, EndRight
<1>4. CASE Clear
  BY <1>4, ClearRight
<1>5. CASE UNCHANGED vars
  <2>1. /\ capturing' = capturing /\ pending' = pending /\ records' = records
        /\ received' = received /\ discarded' = discarded /\ stream' = stream
        /\ torn' = torn /\ log' = log /\ first' = first /\ mark' = mark
        /\ arrived' = arrived
    BY <1>5 DEF vars, ring, history
  <2>2. TypeOK /\ LogInv /\ CutInv /\ ShortLinesWhole /\ RingIsNewest
    BY DEF IInv
  <2>3. TypeOK' /\ LogInv' /\ RingIsNewest'
    BY <2>1, <2>2 DEF TypeOK, LogInv, RingIsNewest
  <2>4. CutInv'
    BY <2>1, <2>2 DEF CutInv, CutAt, OpenText, OpenRecord, Mine
  <2>5. ShortLinesWhole'
    BY <2>1, <2>2 DEF ShortLinesWhole, Starts
  <2>6. QED
    BY <2>3, <2>4, <2>5 DEF IInv
<1>6. QED
  BY <1>1, <1>2, <1>3, <1>4, <1>5 DEF Next

\* It holds in every state.
LEMMA Always == Spec => []IInv
BY InitRight, NextRight, PTL DEF Spec

-----------------------------------------------------------------------------
(* The theorems.                                                            *)

\* Every variable keeps its type: in particular no record is empty or longer than a
\* line, and the ring never holds more than its length.
THEOREM TypeCorrect == Spec => []TypeOK
<1>1. IInv => TypeOK
  BY DEF IInv
<1>2. QED
  BY <1>1, Always, PTL

\* The records of a capture, and what is pending of it, are those of the reference
\* definition over its bytes: however the network cut them into reads, and however
\* exports, clears and the ring came between them.
THEOREM ChunksAreIrrelevant == Spec => []ChunksDoNotMatter
<1>1. IInv => ChunksDoNotMatter
  <2> SUFFICES ASSUME IInv PROVE ChunksDoNotMatter
    OBVIOUS
  <2>1. PICK o, out, c : CutAt(o, out, c)
    BY DEF IInv, CutInv
  <2>2. stream \in Seq(Bytes)
    BY DEF IInv, TypeOK
  <2>3. /\ OpenFrom(stream, torn, o) /\ Recorded(stream, torn, out, c)
        /\ pending = (IF capturing THEN OpenText(o) ELSE <<>>)
        /\ Mine = out \o OpenRecord(o)
    BY <2>1 DEF CutAt
  <2>4. Reference = out \o OpenRecord(o)
    BY <2>2, <2>3, ReferenceIs
  <2>5. Rest = OpenText(o)
    BY <2>2, <2>3, RestIs
  <2>6. QED
    BY <2>3, <2>4, <2>5 DEF ChunksDoNotMatter, Mine
<1>2. QED
  BY <1>1, Always, PTL

\* A line is torn only where it has grown beyond MAX_PENDING_BYTES, and never more than
\* that is pending between two reads.
THEOREM OnlyLongLinesTear == Spec => []ShortLinesWhole
<1>1. IInv => ShortLinesWhole
  BY DEF IInv
<1>2. QED
  BY <1>1, Always, PTL

\* The ring is the newest of what came since the last clear, and every record that was
\* received is kept, discarded or was cleared.
THEOREM RingKeepsNewest == Spec => []RingIsNewest
<1>1. IInv => RingIsNewest
  BY DEF IInv
<1>2. QED
  BY <1>1, Always, PTL

\* The ring holds records with a size, and no more than the option allows.
LEMMA RingSized ==
  ASSUME IInv
  PROVE  records \in Seq(Records) /\ Sized(records) /\ Len(records) <= MessageLimit
<1>1. /\ log \in Seq(Records) /\ mark \in 0..Len(log) /\ Len(records) <= MessageLimit
      /\ records = Newest(SubSeq(log, mark + 1, Len(log)), MessageLimit)
  <2>1. log \in Seq(Records) /\ mark \in Nat /\ mark <= Len(log)
    BY DEF IInv, TypeOK, LogInv
  <2>2. QED
    BY <2>1 DEF IInv, TypeOK, RingIsNewest
<1>2. records \in Seq(Records)
  <2>1. SubSeq(log, mark + 1, Len(log)) \in Seq(Records)
    BY <1>1
  <2>2. MessageLimit \in Nat
    BY BufferNumbers
  <2>3. QED
    BY <1>1, <2>1, <2>2, NewestIs
<1>3. ASSUME NEW i \in 1..Len(records) PROVE ItemSize(records[i]) \in Nat
  <2>1. records[i] \in Records
    BY <1>2
  <2>2. PICK n \in 1..MaxLine : records[i].text \in [1..n -> Texts]
    BY <2>1 DEF Records
  <2>3. n \in Nat /\ Len(records[i].text) = n
    BY <2>2, BufferNumbers
  <2>4. QED
    BY <2>3, ExportAssumption DEF ItemSize
<1>4. QED
  BY <1>1, <1>2, <1>3 DEF Sized

\* An export of the capture is an unbroken run from the oldest selected record on,
\* within the budget and as long as can be, and it says so when it leaves records out.
THEOREM ExportsAreUnbroken == Spec => []ExportUnbroken
<1>1. IInv => ExportUnbroken
  <2> SUFFICES ASSUME IInv, NEW limit \in 1..(MessageLimit + 1)
               PROVE  LET e   == capture_export(records, limit, MessageLimit)
                          all == Newest(records, limit)
                          n   == Len(e.messages)
                      IN /\ e.messages = SubSeq(all, 1, n)
                         /\ SizeOf(e.messages) <= MaxExport
                         /\ e.truncated <=> n < Len(all)
                         /\ e.truncated => SizeOf(SubSeq(all, 1, n + 1)) > MaxExport
    BY Zenon DEF ExportUnbroken
  <2>1. limit \in Nat /\ MessageLimit \in Nat
    BY BufferNumbers
  <2>2. records \in Seq(Records) /\ Sized(records) /\ Len(records) <= MessageLimit
    BY RingSized
  <2>3. QED
    BY <2>1, <2>2, CaptureExportIs
<1>2. QED
  BY <1>1, Always, PTL

\* The bus monitor's export leaves out no message for the sake of an older one, and
\* counts each that it leaves out.
THEOREM ExportsKeepNewest == Spec => []ExportNewest
<1>1. IInv => ExportNewest
  <2> SUFFICES ASSUME IInv, NEW limit \in 1..(MessageLimit + 1)
               PROVE  LET e   == bus_export(records, limit)
                          all == Newest(records, limit)
                      IN /\ SizeOf(e.messages) <= MaxExport
                         /\ Len(e.messages) + e.omitted = Len(all)
                         /\ \A n \in 0..Len(all) :
                              SizeOf(Newest(all, n)) <= MaxExport =>
                                Newest(e.messages, n) = Newest(all, n)
    BY Zenon DEF ExportNewest
  <2>1. limit \in Nat
    BY BufferNumbers
  <2>2. records \in Seq(Records) /\ Sized(records)
    BY RingSized
  <2>3. QED
    BY <2>1, <2>2, BusExportIs
<1>2. QED
  BY <1>1, Always, PTL
=============================================================================
