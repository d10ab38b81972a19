-------------------------- MODULE CaptureLoopsProofs --------------------------
(***************************************************************************)
(* What the loops of CaptureRecords compute, for all inputs: _consume_lines *)
(* for every sequence of bytes, and the two exports of LogExports for every *)
(* sequence of records.  _consume_lines is a recursive function and the     *)
(* exports are folds, that is recursive functions over the sets of          *)
(* positions, so two things come first each time: that a function with its  *)
(* equation exists, from functions that satisfy it up to a size; then, by   *)
(* the smallest input or the first step for which it would fail, what the   *)
(* function returns.                                                        *)
(***************************************************************************)
EXTENDS CaptureRecords, FiniteSetTheorems, SequenceTheorems, WellFoundedInduction, TLAPS

-----------------------------------------------------------------------------
(* Numbers and positions.                                                   *)

\* A set of naturals that is not empty has a smallest element.
LEMMA SmallestNat ==
  ASSUME NEW S, S \subseteq Nat, S # {}
  PROVE  \E n \in S : \A m \in S : n <= m
<1>1. PICK n \in S : \A m \in S : ~(<<m, n>> \in OpToRel(<, Nat))
  BY NatLessThanWellFounded, WFMin
<1>2. \A m \in S : ~(m < n)
  BY <1>1 DEF OpToRel
<1>3. QED
  BY <1>2

\* The first line end, and the first byte of text.
LEMMA FirstEnd ==
  ASSUME NEW p \in Seq(Bytes)
  PROVE  LET end == SelectInSeq(p, IsEnd) IN
           \/ end = 0 /\ \A i \in 1..Len(p) : p[i] \in Texts
           \/ /\ end \in 1..Len(p) /\ p[end] \in Ends
              /\ \A i \in 1..(end - 1) : p[i] \in Texts
<1> DEFINE I == {i \in 1..Len(p) : IsEnd(p[i])}
<1>1. \A i \in 1..Len(p) : p[i] \in Bytes
  OBVIOUS
<1>2. SelectInSeq(p, IsEnd) = IF I # {} THEN Min(I) ELSE 0
  BY DEF SelectInSeq
<1>3. CASE I = {}
  BY <1>1, <1>2, <1>3 DEF Bytes, IsEnd
<1>4. CASE I # {}
  <2> HIDE DEF I
  <2>0. I \subseteq Nat
    BY DEF I
  <2>1. \E n \in I : \A m \in I : n <= m
    BY <1>4, <2>0, SmallestNat
  <2> USE DEF I
  <2>2. Min(I) \in I /\ \A m \in I : Min(I) <= m
    BY <2>1 DEF Min
  <2>3. \A i \in 1..(Min(I) - 1) : i \in 1..Len(p) /\ i \notin I
    BY <2>2
  <2>4. QED
    BY <1>1, <1>2, <1>4, <2>2, <2>3 DEF Bytes, IsEnd
<1>5. QED
  BY <1>3, <1>4

\* The same for the first byte of text.
LEMMA FirstText ==
  ASSUME NEW p \in Seq(Bytes)
  PROVE  LET text == SelectInSeq(p, IsText) IN
           \/ text = 0 /\ \A i \in 1..Len(p) : p[i] \in Ends
           \/ /\ text \in 1..Len(p) /\ p[text] \in Texts
              /\ \A i \in 1..(text - 1) : p[i] \in Ends
<1> DEFINE I == {i \in 1..Len(p) : IsText(p[i])}
<1>1. \A i \in 1..Len(p) : p[i] \in Bytes
  OBVIOUS
<1>2. SelectInSeq(p, IsText) = IF I # {} THEN Min(I) ELSE 0
  BY DEF SelectInSeq
<1>3. CASE I = {}
  BY <1>1, <1>2, <1>3 DEF Bytes, IsText
<1>4. CASE I # {}
  <2> HIDE DEF I
  <2>0. I \subseteq Nat
    BY DEF I
  <2>1. \E n \in I : \A m \in I : n <= m
    BY <1>4, <2>0, SmallestNat
  <2> USE DEF I
  <2>2. Min(I) \in I /\ \A m \in I : Min(I) <= m
    BY <2>1 DEF Min
  <2>3. \A i \in 1..(Min(I) - 1) : i \in 1..Len(p) /\ i \notin I
    BY <2>2
  <2>4. QED
    BY <1>1, <1>2, <1>4, <2>2, <2>3 DEF Bytes, IsText
<1>5. QED
  BY <1>3, <1>4

-----------------------------------------------------------------------------
(* The loop of _consume_lines.                                              *)

\* What is left for the next turn, and one turn with any function for the rest.
Later(p) ==
  LET after == SubSeq(p, SelectInSeq(p, IsEnd), Len(p))
      text  == SelectInSeq(after, IsText)
  IN IF text = 0 THEN <<>> ELSE SubSeq(after, text, Len(after))

Turn(g, p) ==
  LET end == SelectInSeq(p, IsEnd)
      raw == SubSeq(p, 1, end - 1)
  IN IF end = 0
     THEN [lines |-> <<>>, rest |-> p]
     ELSE [lines |-> IF raw = <<>> THEN g[Later(p)].lines
                     ELSE <<raw>> \o g[Later(p)].lines,
           rest  |-> g[Later(p)].rest]

Total(g) == g = [p \in Seq(Bytes) |-> Turn(g, p)]

\* The function is the one that satisfies the equation of a turn.
LEMMA ConsumeIsTurn == consume = CHOOSE g : Total(g)
BY DEF consume, Total, Turn, Later

\* What is left begins behind a run of line ends, the first of which is the end that
\* was found.
LEMMA LaterIsBehind ==
  ASSUME NEW p \in Seq(Bytes), SelectInSeq(p, IsEnd) # 0
  PROVE  \E k \in SelectInSeq(p, IsEnd)..Len(p) :
           /\ Later(p) = SubSeq(p, k + 1, Len(p))
           /\ \A i \in SelectInSeq(p, IsEnd)..k : p[i] \in Ends
<1> DEFINE end   == SelectInSeq(p, IsEnd)
           after == SubSeq(p, end, Len(p))
           text  == SelectInSeq(after, IsText)
<1>1. end \in 1..Len(p) /\ p[end] \in Ends /\ Len(p) \in Nat
  BY FirstEnd
<1> HIDE DEF end
<1>2. /\ after \in Seq(Bytes) /\ Len(after) = Len(p) - end + 1
      /\ \A i \in 1..Len(after) : after[i] = p[end + i - 1]
  BY <1>1
<1> HIDE DEF after
<1>3. \/ text = 0 /\ \A i \in 1..Len(after) : after[i] \in Ends
      \/ /\ text \in 1..Len(after) /\ after[text] \in Texts
         /\ \A i \in 1..(text - 1) : after[i] \in Ends
  BY <1>2, FirstText
<1>4. text # 1
  BY <1>1, <1>2, <1>3, ByteAssumption
<1> HIDE DEF text
<1>5. Later(p) = IF text = 0 THEN <<>> ELSE SubSeq(after, text, Len(after))
  BY DEF Later, end, after, text
<1>6. \E k \in end..Len(p) :
        Later(p) = SubSeq(p, k + 1, Len(p)) /\ \A i \in end..k : p[i] \in Ends
  <2>1. CASE text = 0
    <3>1. Later(p) = SubSeq(p, Len(p) + 1, Len(p))
      BY <1>1, <1>5, <2>1
    <3>2. \A i \in end..Len(p) : i - end + 1 \in 1..Len(after)
            /\ p[i] = after[i - end + 1]
      BY <1>1, <1>2
    <3>3. \A i \in end..Len(p) : p[i] \in Ends
      BY <1>3, <2>1, <3>2
    <3>4. QED
      BY <1>1, <3>1, <3>3
  <2>2. CASE text # 0
    <3> DEFINE k == end + text - 2
    <3>1. text \in 2..Len(after) /\ Len(after) \in Nat
      BY <1>2, <1>3, <1>4, <2>2
    <3>2. k \in end..Len(p) /\ k + 1 = end + text - 1
      BY <1>1, <1>2, <3>1
    <3>3. /\ SubSeq(after, text, Len(after)) \in Seq(Bytes)
          /\ Len(SubSeq(after, text, Len(after))) = Len(after) - text + 1
          /\ \A i \in 1..(Len(after) - text + 1) :
               SubSeq(after, text, Len(after))[i] = after[text + i - 1]
      BY <1>2, <3>1
    <3>4. /\ SubSeq(p, k + 1, Len(p)) \in Seq(Bytes)
          /\ Len(SubSeq(p, k + 1, Len(p))) = Len(p) - k
          /\ \A i \in 1..(Len(p) - k) : SubSeq(p, k + 1, Len(p))[i] = p[k + i]
      BY <1>1, <3>2
    <3>5. \A i \in 1..(Len(p) - k) : after[text + i - 1] = p[k + i]
      BY <1>1, <1>2, <3>1, <3>2
    <3>6. SubSeq(after, text, Len(after)) = SubSeq(p, k + 1, Len(p))
      <4> DEFINE u == SubSeq(after, text, Len(after))
                 v == SubSeq(p, k + 1, Len(p))
      <4>1. Len(after) - text + 1 = Len(p) - k
        BY <1>1, <1>2, <3>1
      <4>2. /\ u \in Seq(Bytes) /\ v \in Seq(Bytes) /\ Len(u) = Len(v)
            /\ \A i \in 1..Len(u) : u[i] = v[i]
        BY <3>3, <3>4, <3>5, <4>1
      <4> HIDE DEF u, v
      <4>3. u = v
        BY <4>2, SeqEqual
      <4>4. QED
        BY <4>3 DEF u, v
    <3>7. \A i \in end..k : i - end + 1 \in 1..(text - 1) /\ p[i] = after[i - end + 1]
      BY <1>1, <1>2, <3>1
    <3>8. \A i \in end..k : p[i] \in Ends
      BY <1>3, <2>2, <3>7
    <3>9. QED
      BY <1>5, <2>2, <3>2, <3>6, <3>8
  <2>3. QED
    BY <2>1, <2>2
<1>7. QED
  BY <1>6 DEF end

\* What is left is shorter.
LEMMA LaterShorter ==
  ASSUME NEW p \in Seq(Bytes), SelectInSeq(p, IsEnd) # 0
  PROVE  Later(p) \in Seq(Bytes) /\ Len(Later(p)) < Len(p)
<1>1. SelectInSeq(p, IsEnd) \in 1..Len(p) /\ Len(p) \in Nat
  BY FirstEnd
<1>2. PICK k \in 1..Len(p) : Later(p) = SubSeq(p, k + 1, Len(p))
  BY <1>1, LaterIsBehind
<1>3. QED
  BY <1>1, <1>2

-----------------------------------------------------------------------------
(* The recursive function exists: functions that satisfy its equation up to *)
(* a length exist for every length, and agree where both are defined.       *)

Short(n) == {p \in Seq(Bytes) : Len(p) <= n}

Partial(g, n) == g = [p \in Short(n) |-> Turn(g, p)]

\* A turn asks the function for what is left only.
LEMMA TurnsAgree ==
  ASSUME NEW p \in Seq(Bytes), NEW g, NEW h,
         SelectInSeq(p, IsEnd) # 0 => g[Later(p)] = h[Later(p)]
  PROVE  Turn(g, p) = Turn(h, p)
BY DEF Turn

\* Two of them agree where both are defined.
LEMMA PartialsAgree ==
  ASSUME NEW m \in Nat, NEW n \in Nat, NEW g, NEW h, Partial(g, m), Partial(h, n)
  PROVE  \A p \in Short(m) \cap Short(n) : g[p] = h[p]
<1> DEFINE Bad == {k \in Nat : \E p \in Short(m) \cap Short(n) : Len(p) = k
  /\ g[p] # h[p]}
<1>1. SUFFICES ASSUME Bad # {} PROVE FALSE
  BY DEF Short
<1>2. Bad \subseteq Nat
  OBVIOUS
<1>3. \E k \in Bad : \A j \in Bad : k <= j
  <2> HIDE DEF Bad
  <2> QED BY <1>1, <1>2, SmallestNat
<1>4. PICK k \in Bad : \A j \in Bad : k <= j
  BY <1>3
<1>5. PICK p \in Short(m) \cap Short(n) : Len(p) = k /\ g[p] # h[p]
  BY <1>4
<1>6. p \in Seq(Bytes) /\ g[p] = Turn(g, p) /\ h[p] = Turn(h, p)
  BY <1>5 DEF Short, Partial
<1>7. ASSUME SelectInSeq(p, IsEnd) # 0 PROVE g[Later(p)] = h[Later(p)]
  <2>1. Later(p) \in Seq(Bytes) /\ Len(Later(p)) < Len(p)
    BY <1>6, <1>7, LaterShorter
  <2>2. Len(Later(p)) \in Nat /\ Later(p) \in Short(m) \cap Short(n)
    BY <1>5, <2>1 DEF Short
  <2>3. QED
    BY <1>4, <1>5, <2>1, <2>2
<1>8. QED
  BY <1>5, <1>6, <1>7, TurnsAgree

\* There is one for every length.
LEMMA PartialExists == \A n \in Nat : \E g : Partial(g, n)
<1> DEFINE Bad == {n \in Nat : ~\E g : Partial(g, n)}
<1>1. SUFFICES ASSUME Bad # {} PROVE FALSE
  OBVIOUS
<1>2. \E n \in Bad : \A m \in Bad : n <= m
  <2>1. Bad \subseteq Nat
    OBVIOUS
  <2> HIDE DEF Bad
  <2> QED BY <1>1, <2>1, SmallestNat
<1>3. PICK n \in Bad : \A m \in Bad : n <= m
  BY <1>2
<1>4. ASSUME NEW h,
             \A p \in Short(n) : SelectInSeq(p, IsEnd) # 0 =>
               Later(p) \in Short(n) /\ h[Later(p)] = Turn(h, Later(p))
      PROVE  FALSE
  <2> DEFINE g == [p \in Short(n) |-> Turn(h, p)]
  <2>1. ASSUME NEW p \in Short(n) PROVE Turn(h, p) = Turn(g, p)
    <3>1. p \in Seq(Bytes)
      BY DEF Short
    <3>2. SelectInSeq(p, IsEnd) # 0 => g[Later(p)] = h[Later(p)]
      BY <1>4, <2>1
    <3> HIDE DEF g
    <3>3. QED
      BY <3>1, <3>2, TurnsAgree
  <2>2. Partial(g, n)
    BY <2>1 DEF Partial
  <2>3. QED
    BY <1>3, <2>2
<1>5. CASE n = 0
  <2>1. \A p \in Short(n) : SelectInSeq(p, IsEnd) = 0
    BY <1>5, FirstEnd DEF Short
  <2>2. QED
    BY <1>4, <2>1
<1>6. CASE n # 0
  <2>1. n - 1 \in Nat /\ n - 1 \notin Bad
    BY <1>3, <1>6
  <2>2. PICK h : Partial(h, n - 1)
    BY <2>1
  <2>3. ASSUME NEW p \in Short(n), SelectInSeq(p, IsEnd) # 0
        PROVE  Later(p) \in Short(n) /\ h[Later(p)] = Turn(h, Later(p))
    <3>1. p \in Seq(Bytes) /\ Len(p) <= n
      BY DEF Short
    <3>2. Later(p) \in Seq(Bytes) /\ Len(Later(p)) < Len(p)
      BY <2>3, <3>1, LaterShorter
    <3>3. Later(p) \in Short(n - 1) /\ Later(p) \in Short(n)
      BY <3>1, <3>2 DEF Short
    <3>4. QED
      BY <2>2, <3>3 DEF Partial
  <2>4. QED
    BY <1>4, <2>3
<1>7. QED
  BY <1>5, <1>6

\* consume satisfies its equation.
LEMMA ConsumeTurns == consume = [p \in Seq(Bytes) |-> Turn(consume, p)]
<1> DEFINE part(n) == CHOOSE g : Partial(g, n)
           whole   == [p \in Seq(Bytes) |-> part(Len(p))[p]]
<1>1. ASSUME NEW n \in Nat PROVE Partial(part(n), n)
  BY PartialExists
<1>2. ASSUME NEW p \in Seq(Bytes) PROVE whole[p] = Turn(whole, p)
  <2> DEFINE g == part(Len(p))
  <2>1. Len(p) \in Nat /\ Partial(g, Len(p))
    BY <1>1
  <2>2. whole[p] = g[p]
    OBVIOUS
  <2>3. ASSUME SelectInSeq(p, IsEnd) # 0 PROVE g[Later(p)] = whole[Later(p)]
    <3>1. Later(p) \in Seq(Bytes) /\ Len(Later(p)) < Len(p)
      BY <2>3, LaterShorter
    <3>2. whole[Later(p)] = part(Len(Later(p)))[Later(p)]
      BY <3>1
    <3>3. Partial(part(Len(Later(p))), Len(Later(p))) /\ Len(Later(p)) \in Nat
      BY <1>1, <3>1
    <3>4. Later(p) \in Short(Len(p)) \cap Short(Len(Later(p)))
      BY <3>1 DEF Short
    <3> HIDE DEF part, whole
    <3>5. QED
      BY <2>1, <3>2, <3>3, <3>4, PartialsAgree
  <2>4. g[p] = Turn(g, p)
    <3>1. p \in Short(Len(p))
      BY <2>1 DEF Short
    <3> HIDE DEF part, whole, g
    <3>2. QED
      BY <2>1, <3>1 DEF Partial
  <2> HIDE DEF part, whole, g
  <2>5. QED
    BY <2>2, <2>3, <2>4, TurnsAgree
<1>3. whole = [p \in Seq(Bytes) |-> Turn(whole, p)]
  BY <1>2
<1> HIDE DEF whole
<1>4. \E g : Total(g)
  BY <1>3 DEF Total
<1>5. Total(CHOOSE g : Total(g))
  BY <1>4, Zenon
<1>6. Total(consume)
  BY <1>5, ConsumeIsTurn, Zenon
<1>7. QED
  BY <1>6 DEF Total

-----------------------------------------------------------------------------
(* What _consume_lines computes, in terms of positions.                     *)

\* The text from i to j is a whole line of p, with its line end.
IsLine(p, i, j) ==
  /\ i \in 1..j /\ j \in 1..(Len(p) - 1)
  /\ \A k \in i..j : p[k] \in Texts
  /\ p[j + 1] \in Ends
  /\ i = 1 \/ p[i - 1] \in Ends

LineStarts(p) == {i \in 1..Len(p) : \E j \in 1..Len(p) : IsLine(p, i, j)}
LinesBehind(p, k) == {i \in LineStarts(p) : i > k}

\* c lists the set S in its order.
Lists(c, S) ==
  /\ c \in Seq(Nat)
  /\ \A n \in 1..Len(c) : c[n] \in S
  /\ \A x \in S : \E n \in 1..Len(c) : c[n] = x
  /\ \A m, n \in 1..Len(c) : m < n => c[m] < c[n]

\* The lines are those of p, in their order.
LinesAt(p, lines, c) ==
  /\ Lists(c, LineStarts(p)) /\ lines \in Seq(Seq(Texts)) /\ Len(lines) = Len(c)
  /\ \A n \in 1..Len(c) : \E j \in 1..Len(p) :
       IsLine(p, c[n], j) /\ lines[n] = SubSeq(p, c[n], j)

\* The lines are those of p that begin behind k.
LinesFrom(p, k, lines, c) ==
  /\ Lists(c, LinesBehind(p, k)) /\ lines \in Seq(Seq(Texts)) /\ Len(lines) = Len(c)
  /\ \A n \in 1..Len(c) : \E j \in 1..Len(p) :
       IsLine(p, c[n], j) /\ lines[n] = SubSeq(p, c[n], j)

\* The rest is the text behind the last line end.
RestAt(p, rest) ==
  /\ rest \in Seq(Texts) /\ Len(rest) <= Len(p)
  /\ rest = SubSeq(p, Len(p) - Len(rest) + 1, Len(p))
  /\ Len(rest) = Len(p) \/ p[Len(p) - Len(rest)] \in Ends

\* Lines of what is left are lines of the whole; the only other one is the first.
LEMMA LineMoves ==
  ASSUME NEW p \in Seq(Bytes), NEW k \in 1..Len(p), p[k] \in Ends,
         NEW i \in Nat, NEW j \in Nat
  PROVE  IsLine(SubSeq(p, k + 1, Len(p)), i, j) <=> i >= 1 /\ IsLine(p, k + i, k + j)
<1> DEFINE q == SubSeq(p, k + 1, Len(p))
<1>1. /\ q \in Seq(Bytes) /\ Len(q) = Len(p) - k /\ Len(p) \in Nat
      /\ \A n \in 1..(Len(p) - k) : q[n] = p[k + n]
  OBVIOUS
<1> HIDE DEF q
<1>2. ASSUME IsLine(q, i, j) PROVE i >= 1 /\ IsLine(p, k + i, k + j)
  <2>1. i \in 1..j /\ j \in 1..(Len(p) - k - 1)
    BY <1>1, <1>2 DEF IsLine
  <2>2. ASSUME NEW n \in (k + i)..(k + j) PROVE n - k \in i..j /\ p[n] = q[n - k]
    <3>1. n - k \in i..j /\ n - k \in 1..(Len(p) - k) /\ k + (n - k) = n
      BY <1>1, <2>1
    <3>2. QED
      BY <1>1, <3>1
  <2>3. \A n \in (k + i)..(k + j) : p[n] \in Texts
    BY <1>2, <2>2 DEF IsLine
  <2>4. p[k + j + 1] \in Ends
    <3>1. q[j + 1] = p[k + (j + 1)] /\ k + (j + 1) = k + j + 1
      BY <1>1, <2>1
    <3>2. QED
      BY <1>2, <3>1 DEF IsLine
  <2>5. p[k + i - 1] \in Ends
    <3>1. CASE i = 1
      BY <3>1
    <3>2. CASE i # 1
      <4>1. i - 1 \in 1..(Len(p) - k) /\ k + (i - 1) = k + i - 1
        BY <2>1, <3>2
      <4>2. q[i - 1] \in Ends
        BY <1>2, <3>2 DEF IsLine
      <4>3. q[i - 1] = p[k + (i - 1)]
        BY <1>1, <4>1
      <4>4. QED
        BY <4>1, <4>2, <4>3
    <3>3. QED
      BY <3>1, <3>2
  <2>6. QED
    BY <1>1, <2>1, <2>3, <2>4, <2>5 DEF IsLine
<1>3. ASSUME i >= 1, IsLine(p, k + i, k + j) PROVE IsLine(q, i, j)
  <2>1. i \in 1..j /\ j \in 1..(Len(p) - k - 1)
    BY <1>1, <1>3 DEF IsLine
  <2>2. \A n \in i..j : k + n \in (k + i)..(k + j) /\ q[n] = p[k + n]
    BY <1>1, <2>1
  <2>3. \A n \in i..j : q[n] \in Texts
    BY <1>3, <2>2 DEF IsLine
  <2>4. q[j + 1] \in Ends
    <3>1. q[j + 1] = p[k + (j + 1)] /\ k + (j + 1) = k + j + 1
      BY <1>1, <2>1
    <3>2. QED
      BY <1>3, <3>1 DEF IsLine
  <2>5. i = 1 \/ q[i - 1] \in Ends
    <3>1. CASE i # 1
      <4>1. i - 1 \in 1..(Len(p) - k) /\ k + (i - 1) = k + i - 1 /\ k + i # 1
        BY <2>1, <3>1
      <4>2. p[k + i - 1] \in Ends
        BY <1>3, <4>1 DEF IsLine
      <4>3. q[i - 1] = p[k + (i - 1)]
        BY <1>1, <4>1
      <4>4. QED
        BY <4>1, <4>2, <4>3
    <3>2. QED
      BY <3>1
  <2>6. QED
    BY <1>1, <2>1, <2>3, <2>4, <2>5 DEF IsLine
<1>4. QED
  BY <1>2, <1>3 DEF q

\* Before what is left there is a line only if the first line end is not the first byte.
LEMMA FirstLine ==
  ASSUME NEW p \in Seq(Bytes), NEW end \in 1..Len(p), NEW k \in end..Len(p),
         \A i \in 1..(end - 1) : p[i] \in Texts, \A i \in end..k : p[i] \in Ends,
         NEW i \in 1..k, NEW j \in Nat
  PROVE  IsLine(p, i, j) <=> i = 1 /\ j = end - 1 /\ end > 1
<1>1. Len(p) \in Nat
  OBVIOUS
<1>2. ASSUME IsLine(p, i, j) PROVE i = 1 /\ j = end - 1 /\ end > 1
  <2>1. i <= j /\ p[i] \in Texts /\ j + 1 <= Len(p) /\ p[j + 1] \in Ends
    BY <1>1, <1>2 DEF IsLine
  <2>2. i < end
    BY <2>1, ByteAssumption
  <2>3. i = 1
    <3>1. CASE i # 1
      <4>1. i - 1 \in 1..(end - 1) /\ p[i - 1] \in Ends
        BY <1>2, <2>2, <3>1 DEF IsLine
      <4>2. QED
        BY <4>1, ByteAssumption
    <3>2. QED
      BY <3>1
  <2>4. j < end
    <3>1. CASE j >= end
      <4>1. p[end] \in Texts /\ p[end] \in Ends
        BY <1>2, <2>2, <3>1 DEF IsLine
      <4>2. QED
        BY <4>1, ByteAssumption
    <3>2. QED
      BY <3>1
  <2>5. j + 1 = end
    <3>1. CASE j + 1 < end
      <4>1. p[j + 1] \in Texts
        BY <3>1
      <4>2. QED
        BY <2>1, <4>1, ByteAssumption
    <3>2. QED
      BY <2>4, <3>1
  <2>6. QED
    BY <2>1, <2>3, <2>5
<1>3. ASSUME i = 1, j = end - 1, end > 1 PROVE IsLine(p, i, j)
  <2>1. j \in 1..(Len(p) - 1) /\ i \in 1..j /\ j + 1 = end
    BY <1>1, <1>3
  <2>2. \A n \in i..j : p[n] \in Texts
    BY <1>3
  <2>3. p[j + 1] \in Ends
    BY <2>1
  <2>4. QED
    BY <1>3, <2>1, <2>2, <2>3 DEF IsLine
<1>4. QED
  BY <1>2, <1>3

\* A part of what is left is a part of the whole.
LEMMA PartOfRest ==
  ASSUME NEW p \in Seq(Bytes), NEW k \in 0..Len(p), NEW i \in 1..(Len(p) - k),
         NEW j \in 1..(Len(p) - k)
  PROVE  SubSeq(SubSeq(p, k + 1, Len(p)), i, j) = SubSeq(p, k + i, k + j)
<1> DEFINE q == SubSeq(p, k + 1, Len(p))
           u == SubSeq(q, i, j)
           v == SubSeq(p, k + i, k + j)
<1>1. /\ q \in Seq(Bytes) /\ Len(q) = Len(p) - k /\ Len(p) \in Nat
      /\ \A n \in 1..(Len(p) - k) : q[n] = p[k + n]
  OBVIOUS
<1>2. /\ u \in Seq(Bytes) /\ Len(u) = IF i <= j THEN j - i + 1 ELSE 0
      /\ \A n \in 1..(j - i + 1) : u[n] = q[i + n - 1]
  <2> HIDE DEF q
  <2> QED BY <1>1
<1>3. /\ v \in Seq(Bytes) /\ Len(v) = IF i <= j THEN j - i + 1 ELSE 0
      /\ \A n \in 1..(j - i + 1) : v[n] = p[k + i + n - 1]
  BY <1>1
<1> HIDE DEF q, u, v
<1>4. \A n \in 1..(j - i + 1) : u[n] = v[n]
  <2> TAKE n \in 1..(j - i + 1)
  <2>1. i + n - 1 \in 1..(Len(p) - k) /\ k + (i + n - 1) = k + i + n - 1
    BY <1>1
  <2>2. QED
    BY <1>1, <1>2, <1>3, <2>1
<1>5. /\ u \in Seq(Bytes) /\ v \in Seq(Bytes) /\ Len(u) = Len(v)
      /\ \A n \in 1..Len(u) : u[n] = v[n]
  <2>1. u \in Seq(Bytes) /\ v \in Seq(Bytes) /\ Len(u) = Len(v)
    BY <1>2, <1>3
  <2>2. Len(u) <= IF i <= j THEN j - i + 1 ELSE 0
    BY <1>2
  <2>3. \A n \in 1..Len(u) : n \in 1..(j - i + 1)
    BY <2>2
  <2>4. QED
    BY <1>4, <2>1, <2>3
<1>6. u = v
  BY <1>5, SeqEqual
<1>7. QED
  BY <1>6 DEF q, u, v

Moved(c, k) == [n \in 1..Len(c) |-> k + c[n]]

\* Where the lines of what is left are in the whole.
LEMMA LinesMove ==
  ASSUME NEW p \in Seq(Bytes), NEW k \in 1..Len(p), p[k] \in Ends,
         NEW lines, NEW c, LinesAt(SubSeq(p, k + 1, Len(p)), lines, c)
  PROVE  LinesFrom(p, k, lines, Moved(c, k))
<1> DEFINE q == SubSeq(p, k + 1, Len(p))
           d == Moved(c, k)
           S == LinesBehind(p, k)
<1>1. q \in Seq(Bytes) /\ Len(q) = Len(p) - k /\ Len(p) \in Nat
  OBVIOUS
<1>2. /\ LinesAt(q, lines, c)
      /\ \A i, j \in Nat : IsLine(q, i, j) <=> i >= 1 /\ IsLine(p, k + i, k + j)
  BY LineMoves
<1> HIDE DEF q
<1>3. /\ c \in Seq(Nat) /\ Len(c) \in Nat
      /\ \A n \in 1..Len(c) : c[n] \in Nat /\ c[n] \in LineStarts(q)
      /\ \A x \in LineStarts(q) : \E n \in 1..Len(c) : c[n] = x
      /\ \A m, n \in 1..Len(c) : m < n => c[m] < c[n]
  <2>1. Lists(c, LineStarts(q))
    BY <1>2 DEF LinesAt
  <2>2. c \in Seq(Nat)
    BY <2>1 DEF Lists
  <2>3. Len(c) \in Nat /\ \A n \in 1..Len(c) : c[n] \in Nat
    BY <2>2
  <2>4. QED
    BY <2>1, <2>3 DEF Lists
<1>4. d \in Seq(Nat) /\ Len(d) = Len(c)
  <2>1. d \in [1..Len(c) -> Nat]
    BY <1>3 DEF Moved
  <2>2. Len(c) \in Nat
    BY <1>3
  <2> HIDE DEF d
  <2>3. QED
    BY <2>1, <2>2
<1>5. \A n \in 1..Len(c) : d[n] = k + c[n]
  BY DEF Moved
<1> HIDE DEF d
<1>6. ASSUME NEW n \in 1..Len(c)
      PROVE  /\ d[n] \in S
             /\ \E j \in 1..Len(p) : IsLine(p, d[n], j) /\ lines[n] = SubSeq(p, d[n], j)
  <2>1. PICK j \in 1..Len(q) : IsLine(q, c[n], j) /\ lines[n] = SubSeq(q, c[n], j)
    BY <1>2 DEF LinesAt
  <2>2. c[n] \in 1..j /\ j \in 1..(Len(p) - k - 1)
    BY <1>1, <2>1 DEF IsLine
  <2>3. IsLine(p, d[n], k + j)
    <3>1. c[n] \in Nat /\ j \in Nat
      BY <1>1, <1>3, <2>1
    <3>2. IsLine(p, k + c[n], k + j)
      BY <1>2, <2>1, <3>1
    <3>3. QED
      BY <1>5, <3>2
  <2>4. SubSeq(q, c[n], j) = SubSeq(p, d[n], k + j)
    <3>1. c[n] \in 1..(Len(p) - k) /\ j \in 1..(Len(p) - k)
      BY <1>1, <2>2
    <3>2. k \in 0..Len(p)
      BY <1>1
    <3>3. SubSeq(q, c[n], j) = SubSeq(p, k + c[n], k + j)
      BY <3>1, <3>2, PartOfRest DEF q
    <3>4. QED
      BY <1>5, <3>3
  <2>5. k + j \in 1..Len(p) /\ d[n] \in 1..Len(p) /\ d[n] > k
    BY <1>1, <1>5, <2>2
  <2>6. QED
    BY <2>1, <2>3, <2>4, <2>5 DEF LineStarts, LinesBehind
<1>7. ASSUME NEW x \in S PROVE \E n \in 1..Len(c) : d[n] = x
  <2>1. PICK j \in 1..Len(p) : IsLine(p, x, j)
    BY DEF LineStarts, LinesBehind
  <2>2. x \in 1..j /\ j \in 1..(Len(p) - 1) /\ x > k
    BY <2>1 DEF IsLine, LinesBehind
  <2>3. /\ x - k \in Nat /\ j - k \in Nat /\ x - k >= 1
        /\ k + (x - k) = x /\ k + (j - k) = j
    BY <1>1, <2>2
  <2>4. IsLine(q, x - k, j - k)
    BY <1>2, <2>1, <2>3
  <2>5. x - k \in 1..Len(q) /\ j - k \in 1..Len(q)
    BY <1>1, <2>2
  <2>6. x - k \in LineStarts(q)
    BY <2>4, <2>5 DEF LineStarts
  <2>7. PICK n \in 1..Len(c) : c[n] = x - k
    BY <1>3, <2>6
  <2>8. QED
    BY <1>5, <2>3, <2>7
<1>8. ASSUME NEW m \in 1..Len(c), NEW n \in 1..Len(c), m < n PROVE d[m] < d[n]
  <2>1. c[m] < c[n] /\ c[m] \in Nat /\ c[n] \in Nat
    BY <1>3, <1>8
  <2>2. d[m] = k + c[m] /\ d[n] = k + c[n]
    BY <1>5
  <2>3. QED
    BY <2>1, <2>2
<1>9. Lists(d, S)
  BY <1>4, <1>6, <1>7, <1>8 DEF Lists
<1>10. lines \in Seq(Seq(Texts)) /\ Len(lines) = Len(d)
  BY <1>2, <1>4 DEF LinesAt
<1>11. LinesFrom(p, k, lines, d)
  BY <1>4, <1>6, <1>9, <1>10 DEF LinesFrom
<1>12. QED
  BY <1>11 DEF d

\* The rest of what is left is the rest of the whole.
LEMMA RestMoves ==
  ASSUME NEW p \in Seq(Bytes), NEW k \in 1..Len(p), p[k] \in Ends,
         NEW rest, RestAt(SubSeq(p, k + 1, Len(p)), rest)
  PROVE  RestAt(p, rest)
<1> DEFINE q == SubSeq(p, k + 1, Len(p))
<1>1. /\ q \in Seq(Bytes) /\ Len(q) = Len(p) - k /\ Len(p) \in Nat
      /\ \A n \in 1..(Len(p) - k) : q[n] = p[k + n]
  OBVIOUS
<1>2. RestAt(q, rest)
  OBVIOUS
<1> HIDE DEF q
<1>3. rest \in Seq(Texts) /\ Len(rest) \in 0..(Len(p) - k)
  BY <1>1, <1>2 DEF RestAt
<1>4. rest = SubSeq(p, Len(p) - Len(rest) + 1, Len(p))
  <2>1. CASE Len(rest) = 0
    BY <1>1, <1>3, <2>1
  <2>2. CASE Len(rest) # 0
    <3>1. /\ Len(q) - Len(rest) + 1 \in 1..(Len(p) - k) /\ Len(q) \in 1..(Len(p) - k)
          /\ k + (Len(q) - Len(rest) + 1) = Len(p) - Len(rest) + 1 /\ k + Len(q) = Len(p)
      BY <1>1, <1>3, <2>2
    <3>2. rest = SubSeq(q, Len(q) - Len(rest) + 1, Len(q))
      BY <1>2 DEF RestAt
    <3> DEFINE a == Len(q) - Len(rest) + 1
               b == Len(q)
    <3>3. a \in 1..(Len(p) - k) /\ b \in 1..(Len(p) - k)
      BY <3>1
    <3> HIDE DEF a, b
    <3>4. SubSeq(q, a, b) = SubSeq(p, k + a, k + b)
      BY <3>3, PartOfRest DEF q
    <3>5. QED
      BY <3>1, <3>2, <3>4 DEF a, b
  <2>3. QED
    BY <2>1, <2>2
<1>5. p[Len(p) - Len(rest)] \in Ends
  <2>1. CASE Len(rest) = Len(q)
    <3>1. Len(p) - Len(rest) = k
      BY <1>1, <2>1
    <3>2. QED
      BY <3>1
  <2>2. CASE Len(rest) # Len(q)
    <3>1. Len(q) - Len(rest) \in 1..(Len(p) - k)
          /\ k + (Len(q) - Len(rest)) = Len(p) - Len(rest)
      <4> DEFINE r == Len(rest)
                 l == Len(q)
      <4>1. r \in 0..l /\ r # l /\ l = Len(p) - k /\ l \in Nat
        BY <1>1, <1>3, <2>2
      <4> HIDE DEF r, l
      <4>2. /\ k \in Nat
            /\ Len(p) \in Nat
            /\ r \in Nat
            /\ r < l
        <5>1. k \in Nat
          BY <1>1
        <5>2. Len(p) \in Nat
          BY <1>1
        <5>3. r \in Nat
          BY <4>1
        <5>4. r < l
          BY <4>1
        <5>5. QED
          BY <5>1, <5>2, <5>3, <5>4
      <4>3. l - r \in 1..(Len(p) - k) /\ k + (l - r) = Len(p) - r
        BY <4>1, <4>2
      <4>4. QED
        BY <4>3 DEF r, l
    <3>2. q[Len(q) - Len(rest)] \in Ends
      BY <1>2, <2>2 DEF RestAt
    <3>3. q[Len(q) - Len(rest)] = p[k + (Len(q) - Len(rest))]
      BY <1>1, <3>1
    <3>4. QED
      BY <3>1, <3>2, <3>3
  <2>3. QED
    BY <2>1, <2>2
<1>6. QED
  BY <1>1, <1>3, <1>4, <1>5 DEF RestAt

\* Without a line end everything is rest.
LEMMA NoLine ==
  ASSUME NEW p \in Seq(Bytes), \A i \in 1..Len(p) : p[i] \in Texts
  PROVE  LinesAt(p, <<>>, <<>>) /\ RestAt(p, p)
<1>1. Len(p) \in Nat /\ p \in Seq(Texts)
  OBVIOUS
<1>2. LineStarts(p) = {}
  <2> SUFFICES ASSUME NEW i \in Nat, NEW j \in 1..Len(p), IsLine(p, i, j) PROVE FALSE
    BY DEF LineStarts
  <2>1. j + 1 \in 1..Len(p) /\ p[j + 1] \in Ends
    BY <1>1 DEF IsLine
  <2>2. QED
    BY <2>1, ByteAssumption
<1>3. LinesAt(p, <<>>, <<>>)
  BY <1>2 DEF LinesAt, Lists
<1>4. RestAt(p, p)
  BY <1>1 DEF RestAt
<1>5. QED
  BY <1>3, <1>4

\* One line in front of others.
LEMMA LineInFront ==
  ASSUME NEW p \in Seq(Bytes), NEW end \in 2..Len(p), NEW k \in end..Len(p),
         \A i \in 1..(end - 1) : p[i] \in Texts, \A i \in end..k : p[i] \in Ends,
         NEW lines, NEW d, LinesFrom(p, k, lines, d)
  PROVE  LinesAt(p, <<SubSeq(p, 1, end - 1)>> \o lines, <<1>> \o d)
<1> DEFINE raw == SubSeq(p, 1, end - 1)
           all == <<raw>> \o lines
           e   == <<1>> \o d
<1>0. /\ lines \in Seq(Seq(Texts)) /\ d \in Seq(Nat) /\ Len(lines) = Len(d)
      /\ Lists(d, LinesBehind(p, k))
      /\ \A n \in 1..Len(d) : \E j \in 1..Len(p) :
           IsLine(p, d[n], j) /\ lines[n] = SubSeq(p, d[n], j)
  BY DEF LinesFrom, Lists
<1>1. Len(p) \in Nat /\ Len(d) \in Nat /\ raw \in Seq(Texts)
  BY <1>0
<1>2. /\ all \in Seq(Seq(Texts)) /\ Len(all) = 1 + Len(d) /\ all[1] = raw
      /\ \A n \in 1..Len(d) : all[n + 1] = lines[n]
  <2> HIDE DEF raw
  <2> QED BY <1>0, <1>1
<1>3. /\ e \in Seq(Nat) /\ Len(e) = 1 + Len(d) /\ e[1] = 1
      /\ \A n \in 1..Len(d) : e[n + 1] = d[n]
  BY <1>0, <1>1
<1> HIDE DEF all, e
<1>4. IsLine(p, 1, end - 1) /\ 1 \in LineStarts(p) /\ end - 1 \in 1..Len(p)
  <2>1. 1 \in 1..k /\ end - 1 \in Nat /\ end - 1 \in 1..Len(p) /\ end \in 1..Len(p)
        /\ 1 \in 1..Len(p) /\ end > 1
    BY <1>1
  <2>2. IsLine(p, 1, end - 1)
    BY <2>1, FirstLine
  <2>3. QED
    BY <2>1, <2>2 DEF LineStarts
<1>5. \A n \in 1..Len(e) : n = 1 \/ (n - 1 \in 1..Len(d) /\ e[n] = d[n - 1]
        /\ all[n] = lines[n - 1])
  <2> TAKE n \in 1..Len(e)
  <2>1. n = 1 \/ (n - 1 \in 1..Len(d) /\ n = (n - 1) + 1)
    BY <1>1, <1>3
  <2>2. QED
    BY <1>2, <1>3, <2>1
<1>6. \A n \in 1..Len(d) : d[n] \in LineStarts(p) /\ d[n] > k /\ d[n] \in Nat
  <2> TAKE n \in 1..Len(d)
  <2>1. d[n] \in LinesBehind(p, k)
    BY <1>0 DEF Lists
  <2>2. d[n] \in Nat
    BY <1>0
  <2>3. QED
    BY <2>1, <2>2 DEF LinesBehind
<1>7. Lists(e, LineStarts(p))
  <2>1. \A n \in 1..Len(e) : e[n] \in LineStarts(p)
    BY <1>3, <1>4, <1>5, <1>6
  <2>2. ASSUME NEW x \in LineStarts(p) PROVE \E n \in 1..Len(e) : e[n] = x
    <3>1. CASE x > k
      <4>1. PICK n \in 1..Len(d) : d[n] = x
        BY <1>0, <3>1 DEF Lists, LinesBehind
      <4>2. n + 1 \in 1..Len(e) /\ e[n + 1] = x
        BY <1>1, <1>3, <4>1
      <4>3. QED
        BY <4>2
    <3>2. CASE ~(x > k)
      <4>1. x \in 1..k /\ \E j \in 1..Len(p) : IsLine(p, x, j)
        BY <3>2 DEF LineStarts
      <4>2. PICK j \in 1..Len(p) : IsLine(p, x, j)
        BY <4>1
      <4>3. end \in 1..Len(p) /\ j \in Nat
        BY <1>1
      <4>4. x = 1
        BY <4>1, <4>2, <4>3, FirstLine
      <4>5. QED
        BY <1>1, <1>3, <4>4
    <3>3. QED
      BY <3>1, <3>2
  <2>3. ASSUME NEW m \in 1..Len(e), NEW n \in 1..Len(e), m < n PROVE e[m] < e[n]
    <3>1. n # 1 /\ n - 1 \in 1..Len(d) /\ e[n] = d[n - 1]
      <4>1. n # 1
        BY <1>1, <1>3, <2>3
      <4>2. QED
        BY <1>5, <4>1
    <3>2. CASE m = 1
      <4>1. d[n - 1] > k /\ d[n - 1] \in Nat
        BY <1>6, <3>1
      <4>2. k \in Nat /\ k >= 2
        BY <1>1
      <4>3. e[m] = 1 /\ e[n] = d[n - 1]
        BY <1>3, <3>1, <3>2
      <4> QED
        BY <4>1, <4>2, <4>3
    <3>3. CASE m # 1
      <4>1. m - 1 \in 1..Len(d) /\ e[m] = d[m - 1] /\ m - 1 < n - 1
        BY <1>5, <2>3, <3>3
      <4>2. QED
        BY <1>0, <3>1, <4>1 DEF Lists
    <3>4. QED
      BY <3>2, <3>3
  <2>4. QED
    BY <1>3, <2>1, <2>2, <2>3 DEF Lists
<1>8. \A n \in 1..Len(e) : \E j \in 1..Len(p) :
        IsLine(p, e[n], j) /\ all[n] = SubSeq(p, e[n], j)
  <2> TAKE n \in 1..Len(e)
  <2>1. CASE n = 1
    BY <1>2, <1>3, <1>4, <2>1
  <2>2. CASE n # 1
    BY <1>0, <1>5, <2>2
  <2>3. QED
    BY <2>1, <2>2
<1>9. LinesAt(p, all, e)
  BY <1>2, <1>3, <1>7, <1>8 DEF LinesAt
<1>10. QED
  BY <1>9 DEF all, e

\* One turn, if the rest of the loop is right.
LEMMA TurnCuts ==
  ASSUME NEW p \in Seq(Bytes), SelectInSeq(p, IsEnd) # 0, NEW g, NEW c,
         LinesAt(Later(p), g[Later(p)].lines, c), RestAt(Later(p), g[Later(p)].rest)
  PROVE  (\E d : LinesAt(p, Turn(g, p).lines, d)) /\ RestAt(p, Turn(g, p).rest)
<1> DEFINE end   == SelectInSeq(p, IsEnd)
           raw   == SubSeq(p, 1, end - 1)
           lines == g[Later(p)].lines
<1>1. /\ end \in 1..Len(p) /\ p[end] \in Ends /\ Len(p) \in Nat
      /\ \A i \in 1..(end - 1) : p[i] \in Texts
  BY FirstEnd
<1>2. PICK k \in end..Len(p) : /\ Later(p) = SubSeq(p, k + 1, Len(p))
                               /\ \A i \in end..k : p[i] \in Ends
  BY LaterIsBehind
<1>3. /\ Turn(g, p).lines = IF raw = <<>> THEN lines ELSE <<raw>> \o lines
      /\ Turn(g, p).rest = g[Later(p)].rest
  BY DEF Turn
<1> HIDE DEF end
<1>4. k \in 1..Len(p) /\ p[k] \in Ends
  BY <1>1, <1>2
<1>5. RestAt(p, Turn(g, p).rest)
  BY <1>2, <1>3, <1>4, RestMoves
<1>6. LinesAt(SubSeq(p, k + 1, Len(p)), lines, c)
  BY <1>2
<1> HIDE DEF lines
<1>7. LinesFrom(p, k, lines, Moved(c, k))
  BY <1>4, <1>6, LinesMove
<1>8. CASE end = 1
  <2>1. raw = <<>>
    BY <1>1, <1>8
  <2>2. ASSUME NEW i \in LineStarts(p) PROVE i > k
    <3>1. PICK j \in 1..Len(p) : i \in 1..Len(p) /\ IsLine(p, i, j)
      BY DEF LineStarts
    <3>2. CASE i \in 1..k
      <4>1. j \in Nat
        BY <1>1
      <4>2. QED
        BY <1>1, <1>2, <1>8, <3>1, <3>2, <4>1, FirstLine
    <3>3. QED
      BY <1>1, <1>4, <3>1, <3>2
  <2>3. LinesBehind(p, k) = LineStarts(p)
    BY <2>2 DEF LinesBehind
  <2>4. LinesAt(p, lines, Moved(c, k))
    BY <1>7, <2>3 DEF LinesAt, LinesFrom
  <2>5. QED
    BY <1>3, <1>5, <2>1, <2>4
<1>9. CASE end # 1
  <2>1. raw # <<>> /\ end \in 2..Len(p)
    <3>1. end \in 2..Len(p) /\ Len(raw) = end - 1
      BY <1>1, <1>9
    <3>2. QED
      BY <3>1
  <2>2. LinesAt(p, <<raw>> \o lines, <<1>> \o Moved(c, k))
    BY <1>1, <1>2, <1>7, <2>1, LineInFront
  <2>3. QED
    BY <1>3, <1>5, <2>1, <2>2
<1>10. QED
  BY <1>8, <1>9

\* _consume_lines takes out the lines, in their order, and leaves the text behind the
\* last line end: the induction over the bytes that are pending.
LEMMA ConsumeCuts ==
  ASSUME NEW p \in Seq(Bytes)
  PROVE  /\ \E c : LinesAt(p, _consume_lines(p).lines, c)
         /\ RestAt(p, _consume_lines(p).rest)
<1> DEFINE Cuts(q) == (\E c : LinesAt(q, consume[q].lines, c))
  /\ RestAt(q, consume[q].rest)
           Bad     == {n \in Nat : \E q \in Seq(Bytes) : Len(q) = n /\ ~Cuts(q)}
<1>1. \A q \in Seq(Bytes) : consume[q] = Turn(consume, q)
  BY ConsumeTurns
<1>2. Bad = {}
  <2> SUFFICES ASSUME Bad # {} PROVE FALSE
    OBVIOUS
  <2>1. Bad \subseteq Nat
    OBVIOUS
  <2>2. \E n \in Bad : \A m \in Bad : n <= m
    <3> HIDE DEF Bad
    <3> QED BY <2>1, SmallestNat
  <2>3. PICK n \in Bad : \A m \in Bad : n <= m
    BY <2>2
  <2>4. PICK q \in Seq(Bytes) : Len(q) = n /\ ~Cuts(q)
    BY <2>3
  <2>5. CASE SelectInSeq(q, IsEnd) = 0
    <3>1. LinesAt(q, <<>>, <<>>) /\ RestAt(q, q)
      BY <2>5, FirstEnd, NoLine
    <3>2. consume[q].lines = <<>> /\ consume[q].rest = q
      <4>1. Turn(consume, q) = [lines |-> <<>>, rest |-> q]
        BY <2>5 DEF Turn
      <4>2. QED
        BY <1>1, <4>1
    <3>3. QED
      BY <2>4, <3>1, <3>2
  <2>6. CASE SelectInSeq(q, IsEnd) # 0
    <3>1. Later(q) \in Seq(Bytes) /\ Len(Later(q)) < Len(q) /\ Len(Later(q)) \in Nat
      BY <2>6, LaterShorter
    <3>2. Cuts(Later(q))
      BY <2>3, <2>4, <3>1
    <3>3. (\E d : LinesAt(q, Turn(consume, q).lines, d))
            /\ RestAt(q, Turn(consume, q).rest)
      BY <2>6, <3>2, TurnCuts
    <3>4. QED
      BY <1>1, <2>4, <3>3
  <2>7. QED
    BY <2>5, <2>6
<1>3. Cuts(p)
  <2>1. Len(p) \in Nat
    OBVIOUS
  <2>2. Len(p) \notin Bad
    BY <1>2
  <2> HIDE DEF Cuts
  <2>3. QED
    BY <2>1, <2>2
<1>4. QED
  BY <1>3 DEF _consume_lines

-----------------------------------------------------------------------------
(* The loops of the exports.  They are folds, and a fold is a recursive     *)
(* function over the sets of positions; it exists for the same reason.      *)

\* One element of s is taken out, and goes with what the others come to.
Gather(g, n, base, F, pick) ==
  [s \in SUBSET (1..n) |-> IF s = {} THEN base ELSE F[pick[s]][g[s \ {pick[s]}]]]

SmallSets(n, k) == {s \in SUBSET (1..n) : Cardinality(s) <= k}

SmallGather(g, n, base, F, pick, k) ==
  g = [s \in SmallSets(n, k) |-> IF s = {} THEN base ELSE F[pick[s]][g[s \ {pick[s]}]]]

\* A choice of an element of every set, the loop's body for every position, and the
\* function.
Picks(pick, n)  == \A s \in SUBSET (1..n) : s # {} => pick[s] \in s
Bodies(F, n, V) == F \in [1..n -> [V -> V]]
Gathers(g, n, base, F, pick, V) ==
  g = Gather(g, n, base, F, pick) /\ g \in [SUBSET (1..n) -> V]

\* The function exists, with its values where those of each step are.
LEMMA GatherExists ==
  ASSUME NEW n \in Nat, NEW V, NEW base \in V, NEW F, Bodies(F, n, V),
         NEW pick, Picks(pick, n)
  PROVE  \E g : Gathers(g, n, base, F, pick, V)
<1> USE DEF Picks, Bodies
<1> DEFINE Small(k) == SmallSets(n, k)
           Right(g, k) == SmallGather(g, n, base, F, pick, k) /\ g \in [Small(k) -> V]
           Bad == {k \in Nat : ~\E g : Right(g, k)}
<1>1. IsFiniteSet(1..n)
  BY FS_Interval
<1>2. ASSUME NEW s \in SUBSET (1..n)
      PROVE  /\ Cardinality(s) \in Nat /\ (Cardinality(s) = 0 <=> s = {})
             /\ Cardinality(s) <= n
  <2>1. IsFiniteSet(s) /\ Cardinality(s) <= Cardinality(1..n)
    BY <1>1, FS_Subset
  <2>2. Cardinality(1..n) = n
    BY FS_Interval
  <2>3. QED
    BY <2>1, <2>2, FS_CardinalityType, FS_EmptySet
<1>3. ASSUME NEW s \in SUBSET (1..n), s # {}
      PROVE  /\ s \ {pick[s]} \in SUBSET (1..n) /\ pick[s] \in 1..n
             /\ Cardinality(s \ {pick[s]}) = Cardinality(s) - 1
  <2>1. IsFiniteSet(s) /\ pick[s] \in s
    BY <1>1, <1>3, FS_Subset
  <2>2. QED
    BY <2>1, FS_RemoveElement
<1>4. ASSUME NEW k \in Nat, NEW s \in Small(k), s # {}
      PROVE  /\ s \ {pick[s]} \in Small(k) /\ pick[s] \in 1..n /\ k > 0
             /\ s \ {pick[s]} \in Small(k - 1)
  <2>1. s \in SUBSET (1..n) /\ Cardinality(s) <= k
    BY DEF SmallSets
  <2>2. Cardinality(s) \in Nat /\ Cardinality(s) # 0
    BY <1>2, <1>4, <2>1
  <2>3. Cardinality(s) - 1 <= k /\ Cardinality(s) - 1 <= k - 1 /\ k > 0
    BY <2>1, <2>2
  <2>4. QED
    BY <1>3, <1>4, <2>1, <2>3 DEF SmallSets
<1>5. \E g : Right(g, 0)
  <2> DEFINE g == [s \in Small(0) |-> base]
  <2>1. ASSUME NEW s \in Small(0) PROVE s = {}
    <3>1. s \in SUBSET (1..n) /\ Cardinality(s) <= 0
      BY DEF SmallSets
    <3>2. Cardinality(s) \in Nat /\ (Cardinality(s) = 0 <=> s = {})
      BY <1>2, <3>1
    <3>3. Cardinality(s) = 0
      BY <3>1, <3>2
    <3>4. QED
      BY <3>2, <3>3
  <2>2. g = [s \in Small(0) |-> IF s = {} THEN base ELSE F[pick[s]][g[s \ {pick[s]}]]]
    BY <2>1
  <2>3. g \in [Small(0) -> V]
    OBVIOUS
  <2> HIDE DEF g
  <2>4. QED
    BY <2>2, <2>3 DEF SmallGather
<1>6. ASSUME NEW k \in Nat, NEW f, Right(f, k) PROVE \E g : Right(g, k + 1)
  <2> DEFINE g == [s \in Small(k + 1) |->
                    IF s = {} THEN base ELSE F[pick[s]][f[s \ {pick[s]}]]]
  <2>1. /\ \A s \in Small(k) : f[s] = IF s = {} THEN base ELSE F[pick[s]][f[s \ {pick[s]}]]
        /\ \A s \in Small(k) : f[s] \in V
    <3>1. f = [s \in Small(k) |-> IF s = {} THEN base ELSE F[pick[s]][f[s \ {pick[s]}]]]
      BY <1>6 DEF SmallGather
    <3>2. f \in [Small(k) -> V]
      BY <1>6
    <3>3. \A s \in Small(k) : f[s] \in V
      BY <3>2
    <3>4. \A s \in Small(k) : f[s] = IF s = {} THEN base ELSE F[pick[s]][f[s \ {pick[s]}]]
      BY <3>1
    <3>5. QED
      BY <3>3, <3>4
  <2>2. ASSUME NEW s \in Small(k) PROVE s \in Small(k + 1)
    <3>1. s \in SUBSET (1..n) /\ Cardinality(s) <= k
      BY DEF SmallSets
    <3>2. Cardinality(s) <= k + 1
      BY <1>2, <3>1
    <3>3. QED
      BY <3>1, <3>2 DEF SmallSets
  <2>3. ASSUME NEW s \in Small(k) PROVE g[s] = f[s]
    BY <2>1, <2>2
  <2>4. ASSUME NEW s \in Small(k + 1), s # {}
        PROVE  s \ {pick[s]} \in Small(k) /\ pick[s] \in 1..n
    <3>1. k + 1 \in Nat /\ (k + 1) - 1 = k
      OBVIOUS
    <3>2. QED
      BY <1>4, <2>4, <3>1
  <2>5. g = [s \in Small(k + 1) |-> IF s = {} THEN base ELSE F[pick[s]][g[s \ {pick[s]}]]]
    BY <2>3, <2>4
  <2>6. ASSUME NEW s \in Small(k + 1) PROVE g[s] \in V
    <3>1. CASE s = {}
      BY <3>1
    <3>2. CASE s # {}
      <4>1. s \ {pick[s]} \in Small(k) /\ pick[s] \in 1..n
        BY <2>4, <3>2
      <4>2. f[s \ {pick[s]}] \in V
        BY <2>1, <4>1
      <4>3. F[pick[s]] \in [V -> V]
        BY <4>1
      <4>4. F[pick[s]][f[s \ {pick[s]}]] \in V
        BY <4>2, <4>3
      <4>5. QED
        BY <3>2, <4>4
    <3>3. QED
      BY <3>1, <3>2
  <2>7. g \in [Small(k + 1) -> V]
    BY <2>6
  <2> HIDE DEF g
  <2>8. QED
    BY <2>5, <2>7 DEF SmallGather
<1> HIDE DEF Right
<1>7. Bad = {}
  <2> SUFFICES ASSUME Bad # {} PROVE FALSE
    OBVIOUS
  <2>1. Bad \subseteq Nat
    OBVIOUS
  <2>2. \E m \in Bad : \A k \in Bad : m <= k
    <3> HIDE DEF Bad
    <3> QED BY <2>1, SmallestNat
  <2>3. PICK m \in Bad : \A k \in Bad : m <= k
    BY <2>2
  <2>4. m # 0 /\ m - 1 \in Nat /\ (m - 1) + 1 = m
    BY <1>5, <2>3
  <2>5. m - 1 \notin Bad
    BY <2>3, <2>4
  <2>6. \E f : Right(f, m - 1)
    BY <2>4, <2>5
  <2>7. QED
    BY <1>6, <2>3, <2>4, <2>6
<1>8. PICK g : Right(g, n)
  BY <1>7
<1>9. Small(n) = SUBSET (1..n)
  BY <1>2 DEF SmallSets
<1>10. QED
  BY <1>8, <1>9 DEF Right, SmallGather, Gather, Gathers

\* The positions up to k, and those from k on, one at a time.
LEMMA LastOf ==
  ASSUME NEW k \in Nat, k >= 1
  PROVE  1..k # {} /\ Max(1..k) = k /\ (1..k) \ {k} = 1..(k - 1)
<1>1. k \in 1..k /\ \A y \in 1..k : k >= y
  OBVIOUS
<1>2. \A x \in 1..k : (\A y \in 1..k : x >= y) => x = k
  BY <1>1
<1>3. Max(1..k) = k
  BY <1>1, <1>2 DEF Max
<1>4. QED
  BY <1>1, <1>3

\* The positions from k on, without the first of them.
LEMMA FirstOfRest ==
  ASSUME NEW n \in Nat, NEW k \in Nat, k >= 1, k <= n
  PROVE  k..n # {} /\ Min(k..n) = k /\ (k..n) \ {k} = (k + 1)..n
<1>1. k \in k..n /\ \A y \in k..n : k <= y
  OBVIOUS
<1>2. \A x \in k..n : (\A y \in k..n : x <= y) => x = k
  BY <1>1
<1>3. Min(k..n) = k
  BY <1>1, <1>2 DEF Min
<1>4. QED
  BY <1>1, <1>3

\* Max and Min take an element of a set of positions.
LEMMA EndsOfSet ==
  ASSUME NEW n \in Nat, NEW s \in SUBSET (1..n), s # {}
  PROVE  Max(s) \in s /\ Min(s) \in s
<1>1. s \subseteq Nat
  OBVIOUS
<1>2. \E m \in s : \A y \in s : m <= y
  BY <1>1, SmallestNat
<1>3. Min(s) \in s
  BY <1>2 DEF Min
<1> DEFINE U == {i \in 0..n : n - i \in s}
<1>4. U # {} /\ U \subseteq Nat
  <2>1. PICK x \in s : x \in 1..n
    OBVIOUS
  <2>2. n - x \in 0..n /\ n - (n - x) = x
    BY <2>1
  <2>3. n - x \in U
    BY <2>2
  <2>4. 0..n \subseteq Nat
    OBVIOUS
  <2>5. U \subseteq Nat
    BY <2>4
  <2>6. QED
    BY <2>3, <2>5
<1>5. \E m \in U : \A y \in U : m <= y
  <2> HIDE DEF U
  <2> QED BY <1>4, SmallestNat
<1>6. PICK m \in U : \A y \in U : m <= y
  BY <1>5
<1>7. ASSUME NEW y \in s PROVE n - m >= y
  <2>1. n - y \in 0..n /\ n - (n - y) = y /\ y \in Nat /\ m \in Nat
    OBVIOUS
  <2>2. n - y \in U
    BY <2>1
  <2>3. m <= n - y
    BY <1>6, <2>2
  <2>4. QED
    BY <2>1, <2>3
<1>8. n - m \in s
  OBVIOUS
<1>9. \E x \in s : \A y \in s : x >= y
  BY <1>7, <1>8
<1>10. Max(s) \in s
  BY <1>9 DEF Max
<1>11. QED
  BY <1>3, <1>10

\* Step by step up to n.
LEMMA StepByStep ==
  ASSUME NEW n \in Nat, NEW G, 0 \in G, \A k \in 1..n : k - 1 \in G => k \in G
  PROVE  0..n \subseteq G
<1> DEFINE Bad == {k \in 0..n : k \notin G}
<1>1. SUFFICES ASSUME Bad # {} PROVE FALSE
  OBVIOUS
<1>2. \E k \in Bad : \A j \in Bad : k <= j
  <2>1. Bad \subseteq Nat
    OBVIOUS
  <2> HIDE DEF Bad
  <2> QED BY <1>1, <2>1, SmallestNat
<1>3. PICK k \in Bad : \A j \in Bad : k <= j
  BY <1>2
<1>4. k \in 1..n /\ k \notin G
  BY <1>3
<1>5. k - 1 \in 0..n /\ ~(k <= k - 1)
  BY <1>4
<1>6. k - 1 \in G
  BY <1>3, <1>5
<1>7. QED
  BY <1>4, <1>6

-----------------------------------------------------------------------------
(* The size of records: a sum, taken from the first record on.              *)

Sized(rs) == \A k \in 1..Len(rs) : ItemSize(rs[k]) \in Nat

Sums(f, rs) ==
  /\ f \in [0..Len(rs) -> Int] /\ f[0] = 0
  /\ \A k \in 1..Len(rs) : f[k] = f[k - 1] + ItemSize(rs[k])

SizeStep(g, rs) ==
  g = [s \in SUBSET DOMAIN rs |->
         IF s = {} THEN 0 ELSE g[s \ {Max(s)}] + ItemSize(rs[Max(s)])]

SizeFun(rs) == CHOOSE g : SizeStep(g, rs)

\* The fold of SizeOf is that function.
LEMMA SizeIsFun == ASSUME NEW rs PROVE SizeOf(rs) = SizeFun(rs)[DOMAIN rs]
BY DEF SizeOf, FoldLeft, MapThenFoldSet, SizeFun, SizeStep

\* And the function exists.
LEMMA SizeSteps ==
  ASSUME NEW R, NEW rs \in Seq(R), Sized(rs)
  PROVE  SizeStep(SizeFun(rs), rs)
<1> DEFINE n    == Len(rs)
           F    == [i \in 1..n |-> [v \in Nat |-> v + ItemSize(rs[i])]]
           pick == [s \in SUBSET (1..n) |-> Max(s)]
<1>1. n \in Nat /\ DOMAIN rs = 1..n
  OBVIOUS
<1>2. ASSUME NEW s \in SUBSET (1..n), s # {} PROVE pick[s] \in s /\ pick[s] = Max(s)
  BY <1>1, <1>2, EndsOfSet
<1>3. F \in [1..n -> [Nat -> Nat]]
  BY DEF Sized
<1>4. \E g : Gathers(g, n, 0, F, pick, Nat)
  <2>1. Picks(pick, n) /\ Bodies(F, n, Nat)
    <3> HIDE DEF F, pick, n
    <3> QED BY <1>2, <1>3 DEF Picks, Bodies
  <2> HIDE DEF F, pick, n
  <2>2. QED
    BY <1>1, <2>1, GatherExists
<1>5. PICK g : g = Gather(g, n, 0, F, pick) /\ g \in [SUBSET (1..n) -> Nat]
  BY <1>4 DEF Gathers
<1>6. ASSUME NEW s \in SUBSET (1..n), s # {}
      PROVE  F[pick[s]][g[s \ {pick[s]}]] = g[s \ {Max(s)}] + ItemSize(rs[Max(s)])
  <2>1. pick[s] \in 1..n /\ pick[s] = Max(s)
    BY <1>2, <1>6
  <2>2. g[s \ {pick[s]}] \in Nat
    BY <1>5
  <2> HIDE DEF pick
  <2>3. QED
    BY <2>1, <2>2
<1>7. SizeStep(g, rs)
  <2>1. g = [s \in SUBSET (1..n) |->
               IF s = {} THEN 0 ELSE g[s \ {Max(s)}] + ItemSize(rs[Max(s)])]
    <3> HIDE DEF F, pick
    <3> QED BY <1>5, <1>6 DEF Gather
  <2>2. QED
    BY <1>1, <2>1 DEF SizeStep
<1>8. QED
  BY <1>7 DEF SizeFun

\* SizeOf is the last of the sums.
LEMMA SumsExist ==
  ASSUME NEW R, NEW rs \in Seq(R), Sized(rs)
  PROVE  \E f : Sums(f, rs) /\ SizeOf(rs) = f[Len(rs)]
<1> DEFINE n == Len(rs)
           g == SizeFun(rs)
           f == [k \in 0..n |-> g[1..k]]
<1>1. n \in Nat /\ DOMAIN rs = 1..n
  OBVIOUS
<1>2. SizeStep(g, rs)
  BY SizeSteps
<1> HIDE DEF g, n
<1>3. g[{}] = 0
  BY <1>2 DEF SizeStep
<1>4. ASSUME NEW k \in 1..n PROVE g[1..k] = g[1..(k - 1)] + ItemSize(rs[k])
  <2>1. k \in Nat /\ k >= 1 /\ 1..k \in SUBSET (1..n)
    BY <1>1
  <2>2. 1..k # {} /\ Max(1..k) = k /\ (1..k) \ {k} = 1..(k - 1)
    BY <2>1, LastOf
  <2>3. g[1..k] = IF 1..k = {} THEN 0
                  ELSE g[(1..k) \ {Max(1..k)}] + ItemSize(rs[Max(1..k)])
    BY <1>1, <1>2, <2>1 DEF SizeStep
  <2>4. QED
    BY <2>2, <2>3
<1>5. f[0] = 0
  <2>1. 1..0 = {} /\ 0 \in 0..n
    BY <1>1
  <2>2. QED
    BY <1>3, <2>1
<1>6. ASSUME NEW k \in 1..n PROVE f[k] = f[k - 1] + ItemSize(rs[k])
  <2>1. k \in 0..n /\ k - 1 \in 0..n
    BY <1>1
  <2>2. QED
    BY <1>4, <2>1
<1>7. f \in [0..n -> Int]
  <2> DEFINE G == {k \in 0..n : f[k] \in Int}
  <2>1. 0 \in G
    BY <1>1, <1>5
  <2>2. ASSUME NEW k \in 1..n, k - 1 \in G PROVE k \in G
    <3>1. ItemSize(rs[k]) \in Nat
      BY DEF Sized, n
    <3>2. f[k - 1] \in Int
      BY <2>2
    <3> HIDE DEF f
    <3>3. f[k] \in Int
      BY <1>6, <3>1, <3>2
    <3>4. QED
      BY <1>1, <3>3
  <2>3. 0..n \subseteq G
    <3> HIDE DEF G
    <3> QED BY <1>1, <2>1, <2>2, StepByStep
  <2>4. \A k \in 0..n : f[k] \in Int
    BY <2>3
  <2>5. QED
    BY <2>4
<1>8. SizeOf(rs) = f[n]
  <2>1. SizeOf(rs) = g[1..n]
    BY <1>1, SizeIsFun DEF g
  <2>2. QED
    BY <1>1, <2>1
<1>9. Sums(f, rs)
  <2> HIDE DEF f
  <2> QED BY <1>5, <1>6, <1>7 DEF Sums, n
<1>10. QED
  BY <1>8, <1>9 DEF n

\* There is only one such sum.
LEMMA SumsAreSize ==
  ASSUME NEW R, NEW rs \in Seq(R), Sized(rs), NEW f, Sums(f, rs)
  PROVE  SizeOf(rs) = f[Len(rs)]
<1> DEFINE n == Len(rs)
<1>1. PICK h : Sums(h, rs) /\ SizeOf(rs) = h[Len(rs)]
  BY SumsExist
<1> DEFINE G == {k \in 0..n : f[k] = h[k]}
<1>2. n \in Nat
  OBVIOUS
<1>3. 0 \in G
  BY <1>1, <1>2 DEF Sums
<1>4. ASSUME NEW k \in 1..n, k - 1 \in G PROVE k \in G
  BY <1>1, <1>4 DEF Sums
<1>5. 0..n \subseteq G
  <2> HIDE DEF G, n
  <2> QED BY <1>2, <1>3, <1>4, StepByStep
<1>6. n \in G
  BY <1>2, <1>5
<1>7. QED
  BY <1>1, <1>6

\* The sum of a part is a difference.
LEMMA SizeOfPart ==
  ASSUME NEW R, NEW rs \in Seq(R), Sized(rs), NEW f, Sums(f, rs),
         NEW j \in 0..Len(rs), NEW i \in 0..j
  PROVE  SizeOf(SubSeq(rs, i + 1, j)) = f[j] - f[i]
<1> DEFINE q == SubSeq(rs, i + 1, j)
           h == [k \in 0..(j - i) |-> f[i + k] - f[i]]
<1>1. i \in Nat /\ j \in Nat /\ i <= j /\ Len(rs) \in Nat /\ j <= Len(rs)
  OBVIOUS
<1>2. q \in Seq(R) /\ Len(q) = j - i /\ \A k \in 1..(j - i) : q[k] = rs[i + k]
  <2>1. ASSUME NEW k \in 1..(j - i) PROVE (i + 1) + k - 1 = i + k
    BY <1>1
  <2>2. QED
    BY <1>1, <2>1
<1> HIDE DEF q
<1>3. ASSUME NEW k \in 0..(j - i) PROVE i + k \in 0..Len(rs)
  BY <1>1
<1>4. ASSUME NEW k \in 1..(j - i)
      PROVE  i + k \in 1..Len(rs) /\ (i + k) - 1 = i + (k - 1)
             /\ k \in 0..(j - i) /\ k - 1 \in 0..(j - i)
  BY <1>1
<1>5. Sized(q)
  BY <1>2, <1>4 DEF Sized
<1>6. \A k \in 0..Len(rs) : f[k] \in Int
  BY DEF Sums
<1>7. h \in [0..Len(q) -> Int]
  BY <1>1, <1>2, <1>3, <1>6
<1>8. h[0] = 0
  <2>1. 0 \in 0..(j - i) /\ i + 0 = i /\ f[i] \in Int
    BY <1>1, <1>6
  <2>2. QED
    BY <2>1
<1>9. ASSUME NEW k \in 1..Len(q) PROVE h[k] = h[k - 1] + ItemSize(q[k])
  <2>1. k \in 1..(j - i)
    BY <1>2
  <2>2. f[i + k] = f[i + (k - 1)] + ItemSize(rs[i + k])
    BY <1>4, <2>1 DEF Sums
  <2>3. /\ f[i + (k - 1)] \in Int /\ f[i] \in Int
        /\ ItemSize(rs[i + k]) \in Int
    <3>1. i + (k - 1) \in 0..Len(rs) /\ i \in 0..Len(rs) /\ i + k \in 1..Len(rs)
      BY <1>1, <1>3, <1>4, <2>1
    <3>2. QED
      BY <1>6, <3>1 DEF Sized
  <2>4. h[k] = f[i + k] - f[i] /\ h[k - 1] = f[i + (k - 1)] - f[i]
    BY <1>4, <2>1
  <2>5. q[k] = rs[i + k]
    BY <1>2, <2>1
  <2> HIDE DEF h
  <2>6. QED
    BY <2>2, <2>3, <2>4, <2>5
<1>10. Sums(h, q)
  <2> HIDE DEF h
  <2> QED BY <1>7, <1>8, <1>9 DEF Sums
<1>11. SizeOf(q) = h[Len(q)]
  <2> HIDE DEF h
  <2> QED BY <1>2, <1>5, <1>10, SumsAreSize
<1>12. h[Len(q)] = f[j] - f[i]
  <2>1. j - i \in 0..(j - i) /\ i + (j - i) = j
    BY <1>1
  <2>2. QED
    BY <1>2, <2>1
<1>13. QED
  BY <1>11, <1>12 DEF q

\* A sum grows.
LEMMA SumsGrow ==
  ASSUME NEW R, NEW rs \in Seq(R), Sized(rs), NEW f, Sums(f, rs),
         NEW k \in 1..Len(rs)
  PROVE  f[k - 1] <= f[k]
<1>1. k - 1 \in 0..Len(rs)
  OBVIOUS
<1>2. f[k - 1] \in Int /\ ItemSize(rs[k]) \in Nat
  BY <1>1 DEF Sums, Sized
<1>3. f[k] = f[k - 1] + ItemSize(rs[k])
  BY DEF Sums
<1>4. QED
  BY <1>2, <1>3

-----------------------------------------------------------------------------
(* The loop of the capture's export.                                        *)

Nothing == [messages |-> <<>>, size |-> 0, full |-> FALSE]

FillStep(g, rs) ==
  g = [s \in SUBSET DOMAIN rs |->
         IF s = {} THEN Nothing ELSE Fill(g[s \ {Max(s)}], rs[Max(s)])]

FillFun(rs) == CHOOSE g : FillStep(g, rs)

\* The states of the loop after each of the records.
Fills(f, rs) ==
  /\ f[0] = Nothing
  /\ \A k \in 1..Len(rs) : f[k] = Fill(f[k - 1], rs[k])

\* The fold of the export is that function.
LEMMA FillIsFun ==
  ASSUME NEW rs
  PROVE  FoldLeft(Fill, [messages |-> <<>>, size |-> 0, full |-> FALSE], rs)
           = FillFun(rs)[DOMAIN rs]
BY DEF FoldLeft, MapThenFoldSet, FillFun, FillStep, Nothing

\* And the function exists.
LEMMA FillSteps ==
  ASSUME NEW R, NEW rs \in Seq(R), Sized(rs)
  PROVE  FillStep(FillFun(rs), rs)
<1> DEFINE n    == Len(rs)
           V    == [messages : Seq(R), size : Nat, full : BOOLEAN]
           F    == [i \in 1..n |-> [v \in V |-> Fill(v, rs[i])]]
           pick == [s \in SUBSET (1..n) |-> Max(s)]
<1>1. n \in Nat /\ DOMAIN rs = 1..n
  OBVIOUS
<1>2. ASSUME NEW s \in SUBSET (1..n), s # {} PROVE pick[s] \in s /\ pick[s] = Max(s)
  BY <1>1, <1>2, EndsOfSet
<1>3. ASSUME NEW i \in 1..n, NEW v \in V PROVE Fill(v, rs[i]) \in V
  <2>1. rs[i] \in R /\ ItemSize(rs[i]) \in Nat
    BY DEF Sized
  <2> DEFINE r == rs[i]
  <2> HIDE DEF r
  <2>2. r \in R /\ ItemSize(r) \in Nat
    BY <2>1 DEF r
  <2>3. /\ [v EXCEPT !.full = TRUE] \in V
        /\ [v EXCEPT !.messages = Append(@, r), !.size = @ + ItemSize(r)] \in V
    <3> DEFINE more == Append(v.messages, r)
               size == v.size + ItemSize(r)
    <3>1. more \in Seq(R) /\ size \in Nat
      BY <2>2
    <3> HIDE DEF more, size
    <3>2. [v EXCEPT !.messages = more, !.size = size] \in V
      BY <3>1
    <3>3. [v EXCEPT !.full = TRUE] \in V
      OBVIOUS
    <3>4. QED
      BY <3>2, <3>3 DEF more, size
  <2>4. Fill(v, r) \in V
    BY <2>3 DEF Fill
  <2>5. QED
    BY <2>4 DEF r
<1>4. Nothing \in V
  BY DEF Nothing
<1>5. \E g : Gathers(g, n, Nothing, F, pick, V)
  <2> HIDE DEF V
  <2>1. Bodies(F, n, V)
    BY <1>3 DEF Bodies
  <2>2. Picks(pick, n)
    <3> HIDE DEF pick
    <3> QED BY <1>2 DEF Picks
  <2> HIDE DEF F, pick, n
  <2>3. QED
    BY <1>1, <1>4, <2>1, <2>2, GatherExists
<1> HIDE DEF V
<1>6. PICK g : g = Gather(g, n, Nothing, F, pick) /\ g \in [SUBSET (1..n) -> V]
  BY <1>5 DEF Gathers
<1>7. ASSUME NEW s \in SUBSET (1..n), s # {}
      PROVE  F[pick[s]][g[s \ {pick[s]}]] = Fill(g[s \ {Max(s)}], rs[Max(s)])
  <2>1. pick[s] \in 1..n /\ pick[s] = Max(s)
    BY <1>2, <1>7
  <2>2. g[s \ {pick[s]}] \in V
    BY <1>6
  <2> HIDE DEF pick
  <2>3. QED
    BY <2>1, <2>2
<1>8. g = [s \in SUBSET (1..n) |->
             IF s = {} THEN Nothing ELSE Fill(g[s \ {Max(s)}], rs[Max(s)])]
  <2> HIDE DEF F, pick
  <2> QED BY <1>6, <1>7 DEF Gather
<1>9. FillStep(g, rs)
  BY <1>1, <1>8 DEF FillStep
<1>10. QED
  BY <1>9 DEF FillFun

\* Its result is the last of the states.
LEMMA FillsExist ==
  ASSUME NEW R, NEW rs \in Seq(R), Sized(rs)
  PROVE  \E f : Fills(f, rs) /\ FillFun(rs)[DOMAIN rs] = f[Len(rs)]
<1> DEFINE n == Len(rs)
           g == FillFun(rs)
           f == [k \in 0..n |-> g[1..k]]
<1>1. n \in Nat /\ DOMAIN rs = 1..n
  OBVIOUS
<1>2. FillStep(g, rs)
  BY FillSteps
<1> HIDE DEF g, n
<1>3. g[{}] = Nothing
  BY <1>2 DEF FillStep
<1>4. ASSUME NEW k \in 1..n PROVE g[1..k] = Fill(g[1..(k - 1)], rs[k])
  <2>1. k \in Nat /\ k >= 1 /\ 1..k \in SUBSET (1..n)
    BY <1>1
  <2>2. 1..k # {} /\ Max(1..k) = k /\ (1..k) \ {k} = 1..(k - 1)
    BY <2>1, LastOf
  <2>3. g[1..k] = IF 1..k = {} THEN Nothing
                  ELSE Fill(g[(1..k) \ {Max(1..k)}], rs[Max(1..k)])
    BY <1>1, <1>2, <2>1 DEF FillStep
  <2>4. QED
    BY <2>2, <2>3
<1>5. f[0] = Nothing
  <2>1. 1..0 = {} /\ 0 \in 0..n
    BY <1>1
  <2>2. QED
    BY <1>3, <2>1
<1>6. ASSUME NEW k \in 1..n PROVE f[k] = Fill(f[k - 1], rs[k])
  <2>1. k \in 0..n /\ k - 1 \in 0..n
    BY <1>1
  <2>2. QED
    BY <1>4, <2>1
<1>7. g[1..n] = f[n]
  BY <1>1
<1>8. Fills(f, rs)
  <2> HIDE DEF f
  <2> QED BY <1>5, <1>6 DEF Fills, n
<1>9. QED
  BY <1>1, <1>7, <1>8 DEF n, g

\* After k records: an unbroken run from the first on, whole as long as it is not full.
Filled(v, k, rs, f) ==
  \E m \in 0..k :
    /\ v.messages = SubSeq(rs, 1, m) /\ v.size = f[m] /\ f[m] <= MaxExport
    /\ v.full \in BOOLEAN
    /\ v.full => m < k /\ f[m + 1] > MaxExport
    /\ ~v.full => m = k
    /\ v = [messages |-> v.messages, size |-> v.size, full |-> v.full]

\* One record more keeps it so.
LEMMA FillsOn ==
  ASSUME NEW R, NEW rs \in Seq(R), Sized(rs), NEW f, Sums(f, rs),
         NEW k \in 1..Len(rs), NEW v, Filled(v, k - 1, rs, f)
  PROVE  Filled(Fill(v, rs[k]), k, rs, f)
<1> DEFINE r == rs[k]
           w == Fill(v, r)
<1>1. PICK m \in 0..(k - 1) :
        /\ v.messages = SubSeq(rs, 1, m) /\ v.size = f[m] /\ f[m] <= MaxExport
        /\ v.full \in BOOLEAN
        /\ v.full => m < k - 1 /\ f[m + 1] > MaxExport
        /\ ~v.full => m = k - 1
        /\ v = [messages |-> v.messages, size |-> v.size, full |-> v.full]
  BY DEF Filled
<1>2. /\ k \in Nat /\ m \in Nat /\ m \in 0..k /\ m < k /\ Len(rs) \in Nat
      /\ k <= Len(rs) /\ k \in 0..k /\ k - 1 \in 0..Len(rs) /\ k \in 0..Len(rs)
  OBVIOUS
<1>3. f[k] = f[k - 1] + ItemSize(r) /\ f[k] \in Int /\ MaxExport \in Int
  BY <1>2, ExportAssumption DEF Sums
<1> HIDE DEF r
<1>4. CASE v.full
  <2>1. w = [v EXCEPT !.full = TRUE]
    BY <1>4 DEF Fill
  <2>2. w.messages = v.messages /\ w.size = v.size /\ w.full = TRUE
        /\ w = [messages |-> w.messages, size |-> w.size, full |-> w.full]
    BY <1>1, <2>1
  <2> HIDE DEF w
  <2>3. QED
    BY <1>1, <1>2, <1>4, <2>2 DEF Filled, w, r
<1>5. CASE ~v.full /\ v.size + ItemSize(r) > MaxExport
  <2>1. w = [v EXCEPT !.full = TRUE]
    BY <1>5 DEF Fill
  <2>2. w.messages = v.messages /\ w.size = v.size /\ w.full = TRUE
        /\ w = [messages |-> w.messages, size |-> w.size, full |-> w.full]
    BY <1>1, <2>1
  <2> HIDE DEF w
  <2>3. m = k - 1 /\ m + 1 = k
    BY <1>1, <1>2, <1>5
  <2>4. f[m + 1] > MaxExport
    BY <1>1, <1>3, <1>5, <2>3
  <2>5. QED
    BY <1>1, <1>2, <2>2, <2>4 DEF Filled, w, r
<1>6. CASE ~v.full /\ ~(v.size + ItemSize(r) > MaxExport)
  <2>1. w = [v EXCEPT !.messages = Append(@, r), !.size = @ + ItemSize(r)]
    BY <1>6 DEF Fill
  <2>2. /\ w.messages = Append(v.messages, r) /\ w.size = v.size + ItemSize(r)
        /\ w.full = v.full
        /\ w = [messages |-> w.messages, size |-> w.size, full |-> w.full]
    BY <1>1, <2>1
  <2> HIDE DEF w
  <2>3. m = k - 1
    BY <1>1, <1>6
  <2>4. w.size = f[k] /\ f[k] <= MaxExport
    BY <1>1, <1>3, <1>6, <2>2, <2>3
  <2>5. w.messages = SubSeq(rs, 1, k)
    <3>1. Append(SubSeq(rs, 1, k - 1), rs[k]) = SubSeq(rs, 1, k)
      <4> DEFINE u == Append(SubSeq(rs, 1, k - 1), rs[k])
                 t == SubSeq(rs, 1, k)
      <4>1. /\ SubSeq(rs, 1, k - 1) \in Seq(R) /\ Len(SubSeq(rs, 1, k - 1)) = k - 1
            /\ \A i \in 1..(k - 1) : SubSeq(rs, 1, k - 1)[i] = rs[i]
        BY <1>2
      <4>2. t \in Seq(R) /\ Len(t) = k /\ \A i \in 1..k : t[i] = rs[i]
        BY <1>2
      <4>3. u \in Seq(R) /\ Len(u) = k /\ \A i \in 1..k : u[i] = rs[i]
        BY <1>2, <4>1
      <4>4. u \in Seq(R) /\ t \in Seq(R) /\ Len(u) = Len(t)
            /\ \A i \in 1..Len(u) : u[i] = t[i]
        BY <4>2, <4>3
      <4> HIDE DEF u, t
      <4>5. u = t
        BY <4>4, SeqEqual
      <4>6. QED
        BY <4>5 DEF u, t
    <3>2. QED
      BY <1>1, <2>2, <2>3, <3>1 DEF r
  <2>6. QED
    BY <1>1, <1>2, <1>6, <2>2, <2>4, <2>5 DEF Filled, w, r
<1>7. QED
  BY <1>1, <1>4, <1>5, <1>6

\* What the loop ends with.
LEMMA FillEnds ==
  ASSUME NEW R, NEW rs \in Seq(R), Sized(rs), NEW f, Sums(f, rs)
  PROVE  Filled(FoldLeft(Fill, [messages |-> <<>>, size |-> 0, full |-> FALSE], rs),
                Len(rs), rs, f)
<1> DEFINE n == Len(rs)
<1>1. PICK h : Fills(h, rs) /\ FillFun(rs)[DOMAIN rs] = h[n]
  BY FillsExist
<1> DEFINE G == {k \in 0..n : Filled(h[k], k, rs, f)}
<1>2. n \in Nat
  OBVIOUS
<1>3. 0 \in G
  <2>1. h[0] = Nothing /\ f[0] = 0 /\ 0 <= MaxExport
    BY <1>1, ExportAssumption DEF Fills, Sums
  <2>2. SubSeq(rs, 1, 0) = <<>> /\ 0 \in 0..0
    BY <1>2
  <2>3. Filled(Nothing, 0, rs, f)
    BY <2>1, <2>2 DEF Filled, Nothing
  <2>4. QED
    BY <1>2, <2>1, <2>3
<1>4. ASSUME NEW k \in 1..n, k - 1 \in G PROVE k \in G
  <2>1. Filled(h[k - 1], k - 1, rs, f)
    BY <1>4
  <2>2. h[k] = Fill(h[k - 1], rs[k])
    BY <1>1 DEF Fills
  <2>3. Filled(h[k], k, rs, f)
    BY <2>1, <2>2, FillsOn
  <2>4. QED
    BY <1>2, <2>3
<1>5. 0..n \subseteq G
  <2> HIDE DEF G, n
  <2> QED BY <1>2, <1>3, <1>4, StepByStep
<1>6. Filled(h[n], n, rs, f)
  BY <1>2, <1>5
<1>7. QED
  BY <1>1, <1>6, FillIsFun

-----------------------------------------------------------------------------
(* The newest records.                                                      *)

\* The newest of a list.
LEMMA NewestIs ==
  ASSUME NEW R, NEW s \in Seq(R), NEW n \in Nat
  PROVE  /\ Newest(s, n) \in Seq(R)
         /\ Len(Newest(s, n)) = IF Len(s) > n THEN n ELSE Len(s)
         /\ \A i \in 1..Len(Newest(s, n)) :
              Newest(s, n)[i] = s[(Len(s) - Len(Newest(s, n))) + i]
<1> DEFINE m == IF Len(s) > n THEN Len(s) - n ELSE 0
           u == SubSeq(s, m + 1, Len(s))
<1>1. /\ m \in Nat /\ m <= Len(s) /\ Len(s) \in Nat
      /\ Len(s) - m = IF Len(s) > n THEN n ELSE Len(s)
  OBVIOUS
<1>2. Newest(s, n) = u
  BY DEF Newest
<1> HIDE DEF m
<1>3. u \in Seq(R) /\ Len(u) = Len(s) - m /\ \A i \in 1..(Len(s) - m) : u[i] = s[m + i]
  BY <1>1
<1> HIDE DEF u
<1>4. Len(s) - Len(u) = m
  BY <1>1, <1>3
<1>5. QED
  BY <1>1, <1>2, <1>3, <1>4


\* As many as there are.
LEMMA NewestIsPart ==
  ASSUME NEW R, NEW rs \in Seq(R), NEW n \in 0..Len(rs)
  PROVE  /\ Newest(rs, n) = SubSeq(rs, (Len(rs) - n) + 1, Len(rs))
         /\ Newest(rs, n) \in Seq(R) /\ Len(Newest(rs, n)) = n
         /\ \A i \in 1..n : Newest(rs, n)[i] = rs[(Len(rs) - n) + i]
<1>1. Len(rs) \in Nat /\ n \in Nat /\ n <= Len(rs)
  OBVIOUS
<1>2. (IF Len(rs) > n THEN Len(rs) - n ELSE 0) = Len(rs) - n
  BY <1>1
<1>3. Newest(rs, n) = SubSeq(rs, (Len(rs) - n) + 1, Len(rs))
  BY <1>2 DEF Newest
<1>4. Newest(rs, n) \in Seq(R) /\ Len(Newest(rs, n)) = n
  BY <1>1, NewestIs
<1>5. QED
  BY <1>1, <1>3, <1>4, NewestIs

\* More than there are.
LEMMA NewestIsWhole ==
  ASSUME NEW R, NEW rs \in Seq(R), NEW n \in Nat, Len(rs) <= n
  PROVE  Newest(rs, n) = rs
<1> DEFINE u == Newest(rs, n)
<1>1. Len(rs) \in Nat /\ ~(Len(rs) > n)
  OBVIOUS
<1>2. u \in Seq(R) /\ Len(u) = Len(rs)
      /\ \A i \in 1..Len(u) : u[i] = rs[(Len(rs) - Len(u)) + i]
  BY <1>1, NewestIs
<1>3. \A i \in 1..Len(rs) : (Len(rs) - Len(rs)) + i = i
  BY <1>1
<1> HIDE DEF u
<1>4. \A i \in 1..Len(u) : u[i] = rs[i]
  BY <1>2, <1>3
<1>5. u = rs
  BY <1>2, <1>4, SeqEqual
<1>6. QED
  BY <1>5 DEF u

\* One record more in front.
LEMMA NewestAndOne ==
  ASSUME NEW R, NEW rs \in Seq(R), NEW k \in 1..Len(rs)
  PROVE  Newest(rs, k) = <<rs[Len(rs) - k + 1]>> \o Newest(rs, k - 1)
<1> DEFINE N == Len(rs)
           r == rs[N - k + 1]
           u == Newest(rs, k)
           q == Newest(rs, k - 1)
           t == <<r>> \o q
<1>1. N \in Nat /\ k \in Nat /\ k <= N /\ k - 1 \in 0..N /\ k \in 0..N
      /\ N - k + 1 \in 1..N
  OBVIOUS
<1>2. u \in Seq(R) /\ Len(u) = k /\ \A i \in 1..k : u[i] = rs[(N - k) + i]
  BY <1>1, NewestIsPart
<1>3. q \in Seq(R) /\ Len(q) = k - 1
      /\ \A i \in 1..(k - 1) : q[i] = rs[(N - (k - 1)) + i]
  BY <1>1, NewestIsPart
<1>4. r \in R
  BY <1>1
<1>5. r = rs[(N - k) + 1]
  OBVIOUS
<1> HIDE DEF u, q, r
<1>6. t \in Seq(R) /\ Len(t) = k /\ t[1] = r /\ \A i \in 2..k : t[i] = q[i - 1]
  BY <1>1, <1>3, <1>4
<1> HIDE DEF t
<1>7. ASSUME NEW i \in 1..k PROVE t[i] = u[i]
  <2>1. CASE i = 1
    BY <1>2, <1>5, <1>6, <2>1
  <2>2. CASE i # 1
    <3>1. i \in 2..k /\ i - 1 \in 1..(k - 1) /\ (N - (k - 1)) + (i - 1) = (N - k) + i
      BY <1>1, <2>2
    <3>2. t[i] = q[i - 1] /\ q[i - 1] = rs[(N - (k - 1)) + (i - 1)]
      BY <1>3, <1>6, <3>1
    <3>3. QED
      BY <1>2, <3>1, <3>2
  <2>3. QED
    BY <2>1, <2>2
<1>8. u \in Seq(R) /\ t \in Seq(R) /\ Len(u) = Len(t) /\ \A i \in 1..Len(u) : u[i] = t[i]
  BY <1>2, <1>6, <1>7
<1>9. u = t
  BY <1>8, SeqEqual
<1>10. QED
  BY <1>9 DEF u, t, q, r

\* One record in front changes nothing for as many as there were.
LEMMA NewestOfMore ==
  ASSUME NEW R, NEW rs \in Seq(R), NEW r \in R, NEW n \in 0..Len(rs)
  PROVE  Newest(<<r>> \o rs, n) = Newest(rs, n)
<1> DEFINE all == <<r>> \o rs
           N   == Len(rs)
           u   == Newest(all, n)
           t   == Newest(rs, n)
<1>1. /\ N \in Nat /\ n \in Nat /\ n <= N
      /\ all \in Seq(R) /\ Len(all) = N + 1 /\ \A i \in 1..N : all[i + 1] = rs[i]
  OBVIOUS
<1> HIDE DEF all
<1>2. t \in Seq(R) /\ Len(t) = n /\ \A i \in 1..n : t[i] = rs[(N - n) + i]
  BY <1>1, NewestIsPart
<1>3. u \in Seq(R) /\ Len(u) = n /\ \A i \in 1..n : u[i] = all[(N + 1 - n) + i]
  <2>1. n \in 0..Len(all)
    BY <1>1
  <2>2. u \in Seq(R) /\ Len(u) = n /\ \A i \in 1..n : u[i] = all[(Len(all) - n) + i]
    BY <1>1, <2>1, NewestIsPart
  <2>3. Len(all) - n = N + 1 - n
    BY <1>1
  <2> HIDE DEF u
  <2>4. QED
    BY <2>2, <2>3, Zenon
<1> HIDE DEF u, t
<1>4. ASSUME NEW i \in 1..n PROVE u[i] = t[i]
  <2>1. (N - n) + i \in 1..N /\ (N + 1 - n) + i = ((N - n) + i) + 1
    BY <1>1
  <2>2. QED
    BY <1>1, <1>2, <1>3, <2>1
<1>5. u \in Seq(R) /\ t \in Seq(R) /\ Len(u) = Len(t) /\ \A i \in 1..Len(u) : u[i] = t[i]
  BY <1>2, <1>3, <1>4
<1>6. u = t
  BY <1>5, SeqEqual
<1>7. QED
  BY <1>6 DEF u, t, all

\* The sizes of the newest records.
LEMMA NewestSizes ==
  ASSUME NEW R, NEW rs \in Seq(R), Sized(rs), NEW k \in 1..Len(rs)
  PROVE  /\ SizeOf(Newest(rs, k)) \in Int /\ SizeOf(Newest(rs, k - 1)) \in Int
         /\ SizeOf(Newest(rs, k)) =
              SizeOf(Newest(rs, k - 1)) + ItemSize(rs[Len(rs) - k + 1])
<1> DEFINE N == Len(rs)
           a == N - k
<1>1. PICK f : Sums(f, rs)
  BY SumsExist
<1>2. N \in Nat /\ k \in Nat /\ k <= N /\ k >= 1
  OBVIOUS
<1>3. /\ a \in 0..N /\ a + 1 \in 0..N /\ N \in 0..N /\ a + 1 \in 1..N
      /\ (a + 1) - 1 = a /\ N - k + 1 = a + 1 /\ N - (k - 1) = a + 1
      /\ k - 1 \in 0..N /\ k \in 0..N
  BY <1>2
<1>4. Newest(rs, k) = SubSeq(rs, a + 1, N)
  BY <1>3, NewestIsPart
<1>5. Newest(rs, k - 1) = SubSeq(rs, (a + 1) + 1, N)
  BY <1>3, NewestIsPart
<1> HIDE DEF a
<1>6. SizeOf(SubSeq(rs, a + 1, N)) = f[N] - f[a]
  BY <1>1, <1>3, SizeOfPart
<1>7. SizeOf(SubSeq(rs, (a + 1) + 1, N)) = f[N] - f[a + 1]
  <2> DEFINE b == a + 1
  <2>1. b \in 0..N
    BY <1>3
  <2> HIDE DEF b
  <2>2. SizeOf(SubSeq(rs, b + 1, N)) = f[N] - f[b]
    BY <1>1, <1>3, <2>1, SizeOfPart
  <2>3. QED
    BY <2>2 DEF b
<1>8. f[a + 1] = f[a] + ItemSize(rs[a + 1])
  BY <1>1, <1>3 DEF Sums
<1>9. f[a] \in Int /\ f[a + 1] \in Int /\ f[N] \in Int /\ ItemSize(rs[a + 1]) \in Int
  <2>1. \A i \in 0..N : f[i] \in Int
    BY <1>1 DEF Sums
  <2>2. ItemSize(rs[a + 1]) \in Nat
    BY <1>3 DEF Sized
  <2>3. QED
    BY <1>3, <2>1, <2>2
<1>10. SizeOf(Newest(rs, k)) = f[N] - f[a] /\ SizeOf(Newest(rs, k - 1)) = f[N] - f[a + 1]
  BY <1>4, <1>5, <1>6, <1>7
<1>11. rs[Len(rs) - k + 1] = rs[a + 1]
  BY <1>3
<1>12. QED
  BY <1>8, <1>9, <1>10, <1>11

\* Nothing has the size 0, and one record in front adds its own.
LEMMA SizeAndOne ==
  ASSUME NEW R, NEW rs \in Seq(R), Sized(rs), NEW r \in R, ItemSize(r) \in Nat
  PROVE  /\ Sized(<<r>> \o rs) /\ SizeOf(rs) \in Int
         /\ SizeOf(<<r>> \o rs) = SizeOf(rs) + ItemSize(r)
<1> DEFINE all == <<r>> \o rs
           N   == Len(rs)
<1>1. /\ N \in Nat /\ all \in Seq(R) /\ Len(all) = N + 1 /\ all[1] = r
      /\ \A i \in 2..(N + 1) : all[i] = rs[i - 1] /\ i - 1 \in 1..N
  OBVIOUS
<1> HIDE DEF all
<1>2. Sized(all)
  BY <1>1 DEF Sized
<1>3. N + 1 \in 1..Len(all) /\ (N + 1) - 1 = N /\ Len(all) - (N + 1) + 1 = 1
      /\ N \in 0..N /\ Len(all) <= N + 1 /\ N + 1 \in Nat /\ N <= N
  BY <1>1
<1>4. Newest(all, N + 1) = all
  BY <1>1, <1>3, NewestIsWhole
<1>5. Newest(all, N) = rs
  <2>1. Newest(all, N) = Newest(rs, N)
    BY <1>3, NewestOfMore DEF all
  <2>2. Newest(rs, N) = rs
    BY <1>1, <1>3, NewestIsWhole
  <2>3. QED
    BY <2>1, <2>2
<1> DEFINE k == N + 1
<1>6. k \in 1..Len(all) /\ k - 1 = N /\ Len(all) - k + 1 = 1
  BY <1>3
<1> HIDE DEF k
<1>7. /\ SizeOf(Newest(all, k - 1)) \in Int
      /\ SizeOf(Newest(all, k)) =
           SizeOf(Newest(all, k - 1)) + ItemSize(all[Len(all) - k + 1])
  BY <1>1, <1>2, <1>6, NewestSizes
<1>8. SizeOf(rs) \in Int /\ SizeOf(all) = SizeOf(rs) + ItemSize(r)
  BY <1>1, <1>4, <1>5, <1>6, <1>7 DEF k
<1>9. QED
  BY <1>2, <1>8 DEF all

-----------------------------------------------------------------------------
(* The loop of the bus monitor's export.                                    *)

Unkept == [messages |-> <<>>, size |-> 0, omitted |-> 0]

KeepStep(g, rs) ==
  g = [s \in SUBSET DOMAIN rs |->
         IF s = {} THEN Unkept ELSE Keep(rs[Min(s)], g[s \ {Min(s)}])]

KeepFun(rs) == CHOOSE g : KeepStep(g, rs)

\* The states of the loop after each of the newest records.
Keeps(f, rs) ==
  /\ f[0] = Unkept
  /\ \A k \in 1..Len(rs) : f[k] = Keep(rs[Len(rs) - k + 1], f[k - 1])

\* The fold of the export is that function.
LEMMA KeepIsFun ==
  ASSUME NEW rs
  PROVE  FoldRight(Keep, rs, [messages |-> <<>>, size |-> 0, omitted |-> 0])
           = KeepFun(rs)[DOMAIN rs]
BY DEF FoldRight, MapThenFoldSet, KeepFun, KeepStep, Unkept

\* And the function exists.
LEMMA KeepSteps ==
  ASSUME NEW R, NEW rs \in Seq(R), Sized(rs)
  PROVE  KeepStep(KeepFun(rs), rs)
<1> DEFINE n    == Len(rs)
           V    == [messages : Seq(R), size : Nat, omitted : Nat]
           F    == [i \in 1..n |-> [v \in V |-> Keep(rs[i], v)]]
           pick == [s \in SUBSET (1..n) |-> Min(s)]
<1>1. n \in Nat /\ DOMAIN rs = 1..n
  OBVIOUS
<1>2. ASSUME NEW s \in SUBSET (1..n), s # {} PROVE pick[s] \in s /\ pick[s] = Min(s)
  BY <1>1, <1>2, EndsOfSet
<1>3. ASSUME NEW i \in 1..n, NEW v \in V PROVE Keep(rs[i], v) \in V
  <2>1. rs[i] \in R /\ ItemSize(rs[i]) \in Nat
    BY DEF Sized
  <2> DEFINE r == rs[i]
  <2> HIDE DEF r
  <2>2. r \in R /\ ItemSize(r) \in Nat
    BY <2>1 DEF r
  <2>3. /\ [v EXCEPT !.omitted = @ + 1] \in V
        /\ [v EXCEPT !.messages = <<r>> \o @, !.size = @ + ItemSize(r)] \in V
    <3> DEFINE more == <<r>> \o v.messages
               size == v.size + ItemSize(r)
               left == v.omitted + 1
    <3>1. more \in Seq(R) /\ size \in Nat /\ left \in Nat
      BY <2>2
    <3> HIDE DEF more, size, left
    <3>2. [v EXCEPT !.messages = more, !.size = size] \in V
      BY <3>1
    <3>3. [v EXCEPT !.omitted = left] \in V
      BY <3>1
    <3>4. QED
      BY <3>2, <3>3 DEF more, size, left
  <2>4. Keep(r, v) \in V
    BY <2>3 DEF Keep
  <2>5. QED
    BY <2>4 DEF r
<1>4. Unkept \in V
  BY DEF Unkept
<1>5. \E g : Gathers(g, n, Unkept, F, pick, V)
  <2> HIDE DEF V
  <2>1. Bodies(F, n, V)
    BY <1>3 DEF Bodies
  <2>2. Picks(pick, n)
    <3> HIDE DEF pick
    <3> QED BY <1>2 DEF Picks
  <2> HIDE DEF F, pick, n
  <2>3. QED
    BY <1>1, <1>4, <2>1, <2>2, GatherExists
<1> HIDE DEF V
<1>6. PICK g : g = Gather(g, n, Unkept, F, pick) /\ g \in [SUBSET (1..n) -> V]
  BY <1>5 DEF Gathers
<1>7. ASSUME NEW s \in SUBSET (1..n), s # {}
      PROVE  F[pick[s]][g[s \ {pick[s]}]] = Keep(rs[Min(s)], g[s \ {Min(s)}])
  <2>1. pick[s] \in 1..n /\ pick[s] = Min(s)
    BY <1>2, <1>7
  <2>2. g[s \ {pick[s]}] \in V
    BY <1>6
  <2> HIDE DEF pick
  <2>3. QED
    BY <2>1, <2>2
<1>8. g = [s \in SUBSET (1..n) |->
             IF s = {} THEN Unkept ELSE Keep(rs[Min(s)], g[s \ {Min(s)}])]
  <2> HIDE DEF F, pick
  <2> QED BY <1>6, <1>7 DEF Gather
<1>9. KeepStep(g, rs)
  BY <1>1, <1>8 DEF KeepStep
<1>10. QED
  BY <1>9 DEF KeepFun

\* Its result is the last of the states.
LEMMA KeepsExist ==
  ASSUME NEW R, NEW rs \in Seq(R), Sized(rs)
  PROVE  \E f : Keeps(f, rs) /\ KeepFun(rs)[DOMAIN rs] = f[Len(rs)]
<1> DEFINE n == Len(rs)
           g == KeepFun(rs)
           f == [k \in 0..n |-> g[(n - k + 1)..n]]
<1>1. n \in Nat /\ DOMAIN rs = 1..n
  OBVIOUS
<1>2. KeepStep(g, rs)
  BY KeepSteps
<1> HIDE DEF g, n
<1>3. g[{}] = Unkept
  BY <1>2 DEF KeepStep
<1>4. ASSUME NEW k \in 1..n PROVE g[k..n] = Keep(rs[k], g[(k + 1)..n])
  <2>1. k \in Nat /\ k >= 1 /\ k <= n /\ k..n \in SUBSET (1..n)
    BY <1>1
  <2>2. k..n # {} /\ Min(k..n) = k /\ (k..n) \ {k} = (k + 1)..n
    BY <1>1, <2>1, FirstOfRest
  <2>3. g[k..n] = IF k..n = {} THEN Unkept
                  ELSE Keep(rs[Min(k..n)], g[(k..n) \ {Min(k..n)}])
    BY <1>1, <1>2, <2>1 DEF KeepStep
  <2>4. QED
    BY <2>2, <2>3
<1>5. f[0] = Unkept
  <2>1. (n - 0 + 1)..n = {} /\ 0 \in 0..n
    BY <1>1
  <2>2. QED
    BY <1>3, <2>1
<1>6. ASSUME NEW k \in 1..n PROVE f[k] = Keep(rs[n - k + 1], f[k - 1])
  <2>1. k \in 0..n /\ k - 1 \in 0..n /\ n - k + 1 \in 1..n
        /\ n - (k - 1) + 1 = (n - k + 1) + 1
    BY <1>1
  <2>2. f[k] = g[(n - k + 1)..n] /\ f[k - 1] = g[((n - k + 1) + 1)..n]
    BY <2>1
  <2>3. QED
    BY <1>4, <2>1, <2>2
<1>7. f[n] = g[1..n]
  <2>1. n \in 0..n /\ n - n + 1 = 1
    BY <1>1
  <2>2. QED
    BY <2>1
<1>8. Keeps(f, rs)
  <2> HIDE DEF f
  <2> QED BY <1>5, <1>6 DEF Keeps, n
<1>9. QED
  BY <1>1, <1>7, <1>8 DEF n, g

\* After the k newest records: as many newest ones as fit together are all there, and
\* every other one is counted.
Kept(v, k, rs, R) ==
  /\ v = [messages |-> v.messages, size |-> v.size, omitted |-> v.omitted]
  /\ v.messages \in Seq(R) /\ Sized(v.messages)
  /\ v.size = SizeOf(v.messages) /\ v.size <= MaxExport
  /\ v.omitted \in Nat /\ Len(v.messages) + v.omitted = k
  /\ \A n \in 0..k :
       SizeOf(Newest(rs, n)) <= MaxExport => Newest(v.messages, n) = Newest(rs, n)

\* When all of them fit, they are all there.
LEMMA KeptAll ==
  ASSUME NEW R, NEW rs \in Seq(R), NEW k \in 0..Len(rs), NEW v, Kept(v, k, rs, R),
         SizeOf(Newest(rs, k)) <= MaxExport
  PROVE  v.messages = Newest(rs, k)
<1>1. k \in Nat /\ k \in 0..k /\ v.messages \in Seq(R) /\ Len(v.messages) <= k
  <2>1. v.messages \in Seq(R) /\ v.omitted \in Nat /\ Len(v.messages) + v.omitted = k
    BY DEF Kept
  <2>2. Len(v.messages) \in Nat
    BY <2>1
  <2>3. QED
    BY <2>1, <2>2
<1>2. Newest(v.messages, k) = Newest(rs, k)
  BY <1>1 DEF Kept
<1>3. Newest(v.messages, k) = v.messages
  BY <1>1, NewestIsWhole
<1>4. QED
  BY <1>2, <1>3

\* One record more, an older one, keeps it so.
LEMMA KeepsOn ==
  ASSUME NEW R, NEW rs \in Seq(R), Sized(rs), NEW k \in 1..Len(rs), NEW v,
         Kept(v, k - 1, rs, R)
  PROVE  Kept(Keep(rs[Len(rs) - k + 1], v), k, rs, R)
<1> DEFINE r == rs[Len(rs) - k + 1]
           w == Keep(r, v)
           m == v.messages
           all == <<r>> \o m
<1>1. /\ Len(rs) \in Nat /\ k \in Nat /\ k >= 1 /\ k <= Len(rs)
      /\ Len(rs) - k + 1 \in 1..Len(rs) /\ k - 1 \in 0..Len(rs) /\ k \in 0..Len(rs)
  OBVIOUS
<1>2. /\ v = [messages |-> m, size |-> v.size, omitted |-> v.omitted]
      /\ m \in Seq(R) /\ Sized(m) /\ v.size = SizeOf(m) /\ v.size <= MaxExport
      /\ v.omitted \in Nat /\ Len(m) + v.omitted = k - 1
  BY DEF Kept
<1>3. \A n \in 0..(k - 1) :
        SizeOf(Newest(rs, n)) <= MaxExport => Newest(m, n) = Newest(rs, n)
  BY DEF Kept
<1>4. r \in R /\ ItemSize(r) \in Nat
  BY <1>1 DEF Sized
<1>5. /\ SizeOf(Newest(rs, k)) \in Int /\ SizeOf(Newest(rs, k - 1)) \in Int
      /\ SizeOf(Newest(rs, k)) = SizeOf(Newest(rs, k - 1)) + ItemSize(r)
  BY NewestSizes
<1>6. Newest(rs, k) = <<r>> \o Newest(rs, k - 1)
  BY NewestAndOne
<1>7. ASSUME SizeOf(Newest(rs, k)) <= MaxExport
      PROVE  m = Newest(rs, k - 1) /\ v.size + ItemSize(r) <= MaxExport
             /\ all = Newest(rs, k)
  <2>1. SizeOf(Newest(rs, k - 1)) <= MaxExport
    BY <1>4, <1>5, <1>7, ExportAssumption
  <2>2. m = Newest(rs, k - 1)
    BY <1>1, <2>1, KeptAll
  <2>3. v.size + ItemSize(r) = SizeOf(Newest(rs, k))
    BY <1>2, <1>5, <2>2
  <2>4. QED
    BY <1>6, <1>7, <2>2, <2>3
<1>8. all \in Seq(R) /\ Len(all) = Len(m) + 1 /\ Len(m) \in Nat
  BY <1>2, <1>4
<1>9. Sized(all) /\ SizeOf(m) \in Int /\ SizeOf(all) = SizeOf(m) + ItemSize(r)
  BY <1>2, <1>4, SizeAndOne
<1>10. ASSUME NEW n \in 0..k, n # k PROVE n \in 0..(k - 1)
  BY <1>1, <1>10
<1> HIDE DEF r
<1>11. CASE v.size + ItemSize(r) > MaxExport
  <2>1. w = [v EXCEPT !.omitted = @ + 1]
    BY <1>11 DEF Keep
  <2>2. /\ w.messages = m /\ w.size = v.size /\ w.omitted = v.omitted + 1
        /\ w = [messages |-> w.messages, size |-> w.size, omitted |-> w.omitted]
    BY <1>2, <2>1
  <2> HIDE DEF w, m, all
  <2>3. ASSUME NEW n \in 0..k, SizeOf(Newest(rs, n)) <= MaxExport
        PROVE  Newest(m, n) = Newest(rs, n)
    <3>1. CASE n = k
      <4>1. v.size + ItemSize(r) <= MaxExport
        BY <1>7, <2>3, <3>1
      <4>2. v.size \in Int /\ MaxExport \in Int
        BY <1>2, <1>9, ExportAssumption
      <4>3. FALSE
        BY <1>4, <1>11, <4>1, <4>2
      <4>4. QED
        BY <4>3
    <3>2. CASE n # k
      BY <1>3, <1>10, <2>3, <3>2
    <3>3. QED
      BY <3>1, <3>2
  <2>4. w.omitted \in Nat /\ Len(m) + w.omitted = k
    BY <1>1, <1>2, <1>8, <2>2
  <2>5. Kept(w, k, rs, R)
    BY <1>2, <2>2, <2>3, <2>4 DEF Kept
  <2>6. QED
    BY <2>5 DEF w, r
<1>12. CASE ~(v.size + ItemSize(r) > MaxExport)
  <2>1. w = [v EXCEPT !.messages = <<r>> \o @, !.size = @ + ItemSize(r)]
    BY <1>12 DEF Keep
  <2>2. /\ w.messages = all /\ w.size = v.size + ItemSize(r) /\ w.omitted = v.omitted
        /\ w = [messages |-> w.messages, size |-> w.size, omitted |-> w.omitted]
    BY <1>2, <2>1
  <2>3. ASSUME NEW n \in 0..Len(m) PROVE Newest(all, n) = Newest(m, n)
    BY <1>2, <1>4, NewestOfMore
  <2> HIDE DEF w, m, all
  <2>4. ASSUME NEW n \in 0..k, SizeOf(Newest(rs, n)) <= MaxExport
        PROVE  Newest(all, n) = Newest(rs, n)
    <3>1. CASE n = k
      <4>1. all = Newest(rs, k)
        BY <1>7, <2>4, <3>1
      <4>2. Len(all) <= k
        BY <1>1, <4>1, NewestIsPart
      <4>3. Newest(all, k) = all
        BY <1>1, <1>8, <4>2, NewestIsWhole
      <4>4. QED
        BY <3>1, <4>1, <4>3
    <3>2. CASE n # k
      <4>1. n \in 0..(k - 1) /\ n \in Nat /\ n \in 0..Len(rs)
        BY <1>1, <1>10, <3>2
      <4>2. Newest(m, n) = Newest(rs, n)
        BY <1>3, <2>4, <4>1
      <4>3. Len(Newest(rs, n)) = n
        BY <4>1, NewestIsPart
      <4>4. Len(Newest(m, n)) = IF Len(m) > n THEN n ELSE Len(m)
        BY <1>2, <4>1, NewestIs
      <4>5. n \in 0..Len(m)
        BY <1>8, <4>1, <4>2, <4>3, <4>4
      <4>6. QED
        BY <2>3, <4>2, <4>5
    <3>3. QED
      BY <3>1, <3>2
  <2>5. w.size = SizeOf(all) /\ w.size <= MaxExport
    <3>1. v.size \in Int /\ MaxExport \in Int
      BY <1>2, <1>9, ExportAssumption
    <3>2. QED
      BY <1>2, <1>4, <1>9, <1>12, <2>2, <3>1
  <2>6. w.omitted \in Nat /\ Len(all) + w.omitted = k
    <3>1. v.omitted \in Nat /\ Len(m) + v.omitted = k - 1 /\ k \in Nat
      BY <1>1, <1>2
    <3>2. Len(m) + 1 + v.omitted = k
      BY <1>8, <3>1
    <3>3. w.omitted = v.omitted /\ Len(all) = Len(m) + 1
      BY <1>8, <2>2
    <3>4. QED
      BY <3>1, <3>2, <3>3, Zenon
  <2>7. Kept(w, k, rs, R)
    BY <1>8, <1>9, <2>2, <2>4, <2>5, <2>6 DEF Kept
  <2>8. QED
    BY <2>7 DEF w, r
<1>13. QED
  BY <1>11, <1>12

\* What the loop ends with.
LEMMA KeepEnds ==
  ASSUME NEW R, NEW rs \in Seq(R), Sized(rs)
  PROVE  Kept(FoldRight(Keep, rs, [messages |-> <<>>, size |-> 0, omitted |-> 0]),
              Len(rs), rs, R)
<1> DEFINE n == Len(rs)
<1>1. PICK h : Keeps(h, rs) /\ KeepFun(rs)[DOMAIN rs] = h[n]
  BY KeepsExist
<1> DEFINE G == {k \in 0..n : Kept(h[k], k, rs, R)}
<1>2. n \in Nat
  OBVIOUS
<1>3. 0 \in G
  <2>1. h[0] = Unkept
    BY <1>1 DEF Keeps
  <2>2. <<>> \in Seq(R) /\ Len(<<>>) = 0 /\ Sized(<<>>)
    BY DEF Sized
  <2>3. SizeOf(<<>>) = 0
    <3>1. PICK f : Sums(f, <<>>) /\ SizeOf(<<>>) = f[Len(<<>>)]
      BY <2>2, SumsExist
    <3>2. QED
      BY <2>2, <3>1 DEF Sums
  <2>4. Newest(<<>>, 0) = Newest(rs, 0)
    <3>1. Newest(rs, 0) \in Seq(R) /\ Len(Newest(rs, 0)) = 0
      BY <1>2, NewestIsPart
    <3>2. Newest(<<>>, 0) = <<>>
      BY <2>2 DEF Newest
    <3>3. QED
      BY <3>1, <3>2
  <2>5. Unkept.messages = <<>> /\ Unkept.size = 0 /\ Unkept.omitted = 0
        /\ Unkept = [messages |-> <<>>, size |-> 0, omitted |-> 0]
    BY DEF Unkept
  <2>6. Kept(Unkept, 0, rs, R)
    <3>1. 0 <= MaxExport /\ 0 \in Nat /\ 0 + 0 = 0 /\ \A j \in 0..0 : j = 0
      BY ExportAssumption
    <3>2. QED
      BY <2>2, <2>3, <2>4, <2>5, <3>1 DEF Kept
  <2>7. QED
    BY <1>2, <2>1, <2>6
<1>4. ASSUME NEW k \in 1..n, k - 1 \in G PROVE k \in G
  <2>1. Kept(h[k - 1], k - 1, rs, R)
    BY <1>4
  <2>2. h[k] = Keep(rs[n - k + 1], h[k - 1])
    BY <1>1 DEF Keeps
  <2>3. Kept(h[k], k, rs, R)
    BY <2>1, <2>2, KeepsOn
  <2>4. QED
    BY <1>2, <2>3
<1>5. 0..n \subseteq G
  <2> HIDE DEF G, n
  <2> QED BY <1>2, <1>3, <1>4, StepByStep
<1>6. Kept(h[n], n, rs, R)
  BY <1>2, <1>5
<1>7. QED
  BY <1>1, <1>6, KeepIsFun

-----------------------------------------------------------------------------
(* The two exports, of any records.                                         *)

\* The capture's export is an unbroken run from the oldest selected record on, and
\* what is missing is missing because the next record is over the budget.
LEMMA CaptureExportIs ==
  ASSUME NEW R, NEW rs \in Seq(R), Sized(rs), NEW limit \in Nat, NEW room \in Nat,
         Len(rs) <= room
  PROVE  LET e   == capture_export(rs, limit, room)
             all == Newest(rs, limit)
             n   == Len(e.messages)
         IN /\ e.messages = SubSeq(all, 1, n)
            /\ SizeOf(e.messages) <= MaxExport
            /\ e.truncated <=> n < Len(all)
            /\ e.truncated => SizeOf(SubSeq(all, 1, n + 1)) > MaxExport
<1> DEFINE all   == Newest(rs, limit)
           taken == FoldLeft(Fill, [messages |-> <<>>, size |-> 0, full |-> FALSE], all)
           e     == capture_export(rs, limit, room)
<1>1. all \in Seq(R) /\ Len(all) \in Nat /\ Sized(all)
  <2>1. /\ all \in Seq(R) /\ Len(all) = IF Len(rs) > limit THEN limit ELSE Len(rs)
        /\ \A i \in 1..Len(all) : all[i] = rs[(Len(rs) - Len(all)) + i]
    BY NewestIs
  <2>2. Len(rs) \in Nat /\ limit \in Nat
    OBVIOUS
  <2> HIDE DEF all
  <2>3. Len(all) \in Nat /\ Len(all) <= Len(rs)
    BY <2>1, <2>2
  <2>4. \A i \in 1..Len(all) : (Len(rs) - Len(all)) + i \in 1..Len(rs)
    BY <2>2, <2>3
  <2>5. QED
    BY <2>1, <2>3, <2>4 DEF Sized
<1>2. Selected(rs, limit, room) = all
  <2>1. CASE limit < room
    BY <2>1 DEF Selected
  <2>2. CASE ~(limit < room)
    <3>1. Len(rs) \in Nat /\ Len(rs) <= limit
      BY <2>2
    <3>2. Newest(rs, limit) = rs /\ Newest(rs, room) = rs
      BY <3>1, NewestIsWhole
    <3>3. QED
      BY <2>2, <3>2 DEF Selected
  <2>3. QED
    BY <2>1, <2>2
<1>3. e.messages = taken.messages /\ (e.truncated <=> Len(taken.messages) < Len(all))
  BY <1>2 DEF capture_export
<1> HIDE DEF all, e
<1>4. PICK f : Sums(f, all)
  BY <1>1, SumsExist
<1>5. Filled(taken, Len(all), all, f)
  BY <1>1, <1>4, FillEnds
<1> HIDE DEF taken
<1>6. PICK m \in 0..Len(all) :
        /\ taken.messages = SubSeq(all, 1, m) /\ f[m] <= MaxExport
        /\ taken.full \in BOOLEAN
        /\ taken.full => m < Len(all) /\ f[m + 1] > MaxExport
        /\ ~taken.full => m = Len(all)
  BY <1>5 DEF Filled
<1>7. Len(SubSeq(all, 1, m)) = m /\ m \in Nat
  BY <1>1
<1>8. f[0] = 0 /\ \A j \in 0..Len(all) : f[j] \in Int
  BY <1>4 DEF Sums
<1>9. ASSUME NEW j \in 0..Len(all) PROVE SizeOf(SubSeq(all, 1, j)) = f[j]
  <2> DEFINE i == 0
  <2>1. i \in 0..j /\ i + 1 = 1
    OBVIOUS
  <2> HIDE DEF i
  <2>2. SizeOf(SubSeq(all, i + 1, j)) = f[j] - f[i]
    BY <1>1, <1>4, <2>1, SizeOfPart
  <2>3. f[i] = 0 /\ f[j] \in Int
    BY <1>8 DEF i
  <2>4. f[j] - f[i] = f[j]
    BY <2>3
  <2>5. QED
    BY <2>1, <2>2, <2>4
<1>10. SizeOf(e.messages) <= MaxExport
  BY <1>3, <1>6, <1>9
<1>11. ASSUME m < Len(all) PROVE SizeOf(SubSeq(all, 1, m + 1)) > MaxExport
  <2>1. taken.full
    BY <1>1, <1>6, <1>7, <1>11
  <2>2. m + 1 \in 0..Len(all)
    BY <1>1, <1>7, <1>11
  <2>3. QED
    BY <1>6, <1>9, <2>1, <2>2
<1>12. Len(e.messages) = m
  BY <1>3, <1>6, <1>7
<1>13. e.messages = SubSeq(all, 1, m) /\ (e.truncated <=> m < Len(all))
  BY <1>3, <1>6, <1>7
<1>14. QED
  BY <1>10, <1>11, <1>12, <1>13, Zenon DEF e, all

\* The bus monitor's export leaves out no message for the sake of an older one.
LEMMA BusExportIs ==
  ASSUME NEW R, NEW rs \in Seq(R), Sized(rs), NEW limit \in Nat
  PROVE  LET e   == bus_export(rs, limit)
             all == Newest(rs, limit)
         IN /\ SizeOf(e.messages) <= MaxExport
            /\ Len(e.messages) + e.omitted = Len(all)
            /\ \A n \in 0..Len(all) :
                 SizeOf(Newest(all, n)) <= MaxExport =>
                   Newest(e.messages, n) = Newest(all, n)
<1> DEFINE all  == Newest(rs, limit)
           kept == FoldRight(Keep, all, [messages |-> <<>>, size |-> 0, omitted |-> 0])
           e    == bus_export(rs, limit)
<1>1. all \in Seq(R) /\ Sized(all)
  <2>1. /\ all \in Seq(R) /\ Len(all) = IF Len(rs) > limit THEN limit ELSE Len(rs)
        /\ \A i \in 1..Len(all) : all[i] = rs[(Len(rs) - Len(all)) + i]
    BY NewestIs
  <2>2. Len(rs) \in Nat /\ limit \in Nat
    OBVIOUS
  <2> HIDE DEF all
  <2>3. Len(all) \in Nat /\ Len(all) <= Len(rs)
    BY <2>1, <2>2
  <2>4. \A i \in 1..Len(all) : (Len(rs) - Len(all)) + i \in 1..Len(rs)
    BY <2>2, <2>3
  <2>5. QED
    BY <2>1, <2>4 DEF Sized
<1>2. e.messages = kept.messages /\ e.omitted = kept.omitted
  BY DEF bus_export
<1> HIDE DEF all, e
<1>3. Kept(kept, Len(all), all, R)
  BY <1>1, KeepEnds
<1> HIDE DEF kept
<1>4. /\ SizeOf(kept.messages) <= MaxExport
      /\ Len(kept.messages) + kept.omitted = Len(all)
      /\ \A n \in 0..Len(all) : SizeOf(Newest(all, n)) <= MaxExport =>
           Newest(kept.messages, n) = Newest(all, n)
  BY <1>3 DEF Kept
<1>5. /\ SizeOf(e.messages) <= MaxExport
      /\ Len(e.messages) + e.omitted = Len(all)
      /\ \A n \in 0..Len(all) : SizeOf(Newest(all, n)) <= MaxExport =>
           Newest(e.messages, n) = Newest(all, n)
  BY <1>2, <1>4
<1>6. QED
  BY <1>5, Zenon DEF e, all
=============================================================================
