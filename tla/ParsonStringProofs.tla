--------------------------- MODULE ParsonStringProofs ---------------------------
(***************************************************************************)
(* Proofs about ParsonString, for texts of any number of any units: the    *)
(* two passes over a string agree about where it ends, what is written     *)
(* stays within the length of what is read, and both stay in the text;     *)
(* parse_utf16 writes UTF-8 for every code point; what is accepted is good *)
(* and decodes to what it means, and only what is bad is refused.          *)
(***************************************************************************)
EXTENDS ParsonString, SequenceTheorems, WellFoundedInduction, TLAPS

(* Induction over an interval, for a set of good places. *)
LEMMA PlaceByPlace ==
  ASSUME NEW S, NEW m \in Nat, NEW n \in Nat, m \in S,
         \A i \in Nat : m < i /\ i <= n /\ i - 1 \in S => i \in S
  PROVE  m..n \subseteq S
<1> DEFINE bad == {i \in m..n : i \notin S}
<1> SUFFICES ASSUME bad # {} PROVE FALSE
  OBVIOUS
<1>1. bad \subseteq Nat
  OBVIOUS
<1>2. PICK x \in bad : \A y \in bad : ~(<<y, x>> \in OpToRel(<, Nat))
  BY <1>1, NatLessThanWellFounded, WFMin
<1>3. \A y \in bad : ~(y < x)
  <2>1. ASSUME NEW y \in bad, y < x PROVE FALSE
    <3>1. x \in Nat /\ y \in Nat
      BY <1>1
    <3>2. <<y, x>> \in OpToRel(<, Nat)
      BY <2>1, <3>1, Zenon DEF OpToRel
    <3> QED
      BY <1>2, <3>2
  <2> QED
    BY <2>1
<1>4. x \in Nat /\ m < x /\ x <= n /\ x \notin S
  OBVIOUS
<1>5. x - 1 \in S
  <2>1. x - 1 \in m..n /\ x - 1 < x
    BY <1>4
  <2> QED
    BY <1>3, <2>1
<1> QED
  BY <1>4, <1>5

(* The lengths of the beginnings of a sequence are what their recursion    *)
(* says.                                                                   *)
LEMMA LengthsAddUp ==
  ASSUME NEW s, Len(s) \in Nat
  PROVE  /\ Lengths(s)[0] = 0
         /\ \A i \in 1..Len(s) : Lengths(s)[i] = Lengths(s)[i - 1] + Width(s[i])
<1> DEFINE Body(g, i) == IF i = 0 THEN 0 ELSE g[i - 1] + Width(s[i])
           Added == {n \in Nat : \E g : g = [i \in 0..n |-> Body(g, i)]}
<1>1. 0 \in Added
  <2> DEFINE g == [i \in 0..0 |-> 0]
  <2>1. g = [i \in 0..0 |-> Body(g, i)]
    OBVIOUS
  <2> QED
    BY <2>1
<1>2. ASSUME NEW n \in 1..Len(s), n - 1 \in Added PROVE n \in Added
  <2>1. PICK g : g = [i \in 0..(n - 1) |-> Body(g, i)]
    BY <1>2
  <2> DEFINE h == [i \in 0..n |-> IF i = n THEN g[n - 1] + Width(s[n]) ELSE g[i]]
  <2>2. ASSUME NEW i \in 0..n PROVE h[i] = Body(h, i)
    <3>1. CASE i = n
      BY <3>1
    <3>2. CASE i # n
      <4>1. i \in 0..(n - 1) /\ h[i] = g[i] /\ g[i] = Body(g, i)
        BY <2>1, <3>2
      <4>2. i # 0 => h[i - 1] = g[i - 1]
        BY <3>2
      <4> QED
        BY <4>1, <4>2
    <3> QED
      BY <3>1, <3>2
  <2>3. h = [i \in 0..n |-> Body(h, i)]
    BY <2>2
  <2> HIDE DEF h, Body
  <2> QED
    BY <2>3
<1>3. 0..Len(s) \subseteq Added
  <2>1. \A i \in Nat : 0 < i /\ i <= Len(s) /\ i - 1 \in Added => i \in Added
    <3> HIDE DEF Added
    <3> QED
      BY <1>2
  <2> HIDE DEF Added
  <2> QED
    BY <1>1, <2>1, PlaceByPlace
<1>4. PICK g : g = [i \in 0..Len(s) |-> Body(g, i)]
  BY <1>3
<1>5. Lengths(s) = [i \in 0..Len(s) |-> Body(Lengths(s), i)]
  BY <1>4 DEF Lengths
<1> QED
  BY <1>5

(* They are numbers, and grow by at least one with each element.           *)
LEMMA LengthsGrow ==
  ASSUME NEW s \in Seq(Nat), NEW m \in 0..Len(s), NEW n \in m..Len(s)
  PROVE  Lengths(s)[m] \in Nat /\ Lengths(s)[n] \in Nat /\ Lengths(s)[n] >= Lengths(s)[m] + (n - m)
<1> DEFINE L == Lengths(s)
           numbers == {i \in Nat : L[i] \in Nat}
           above == {i \in Nat : L[i] \in Nat /\ L[i] >= L[m] + (i - m)}
<1>1. Len(s) \in Nat /\ m \in Nat /\ n \in Nat /\ m <= n /\ n <= Len(s)
  BY LenProperties
<1>2. L[0] = 0 /\ \A i \in 1..Len(s) : L[i] = L[i - 1] + Width(s[i])
  BY <1>1, LengthsAddUp
<1>3. \A i \in 1..Len(s) : Width(s[i]) \in {1, 4}
  BY DEF Width
<1>4. 0..m \subseteq numbers
  <2>1. \A i \in Nat : 0 < i /\ i <= m /\ i - 1 \in numbers => i \in numbers
    <3>1. ASSUME NEW i \in Nat, 0 < i, i <= m, i - 1 \in numbers PROVE i \in numbers
      <4>1. i \in 1..Len(s)
        BY <1>1, <3>1
      <4>2. L[i] = L[i - 1] + Width(s[i]) /\ Width(s[i]) \in {1, 4}
        BY <1>2, <1>3, <4>1
      <4> HIDE DEF L
      <4> QED
        BY <1>1, <3>1, <4>2
    <3> QED
      BY <3>1
  <2>2. 0 \in numbers
    BY <1>2
  <2> HIDE DEF numbers
  <2> QED
    BY <1>1, <2>1, <2>2, PlaceByPlace
<1>5. L[m] \in Nat
  BY <1>1, <1>4
<1>6. m..n \subseteq above
  <2>1. \A i \in Nat : m < i /\ i <= n /\ i - 1 \in above => i \in above
    <3>1. ASSUME NEW i \in Nat, m < i, i <= n, i - 1 \in above PROVE i \in above
      <4>1. i \in 1..Len(s)
        BY <1>1, <3>1
      <4>2. L[i] = L[i - 1] + Width(s[i]) /\ Width(s[i]) \in {1, 4}
        BY <1>2, <1>3, <4>1
      <4>3. L[i - 1] \in Nat /\ L[i - 1] >= L[m] + ((i - 1) - m)
        BY <3>1
      <4> DEFINE w == Width(s[i])
                 before == L[i - 1]
                 base == L[m]
      <4>4. L[i] = before + w /\ (w = 1 \/ w = 4)
        BY <4>2
      <4>5. before \in Nat /\ base \in Nat /\ before >= base + ((i - 1) - m)
        BY <1>5, <4>3
      <4> HIDE DEF w, before, base
      <4>6. before + w \in Nat /\ before + w >= base + (i - m)
        BY <1>1, <3>1, <4>4, <4>5
      <4> QED
        BY <3>1, <4>4, <4>6 DEF base
    <3> QED
      BY <3>1
  <2>2. m \in above
    BY <1>1, <1>5
  <2> HIDE DEF above
  <2> QED
    BY <1>1, <2>1, <2>2, PlaceByPlace
<1> QED
  BY <1>1, <1>5, <1>6

-----------------------------------------------------------------------------
(* How a reader from the opening quote on stands at each place of s: at    *)
(* the second character of an escape, or at the first of something.        *)
Standing(s) ==
  LET f[i \in 1..Len(s)] ==
        IF i # 1 /\ s[i - 1] = Backslash /\ f[i - 1] = "first" THEN "second" ELSE "first"
  IN f

LEMMA StandingFollows ==
  ASSUME NEW s, Len(s) \in Nat
  PROVE  \A i \in 1..Len(s) :
           Standing(s)[i] =
             IF i # 1 /\ s[i - 1] = Backslash /\ Standing(s)[i - 1] = "first"
             THEN "second" ELSE "first"
<1> DEFINE Body(g, i) ==
             IF i # 1 /\ s[i - 1] = Backslash /\ g[i - 1] = "first" THEN "second" ELSE "first"
           Known == {n \in Nat : \E g : g = [i \in 1..n |-> Body(g, i)]}
<1>1. 0 \in Known
  <2> DEFINE g == [i \in 1..0 |-> "first"]
  <2>1. \A h : [i \in 1..0 |-> Body(h, i)] = [i \in 1..0 |-> "first"]
    OBVIOUS
  <2>2. g = [i \in 1..0 |-> Body(g, i)]
    BY <2>1
  <2> QED
    BY <2>2
<1>2. ASSUME NEW n \in 1..Len(s), n - 1 \in Known PROVE n \in Known
  <2>1. PICK g : g = [i \in 1..(n - 1) |-> Body(g, i)]
    BY <1>2
  <2> DEFINE h == [i \in 1..n |-> IF i = n THEN Body(g, n) ELSE g[i]]
  <2>2. ASSUME NEW i \in 1..n PROVE h[i] = Body(h, i)
    <3>1. i # 1 => h[i - 1] = g[i - 1]
      OBVIOUS
    <3>2. CASE i = n
      BY <3>1, <3>2
    <3>3. CASE i # n
      <4>1. i \in 1..(n - 1) /\ h[i] = g[i]
        BY <3>3
      <4>2. g[i] = Body(g, i)
        BY <2>1, <4>1
      <4> QED
        BY <3>1, <4>1, <4>2
    <3> QED
      BY <3>2, <3>3
  <2>3. h = [i \in 1..n |-> Body(h, i)]
    BY <2>2
  <2> HIDE DEF h, Body
  <2> QED
    BY <2>3
<1>3. 0..Len(s) \subseteq Known
  <2>1. \A i \in Nat : 0 < i /\ i <= Len(s) /\ i - 1 \in Known => i \in Known
    <3> HIDE DEF Known
    <3> QED
      BY <1>2
  <2> HIDE DEF Known
  <2> QED
    BY <1>1, <2>1, PlaceByPlace
<1>4. PICK g : g = [i \in 1..Len(s) |-> Body(g, i)]
  BY <1>3
<1>5. Standing(s) = [i \in 1..Len(s) |-> Body(Standing(s), i)]
  BY <1>4 DEF Standing
<1> QED
  BY <1>5

(* A function on the first n places is a sequence. *)
LEMMA PlacesMakeSeq ==
  ASSUME NEW S, NEW n \in Nat, NEW f, f = [i \in 1..n |-> f[i]],
         \A i \in 1..n : f[i] \in S
  PROVE  f \in Seq(S) /\ Len(f) = n
<1>1. f \in [1..n -> S]
  OBVIOUS
<1>2. f \in Seq(S)
  BY <1>1, SeqDef
<1>3. DOMAIN f = 1..n
  BY <1>1
<1>4. Len(f) = n
  BY <1>2, <1>3, LenProperties
<1> QED
  BY <1>2, <1>4

(* Sequences are put together one behind the other; g[i] is what the first *)
(* i of them make.                                                         *)
LEMMA FlatGrows ==
  ASSUME NEW S, NEW seqs \in Seq(Seq(S)), Len(seqs) # 0
  PROVE  \E g : /\ \A i \in 1..Len(seqs) :
                     g[i] \in Seq(S) /\ g[i] = IF i = 1 THEN seqs[i] ELSE g[i - 1] \o seqs[i]
                /\ FlattenSeq(seqs) = g[Len(seqs)]
<1>1. Len(seqs) \in Nat /\ \A i \in 1..Len(seqs) : seqs[i] \in Seq(S)
  BY LenProperties, ElementOfSeq
<1> DEFINE Body(g, i) == IF i = 1 THEN seqs[i] ELSE g[i - 1] \o seqs[i]
           Flat == {n \in Nat : \E g : /\ g = [i \in 1..n |-> Body(g, i)]
                                      /\ \A i \in 1..n : g[i] \in Seq(S)}
<1>2. Len(seqs) \in 1..Len(seqs) /\ 1 \in 1..Len(seqs)
  BY <1>1
<1>3. 1 \in Flat
  <2> DEFINE g == [i \in 1..1 |-> seqs[1]]
  <2>1. g = [i \in 1..1 |-> Body(g, i)] /\ \A i \in 1..1 : g[i] \in Seq(S)
    BY <1>1
  <2> QED
    BY <2>1
<1>4. ASSUME NEW n \in 2..Len(seqs), n - 1 \in Flat PROVE n \in Flat
  <2>1. PICK g : g = [i \in 1..(n - 1) |-> Body(g, i)] /\ \A i \in 1..(n - 1) : g[i] \in Seq(S)
    BY <1>4
  <2> DEFINE h == [i \in 1..n |-> IF i = n THEN g[n - 1] \o seqs[n] ELSE g[i]]
  <2>2. ASSUME NEW i \in 1..n PROVE h[i] = Body(h, i) /\ h[i] \in Seq(S)
    <3>1. i # 1 => h[i - 1] = g[i - 1]
      BY <1>1
    <3>2. CASE i = n
      <4>0. n # 1
        BY <1>4
      <4>1. h[i] = g[n - 1] \o seqs[n]
        BY <3>2
      <4>2. g[n - 1] \in Seq(S) /\ seqs[n] \in Seq(S)
        BY <1>1, <2>1
      <4> HIDE DEF h
      <4>3. g[n - 1] \o seqs[n] \in Seq(S)
        BY <4>2, ConcatProperties
      <4> QED
        BY <3>1, <3>2, <4>0, <4>1, <4>3
    <3>3. CASE i # n
      <4>1. i \in 1..(n - 1) /\ h[i] = g[i]
        BY <1>1, <3>3
      <4>2. g[i] = Body(g, i) /\ g[i] \in Seq(S)
        BY <2>1, <4>1
      <4> QED
        BY <3>1, <4>1, <4>2
    <3> QED
      BY <3>2, <3>3
  <2>3. h = [i \in 1..n |-> Body(h, i)] /\ \A i \in 1..n : h[i] \in Seq(S)
    BY <2>2
  <2>4. n \in Nat
    BY <1>1
  <2> HIDE DEF h, Body
  <2> QED
    BY <2>3, <2>4
<1>5. Len(seqs) \in Flat
  <2>1. \A i \in Nat : 1 < i /\ i <= Len(seqs) /\ i - 1 \in Flat => i \in Flat
    <3> HIDE DEF Flat
    <3> QED
      BY <1>1, <1>4
  <2> HIDE DEF Flat
  <2>2. 1..Len(seqs) \subseteq Flat
    BY <1>1, <1>3, <2>1, PlaceByPlace
  <2> QED
    BY <1>2, <2>2
<1> DEFINE flatten == CHOOSE g : g = [i \in 1..Len(seqs) |-> Body(g, i)]
<1>6. PICK g : /\ g = [i \in 1..Len(seqs) |-> Body(g, i)]
               /\ \A i \in 1..Len(seqs) : g[i] \in Seq(S)
  BY <1>5
<1>7. flatten = [i \in 1..Len(seqs) |-> Body(flatten, i)]
  BY <1>6
<1> DEFINE same == {i \in Nat : flatten[i] = g[i]}
<1>8. \A i \in 1..Len(seqs) : flatten[i] = Body(flatten, i) /\ g[i] = Body(g, i)
  <2> HIDE DEF Body, flatten
  <2> QED
    BY <1>6, <1>7
<1>9. 1..Len(seqs) \subseteq same
  <2> HIDE DEF flatten
  <2>1. 1 \in same
    BY <1>2, <1>8
  <2>2. \A i \in Nat : 1 < i /\ i <= Len(seqs) /\ i - 1 \in same => i \in same
    BY <1>1, <1>8
  <2> HIDE DEF same
  <2> QED
    BY <1>1, <2>1, <2>2, PlaceByPlace
<1>10. FlattenSeq(seqs) = flatten[Len(seqs)]
  BY DEF FlattenSeq
<1>11. FlattenSeq(seqs) = g[Len(seqs)]
  <2> HIDE DEF flatten
  <2>1. Len(seqs) \in same
    <3> HIDE DEF same
    <3> QED
      BY <1>2, <1>9
  <2> QED
    BY <1>10, <2>1
<1> HIDE DEF flatten
<1> QED
  BY <1>6, <1>8, <1>11

(* No sequences make an empty one. *)
LEMMA FlatOfNone == FlattenSeq(<<>>) = <<>>
  BY EmptySeq DEF FlattenSeq

(* What sequences are put together to is a sequence of their elements.     *)
LEMMA FlatIsSeq ==
  ASSUME NEW S, NEW seqs \in Seq(Seq(S))
  PROVE  FlattenSeq(seqs) \in Seq(S)
<1>1. Len(seqs) \in Nat
  BY LenProperties
<1>2. CASE Len(seqs) = 0
  <2>1. seqs = <<>>
    BY <1>2, EmptySeq, SeqEqual
  <2> QED
    BY <2>1, FlatOfNone, EmptySeq
<1>3. CASE Len(seqs) # 0
  <2>1. Len(seqs) \in 1..Len(seqs)
    BY <1>1, <1>3
  <2> QED
    BY <1>3, <2>1, FlatGrows
<1> QED
  BY <1>2, <1>3

(* One more goes behind all the others. *)
LEMMA FlatOfMore ==
  ASSUME NEW S, NEW seqs \in Seq(Seq(S)), NEW s \in Seq(S)
  PROVE  FlattenSeq(Append(seqs, s)) = FlattenSeq(seqs) \o s
<1> DEFINE more == Append(seqs, s)
           n == Len(seqs)
<1>1. /\ more \in Seq(Seq(S)) /\ Len(more) = n + 1 /\ n \in Nat
      /\ \A i \in 1..n : more[i] = seqs[i]
      /\ more[n + 1] = s
  BY AppendProperties, LenProperties
<1> HIDE DEF more
<1>2. PICK h : /\ \A i \in 1..(n + 1) :
                    h[i] \in Seq(S) /\ h[i] = IF i = 1 THEN more[i] ELSE h[i - 1] \o more[i]
               /\ FlattenSeq(more) = h[n + 1]
  <2>1. more \in Seq(Seq(S)) /\ Len(more) = n + 1 /\ Len(more) # 0
    BY <1>1
  <2>2. \E h : /\ \A i \in 1..Len(more) :
                    h[i] \in Seq(S) /\ h[i] = IF i = 1 THEN more[i] ELSE h[i - 1] \o more[i]
              /\ FlattenSeq(more) = h[Len(more)]
    BY <2>1, FlatGrows
  <2> QED
    BY <2>1, <2>2
<1>3. CASE n = 0
  <2>1. seqs = <<>>
    BY <1>3, EmptySeq, SeqEqual
  <2>2. FlattenSeq(more) = s
    BY <1>1, <1>2, <1>3
  <2>3. <<>> \o s = s
    BY ConcatEmptySeq
  <2> QED
    BY <2>1, <2>2, <2>3, FlatOfNone DEF more
<1>4. CASE n # 0
  <2>1. PICK g : /\ \A i \in 1..n : g[i] \in Seq(S) /\ g[i] = IF i = 1 THEN seqs[i] ELSE g[i - 1] \o seqs[i]
                 /\ FlattenSeq(seqs) = g[n]
    BY <1>4, FlatGrows
  <2> DEFINE same == {i \in Nat : g[i] = h[i]}
  <2>2. 1..n \subseteq same
    <3>0. 1 \in 1..n /\ \A i \in Nat : 1 < i /\ i <= n => i \in 1..n /\ i \in 1..(n + 1) /\ i # 1
      BY <1>1, <1>4
    <3>1. 1 \in same
      BY <1>1, <1>2, <2>1, <3>0
    <3>2. \A i \in Nat : 1 < i /\ i <= n /\ i - 1 \in same => i \in same
      BY <1>1, <1>2, <2>1, <3>0
    <3> HIDE DEF same
    <3> QED
      BY <1>1, <3>1, <3>2, PlaceByPlace
  <2>3. g[n] = h[n]
    <3>1. n \in 1..n
      BY <1>1, <1>4
    <3> QED
      BY <2>2, <3>1
  <2>4. h[n + 1] = h[n] \o s
    <3>1. n + 1 \in 1..(n + 1) /\ n + 1 # 1 /\ (n + 1) - 1 = n
      BY <1>1, <1>4
    <3> QED
      BY <1>1, <1>2, <3>1
  <2> QED
    BY <1>2, <2>1, <2>3, <2>4 DEF more
<1> QED
  BY <1>3, <1>4

(* Two lists of sequences can be put together each by itself. *)
LEMMA FlatOfBoth ==
  ASSUME NEW S, NEW a \in Seq(Seq(S)), NEW b \in Seq(Seq(S))
  PROVE  FlattenSeq(a \o b) = FlattenSeq(a) \o FlattenSeq(b)
<1> DEFINE good == {n \in Nat : FlattenSeq(a \o SubSeq(b, 1, n)) =
                               FlattenSeq(a) \o FlattenSeq(SubSeq(b, 1, n))}
<1>1. Len(b) \in Nat /\ FlattenSeq(a) \in Seq(S)
  BY LenProperties, FlatIsSeq
<1>2. 0 \in good
  <2>1. SubSeq(b, 1, 0) = <<>>
    BY SubSeqEmpty
  <2>2. a \o <<>> = a /\ FlattenSeq(a) \o <<>> = FlattenSeq(a)
    BY <1>1, ConcatEmptySeq
  <2> QED
    BY <2>1, <2>2, FlatOfNone
<1>3. ASSUME NEW n \in Nat, 0 < n, n <= Len(b), n - 1 \in good PROVE n \in good
  <2> DEFINE c == SubSeq(b, 1, n - 1)
  <2>1. n \in 1..Len(b) /\ b[n] \in Seq(S)
    BY <1>1, <1>3, ElementOfSeq
  <2>2. SubSeq(b, 1, n) = Append(c, b[n])
    BY <1>1, <1>3, <2>1, SubSeqRecursiveSecond
  <2>3. c \in Seq(Seq(S))
    <3>1. \A i \in 1..(n - 1) : i \in 1..Len(b)
      BY <1>1, <1>3
    <3> QED
      BY <3>1, <1>3, SubSeqProperties, <1>1
  <2> HIDE DEF c
  <2>4. a \o Append(c, b[n]) = Append(a \o c, b[n])
    BY <2>1, <2>3, ConcatSimplifications
  <2>5. a \o c \in Seq(Seq(S)) /\ FlattenSeq(c) \in Seq(S)
    BY <2>3, ConcatProperties, FlatIsSeq
  <2>6. FlattenSeq(a \o SubSeq(b, 1, n)) = FlattenSeq(a \o c) \o b[n]
    BY <2>1, <2>2, <2>4, <2>5, FlatOfMore
  <2>7. FlattenSeq(SubSeq(b, 1, n)) = FlattenSeq(c) \o b[n]
    BY <2>1, <2>2, <2>3, FlatOfMore
  <2>8. FlattenSeq(a \o c) = FlattenSeq(a) \o FlattenSeq(c)
    BY <1>3 DEF c
  <2>9. (FlattenSeq(a) \o FlattenSeq(c)) \o b[n] = FlattenSeq(a) \o (FlattenSeq(c) \o b[n])
    <3> DEFINE p == FlattenSeq(a)
               q == FlattenSeq(c)
               t == b[n]
    <3>1. p \in Seq(S) /\ q \in Seq(S) /\ t \in Seq(S)
      BY <1>1, <2>1, <2>5
    <3> HIDE DEF p, q, t
    <3>2. (p \o q) \o t = p \o (q \o t)
      BY <3>1, ConcatAssociative
    <3> QED
      BY <3>2 DEF p, q, t
  <2> QED
    BY <1>3, <2>6, <2>7, <2>8, <2>9
<1>4. Len(b) \in good
  <2>1. \A n \in Nat : 0 < n /\ n <= Len(b) /\ n - 1 \in good => n \in good
    <3> HIDE DEF good
    <3> QED
      BY <1>3
  <2> HIDE DEF good
  <2>2. 0..Len(b) \subseteq good
    BY <1>1, <1>2, <2>1, PlaceByPlace
  <2> QED
    BY <1>1, <2>2
<1>5. SubSeq(b, 1, Len(b)) = b
  BY SubSeqFull
<1> QED
  BY <1>4, <1>5

-----------------------------------------------------------------------------
(* A pair of surrogates stands for a code point above those of one escape. *)
LEMMA PairIsPoint ==
  ASSUME NEW lead, Lead(lead), NEW trail, Trail(trail)
  PROVE  /\ PointOfPair(lead, trail) = Hex + 1024 * (lead - 55296) + (trail - 56320)
         /\ PointOfPair(lead, trail) \in Nat
         /\ 65536 <= PointOfPair(lead, trail) /\ PointOfPair(lead, trail) <= 1114111
<1>1. lead \in 55296..56319 /\ trail \in 56320..57343
  BY DEF Lead, Trail
<1>2. (lead - 55296) % 1024 = lead - 55296 /\ (trail - 56320) % 1024 = trail - 56320
  BY <1>1
<1>3. PointOfPair(lead, trail) = 1024 * (lead - 55296) + (trail - 56320) + 65536
  BY <1>2 DEF PointOfPair
<1> DEFINE point == PointOfPair(lead, trail)
<1>4. point = 1024 * (lead - 55296) + (trail - 56320) + 65536
  BY <1>3
<1> HIDE DEF point
<1>5. /\ point = Hex + 1024 * (lead - 55296) + (trail - 56320)
      /\ point \in Nat /\ 65536 <= point /\ point <= 1114111
  BY <1>1, <1>4 DEF Hex
<1> QED
  BY <1>5 DEF point

(* A code point becomes at most four bytes. *)
LEMMA BytesFew ==
  ASSUME NEW p \in Nat
  PROVE  Bytes(p) \in Seq(Nat) /\ Len(Bytes(p)) \in Nat /\ Len(Bytes(p)) <= 4
<1> DEFINE b1 == ((p \div 64) % 32) + 192
           b2 == ((p \div 4096) % 16) + 224
           b3 == ((p \div 262144) % 8) + 240
<1>1. /\ b1 \in Nat /\ b2 \in Nat /\ b3 \in Nat
      /\ Rest(p, 1) \in Nat /\ Rest(p, 64) \in Nat /\ Rest(p, 4096) \in Nat
  BY DEF Rest
<1> HIDE DEF b1, b2, b3
<1>2. /\ <<p>> \in Seq(Nat) /\ <<b1, Rest(p, 1)>> \in Seq(Nat)
      /\ <<b2, Rest(p, 64), Rest(p, 1)>> \in Seq(Nat)
      /\ <<b3, Rest(p, 4096), Rest(p, 64), Rest(p, 1)>> \in Seq(Nat)
  BY <1>1
<1>3. /\ Len(<<p>>) = 1 /\ Len(<<b1, Rest(p, 1)>>) = 2
      /\ Len(<<b2, Rest(p, 64), Rest(p, 1)>>) = 3
      /\ Len(<<b3, Rest(p, 4096), Rest(p, 64), Rest(p, 1)>>) = 4
  OBVIOUS
<1>4. \/ Bytes(p) = <<p>> \/ Bytes(p) = <<b1, Rest(p, 1)>>
      \/ Bytes(p) = <<b2, Rest(p, 64), Rest(p, 1)>>
      \/ Bytes(p) = <<b3, Rest(p, 4096), Rest(p, 64), Rest(p, 1)>>
  BY DEF Bytes, b1, b2, b3
<1>5. CASE Bytes(p) = <<p>>
  BY <1>2, <1>3, <1>5
<1>6. CASE Bytes(p) = <<b1, Rest(p, 1)>>
  BY <1>2, <1>3, <1>6
<1>7. CASE Bytes(p) = <<b2, Rest(p, 64), Rest(p, 1)>>
  BY <1>2, <1>3, <1>7
<1>8. CASE Bytes(p) = <<b3, Rest(p, 4096), Rest(p, 64), Rest(p, 1)>>
  BY <1>2, <1>3, <1>8
<1> QED
  BY <1>4, <1>5, <1>6, <1>7, <1>8

(* What an escape becomes is a byte. *)
LEMMA EscapedByte ==
  ASSUME NEW c \in DOMAIN Escaped
  PROVE  Escaped[c] \in Nat
<1>1. DOMAIN Escaped = {Quote, Backslash, 47, 98, 102, 110, 114, 116}
  BY DEF Escaped
<1>2. c \in {Quote, Backslash, 47, 98, 102, 110, 114, 116} /\ c \in Nat
  BY <1>1 DEF Quote, Backslash
<1>3. Escaped[c] = CASE c = 98  -> 8
                     [] c = 102 -> 12
                     [] c = 110 -> 10
                     [] c = 114 -> 13
                     [] c = 116 -> 9
                     [] OTHER   -> c
  BY <1>2 DEF Escaped
<1>4. Escaped[c] \in {8, 12, 10, 13, 9, c}
  BY <1>2, <1>3
<1> QED
  BY <1>2, <1>4

-----------------------------------------------------------------------------
(* The shape of the state; where skip_quotes is, and that it has passed    *)
(* only what belongs to the string; where process_string is, and how much  *)
(* it has written.                                                         *)
Shape ==
  /\ step \in {"open", "skip", "copy", "done", "failed"}
  /\ text \in Seq(Nat) /\ Len(text) >= 2 /\ text[Len(text)] = NUL
  /\ at \in Nat /\ close \in Nat /\ output \in Seq(Nat)

(* No place from the opening quote to n begins the end of the string. *)
NoEndBefore(n) ==
  \A i \in 2..(n - 1) : Standing(text)[i] = "first" => text[i] \notin {Quote, NUL}

SkipInv ==
  /\ step = "open" => at = 1 /\ output = <<>>
  /\ step = "skip" =>
       /\ text[1] = Quote /\ 2 <= at /\ at <= Len(text) /\ output = <<>>
       /\ Standing(text)[at] = "first" /\ NoEndBefore(at)

CopyInv ==
  step \in {"copy", "done"} =>
    /\ text[1] = Quote /\ 2 <= at /\ at <= close /\ close <= Len(text) /\ text[close] = Quote
    /\ Standing(text)[at] = "first" /\ Standing(text)[close] = "first" /\ NoEndBefore(close)
    /\ Len(output) <= LengthTo(at)

StringInv == Shape /\ SkipInv /\ CopyInv

LEMMA InitString == Init => StringInv
<1> SUFFICES ASSUME Init PROVE StringInv
  OBVIOUS
<1>1. PICK n \in 0..MaxUnits : units \in [1..n -> Units]
  BY DEF Init
<1> DEFINE parts == [i \in DOMAIN units |-> units[i].chars]
           flat == Inside
<1>2. flat \in Seq(Nat)
  <2>1. n \in Nat
    BY <1>1, MaxUnitsAssumption
  <2>2. \A i \in 1..n : parts[i] \in Seq(Nat)
    BY <1>1, UnitsAssumption
  <2>3. parts \in [1..n -> Seq(Nat)]
    BY <1>1, <2>2
  <2>4. parts \in Seq(Seq(Nat))
    BY <2>1, <2>3, SeqDef
  <2>5. flat = FlattenSeq(parts)
    BY DEF Inside
  <2> HIDE DEF parts, flat
  <2> QED
    BY <2>4, <2>5, FlatIsSeq
<1>3. PICK first \in {Quote, 120},
           last \in {<<Quote, Comma, NUL>>, <<NUL>>, <<Backslash, Quote, NUL>>} :
        text = <<first>> \o flat \o last
  BY DEF Init
<1> HIDE DEF flat
<1>4. last \in Seq(Nat) /\ Len(last) \in Nat /\ Len(last) >= 1 /\ last[Len(last)] = NUL
  <2>1. CASE last = <<Quote, Comma, NUL>>
    BY <2>1 DEF Quote, Comma, NUL
  <2>2. CASE last = <<NUL>>
    BY <2>2 DEF NUL
  <2>3. CASE last = <<Backslash, Quote, NUL>>
    BY <2>3 DEF Quote, Backslash, NUL
  <2> QED
    BY <2>1, <2>2, <2>3
<1>5. <<first>> \o flat \in Seq(Nat) /\ Len(<<first>> \o flat) = 1 + Len(flat)
  <2>1. <<first>> \in Seq(Nat) /\ Len(<<first>>) = 1
    BY DEF Quote
  <2> QED
    BY <1>2, <2>1, ConcatProperties
<1> DEFINE front == <<first>> \o flat
<1>6. Len(front) \in Nat /\ Len(front) >= 1 /\ front \in Seq(Nat)
  BY <1>2, <1>5, LenProperties
<1> HIDE DEF front
<1>7. /\ text \in Seq(Nat) /\ Len(text) = Len(front) + Len(last)
      /\ text[Len(front) + Len(last)] = last[Len(last)]
  <2>1. /\ text \in Seq(Nat) /\ Len(text) = Len(front) + Len(last)
        /\ \A i \in 1..(Len(front) + Len(last)) :
             text[i] = IF i <= Len(front) THEN front[i] ELSE last[i - Len(front)]
    BY <1>3, <1>4, <1>6, ConcatProperties DEF front
  <2>2. /\ Len(front) + Len(last) \in 1..(Len(front) + Len(last))
        /\ ~(Len(front) + Len(last) <= Len(front))
        /\ (Len(front) + Len(last)) - Len(front) = Len(last)
    BY <1>4, <1>6
  <2> QED
    BY <2>1, <2>2
<1>8. Len(text) >= 2 /\ text[Len(text)] = NUL
  BY <1>4, <1>6, <1>7
<1>9. step = "open" /\ at = 1 /\ close = 0 /\ output = <<>>
  BY DEF Init
<1>10. output \in Seq(Nat)
  BY <1>9, EmptySeq
<1> QED
  BY <1>7, <1>8, <1>9, <1>10 DEF StringInv, Shape, SkipInv, CopyInv

(* How the reader stands one and two places further on. *)
LEMMA StandsNext ==
  ASSUME Shape, NEW i \in Nat, 1 <= i, i < Len(text), Standing(text)[i] = "first"
  PROVE  /\ text[i] # Backslash => Standing(text)[i + 1] = "first"
         /\ text[i] = Backslash => Standing(text)[i + 1] = "second"
         /\ text[i] = Backslash /\ i + 1 < Len(text) => Standing(text)[i + 2] = "first"
<1>1. Len(text) \in Nat
  BY LenProperties DEF Shape
<1>2. i + 1 \in 1..Len(text) /\ i + 1 # 1 /\ (i + 1) - 1 = i
  BY <1>1
<1>3. Standing(text)[i + 1] = IF text[i] = Backslash THEN "second" ELSE "first"
  BY <1>1, <1>2, StandingFollows
<1>4. ASSUME text[i] = Backslash, i + 1 < Len(text) PROVE Standing(text)[i + 2] = "first"
  <2>1. i + 2 \in 1..Len(text) /\ i + 2 # 1 /\ (i + 2) - 1 = i + 1
    BY <1>1, <1>4
  <2>2. Standing(text)[i + 1] # "first"
    BY <1>3, <1>4
  <2> QED
    BY <1>1, <2>1, <2>2, StandingFollows
<1> QED
  BY <1>3, <1>4

(* A place that is not the NUL has another behind it. *)
LEMMA NotLast ==
  ASSUME Shape, NEW i \in Nat, i <= Len(text), text[i] # NUL
  PROVE  i < Len(text)
<1>1. Len(text) \in Nat /\ text[Len(text)] = NUL
  BY LenProperties DEF Shape
<1> QED
  BY <1>1

(* process_string reads ahead only while it is at or before the closing    *)
(* quote, and writes no more than it reads.                                *)
LEMMA CopyStep ==
  ASSUME Shape, CopyInv, step = "copy", NEW n \in Nat, NEW bytes \in Seq(Nat), Copies(bytes, n),
         NEW next, next = at + n, next <= close, Standing(text)[next] = "first",
         Len(bytes) <= LengthTo(next) - LengthTo(at)
  PROVE  Shape' /\ SkipInv' /\ CopyInv'
<1>1. /\ step' = step /\ text' = text /\ close' = close /\ at' = next
      /\ output' = output \o bytes
  BY DEF Copies
<1>2. /\ output' \in Seq(Nat) /\ Len(output') = Len(output) + Len(bytes)
      /\ Len(output) \in Nat /\ Len(bytes) \in Nat
  BY <1>1, ConcatProperties, LenProperties DEF Shape
<1>3. /\ at \in Nat /\ close \in Nat /\ Len(text) \in Nat /\ 2 <= at /\ close <= Len(text)
      /\ Len(output) <= LengthTo(at) /\ next \in Nat
  BY LenProperties DEF Shape, CopyInv
<1>4. LengthTo(at) \in Int /\ LengthTo(next) \in Int
  <2>1. /\ 1 \in 0..Len(text) /\ at - 1 \in 0..Len(text) /\ next - 1 \in 0..Len(text)
    BY <1>3
  <2>2. \A i \in 0..Len(text) : Lengths(text)[i] \in Nat
    <3>1. ASSUME NEW i \in 0..Len(text) PROVE i \in i..Len(text)
      BY <1>3
    <3>2. text \in Seq(Nat)
      BY DEF Shape
    <3> QED
      BY <3>1, <3>2, LengthsGrow
  <2> QED
    BY <2>1, <2>2 DEF LengthTo
<1>5. Len(output') <= LengthTo(next)
  BY <1>2, <1>3, <1>4
<1>6. LengthTo(at)' = LengthTo(next)
  BY <1>1 DEF LengthTo
<1>7. Shape'
  BY <1>1, <1>2, <1>3 DEF Shape
<1>8. SkipInv'
  BY <1>1 DEF SkipInv
<1>9. CopyInv'
  <2>1. NoEndBefore(close)'
    BY <1>1 DEF CopyInv, NoEndBefore
  <2> QED
    BY <1>1, <1>3, <1>5, <1>6, <2>1 DEF CopyInv
<1> QED
  BY <1>7, <1>8, <1>9

(* Going on by some elements is going on by as many characters at least,   *)
(* and by three more when the last of them is the digits of an escape.     *)
LEMMA LengthAhead ==
  ASSUME Shape, NEW i \in Nat, NEW j \in Nat, 2 <= i, i < j, j - 1 <= Len(text)
  PROVE  /\ LengthTo(j) - LengthTo(i) \in Nat
         /\ j - i <= LengthTo(j) - LengthTo(i)
         /\ text[j - 1] >= Hex => j - i + 3 <= LengthTo(j) - LengthTo(i)
<1> DEFINE L == Lengths(text)
<1>1. text \in Seq(Nat) /\ Len(text) \in Nat
  BY LenProperties DEF Shape
<1>2. /\ 1 \in 0..Len(text) /\ 1 \in 1..Len(text) /\ i - 1 \in 1..Len(text)
      /\ i - 1 \in 0..Len(text) /\ j - 1 \in (i - 1)..Len(text)
      /\ j - 2 \in (i - 1)..Len(text) /\ j - 1 \in 1..Len(text)
  BY <1>1
<1>3. L[1] \in Nat /\ L[i - 1] \in Nat
  BY <1>1, <1>2, LengthsGrow
<1>4. L[j - 1] \in Nat /\ L[j - 1] >= L[i - 1] + ((j - 1) - (i - 1))
  BY <1>1, <1>2, LengthsGrow
<1>5. L[j - 2] \in Nat /\ L[j - 2] >= L[i - 1] + ((j - 2) - (i - 1))
  BY <1>1, <1>2, LengthsGrow
<1>6. L[j - 1] = L[(j - 1) - 1] + Width(text[j - 1])
  BY <1>1, <1>2, LengthsAddUp
<1>7. (j - 1) - 1 = j - 2
  OBVIOUS
<1>8. LengthTo(j) = L[j - 1] - L[1] /\ LengthTo(i) = L[i - 1] - L[1]
  BY DEF LengthTo
<1> HIDE DEF L
<1>9. LengthTo(j) - LengthTo(i) \in Nat /\ j - i <= LengthTo(j) - LengthTo(i)
  BY <1>3, <1>4, <1>8
<1>10. ASSUME text[j - 1] >= Hex PROVE j - i + 3 <= LengthTo(j) - LengthTo(i)
  <2>1. L[j - 1] = L[j - 2] + 4
    BY <1>6, <1>7, <1>10 DEF Width
  <2> DEFINE first == L[1]
             from == L[i - 1]
             upto == L[j - 2]
  <2>2. first \in Nat /\ from \in Nat /\ upto \in Nat /\ upto >= from + ((j - 2) - (i - 1))
    BY <1>3, <1>5
  <2>3. LengthTo(j) = (upto + 4) - first /\ LengthTo(i) = from - first
    BY <1>8, <2>1
  <2> HIDE DEF first, from, upto
  <2>4. j - i + 3 <= ((upto + 4) - first) - (from - first)
    BY <2>2
  <2> QED
    BY <2>3, <2>4
<1> QED
  BY <1>9, <1>10

(* Where process_string stands: at a backslash, the character behind is    *)
(* inside the string too, and what follows it begins something.            *)
LEMMA AtBackslash ==
  ASSUME Shape, NEW i \in Nat, 2 <= i, i < close, close <= Len(text), text[close] = Quote,
         Standing(text)[close] = "first", Standing(text)[i] = "first", text[i] = Backslash
  PROVE  i + 2 <= close /\ Standing(text)[i + 2] = "first"
<1>1. Len(text) \in Nat /\ close \in Nat
  BY LenProperties DEF Shape
<1>2. Standing(text)[i + 1] = "second"
  BY <1>1, StandsNext
<1>3. i + 1 # close
  BY <1>2
<1>4. i + 1 < Len(text)
  BY <1>1, <1>3
<1>5. Standing(text)[i + 2] = "first"
  BY <1>1, <1>4, StandsNext
<1> QED
  BY <1>1, <1>3, <1>5

(* Digits of an escape, neither a quote nor a backslash, do not end it.    *)
LEMMA AtHex ==
  ASSUME Shape, NEW i \in Nat, 2 <= i, i <= close, close <= Len(text), text[close] = Quote,
         Standing(text)[i] = "first", text[i] >= Hex
  PROVE  i + 1 <= close /\ Standing(text)[i + 1] = "first"
<1>1. Len(text) \in Nat /\ close \in Nat
  BY LenProperties DEF Shape
<1>2. text[i] # Quote /\ text[i] # Backslash
  BY DEF Hex, Quote, Backslash
<1>3. i < close /\ i < Len(text)
  BY <1>1, <1>2
<1> QED
  BY <1>1, <1>2, <1>3, StandsNext

LEMMA CopiesStep ==
  ASSUME Shape, CopyInv, CopyPlain \/ CopyEscaped \/ CopyUtf16 \/ CopyPair
  PROVE  Shape' /\ SkipInv' /\ CopyInv'
<1>1. step = "copy" /\ at < close
  BY DEF CopyPlain, CopyEscaped, CopyUtf16, CopyPair, AtUtf16, AtEscape, InString
<1>2. /\ at \in Nat /\ close \in Nat /\ Len(text) \in Nat /\ text \in Seq(Nat)
      /\ 2 <= at /\ close <= Len(text) /\ text[close] = Quote
      /\ Standing(text)[at] = "first" /\ Standing(text)[close] = "first"
  BY <1>1, LenProperties DEF Shape, CopyInv
<1>3. \A i \in 1..Len(text) : text[i] \in Nat
  BY <1>2, ElementOfSeq
<1>4. CASE CopyPlain
  <2> DEFINE bytes == <<text[at]>>
             next == at + 1
  <2>1. text[at] # Backslash /\ Copies(bytes, 1)
    BY <1>4 DEF CopyPlain
  <2>2. bytes \in Seq(Nat) /\ Len(bytes) = 1
    <3>1. text[at] \in Nat
      BY <1>1, <1>2, <1>3
    <3> QED
      BY <3>1
  <2>3. /\ next \in Nat /\ next = at + 1 /\ at < next /\ next <= close
        /\ next - 1 <= Len(text) /\ next - at = 1
    BY <1>1, <1>2
  <2>4. Standing(text)[next] = "first"
    BY <1>1, <1>2, <2>1, StandsNext
  <2> HIDE DEF bytes, next
  <2>5. /\ LengthTo(next) - LengthTo(at) \in Nat
        /\ next - at <= LengthTo(next) - LengthTo(at)
    BY <1>2, <2>3, LengthAhead
  <2>6. Len(bytes) <= LengthTo(next) - LengthTo(at)
    BY <2>2, <2>3, <2>5
  <2> QED
    BY <1>1, <2>1, <2>2, <2>3, <2>4, <2>6, CopyStep
<1>5. CASE CopyEscaped
  <2> DEFINE byte == Escaped[text[at + 1]]
             bytes == <<byte>>
             next == at + 2
  <2>1. text[at] = Backslash /\ text[at + 1] \in DOMAIN Escaped /\ Copies(bytes, 2)
    BY <1>5 DEF CopyEscaped, AtEscape
  <2>2. byte \in Nat
    BY <2>1, EscapedByte
  <2> HIDE DEF byte
  <2>3. bytes \in Seq(Nat) /\ Len(bytes) = 1
    BY <2>2
  <2>4. next <= close /\ Standing(text)[next] = "first"
    BY <1>1, <1>2, <2>1, AtBackslash
  <2>5. /\ next \in Nat /\ next = at + 2 /\ at < next /\ next - 1 <= Len(text)
        /\ next - at = 2
    BY <1>2, <2>4
  <2> HIDE DEF bytes, next
  <2>6. /\ LengthTo(next) - LengthTo(at) \in Nat
        /\ next - at <= LengthTo(next) - LengthTo(at)
    BY <1>2, <2>5, LengthAhead
  <2>7. Len(bytes) <= LengthTo(next) - LengthTo(at)
    BY <2>3, <2>5, <2>6
  <2> QED
    BY <1>1, <2>1, <2>3, <2>4, <2>5, <2>7, CopyStep
<1>6. CASE CopyUtf16
  <2> DEFINE p == HexAt(at + 2)
             next == at + 3
  <2>1. text[at] = Backslash /\ IsHex(at + 2) /\ Copies(Bytes(p), 3)
    BY <1>6 DEF CopyUtf16, AtUtf16, AtEscape
  <2>2. at + 2 <= close /\ Standing(text)[at + 2] = "first"
    BY <1>1, <1>2, <2>1, AtBackslash
  <2>3. at + 2 <= Len(text) /\ text[at + 2] >= Hex /\ text[at + 2] \in Nat
    BY <1>2, <1>3, <2>1 DEF IsHex
  <2>4. (at + 2) + 1 <= close /\ Standing(text)[(at + 2) + 1] = "first"
    BY <1>2, <2>2, <2>3, AtHex
  <2>5. (at + 2) + 1 = next /\ next - 1 = at + 2
    BY <1>2
  <2>6. /\ next \in Nat /\ next = at + 3 /\ at < next /\ next <= close
        /\ next - 1 <= Len(text) /\ next - at = 3 /\ text[next - 1] >= Hex
        /\ Standing(text)[next] = "first"
    BY <1>2, <2>3, <2>4, <2>5
  <2>7. p \in Nat
    BY <2>3 DEF HexAt, Hex
  <2> HIDE DEF p, next
  <2>8. Bytes(p) \in Seq(Nat) /\ Len(Bytes(p)) \in Nat /\ Len(Bytes(p)) <= 4
    BY <2>7, BytesFew
  <2>9. /\ LengthTo(next) - LengthTo(at) \in Nat
        /\ next - at + 3 <= LengthTo(next) - LengthTo(at)
    BY <1>2, <2>6, LengthAhead
  <2>10. Len(Bytes(p)) <= LengthTo(next) - LengthTo(at)
    <3> DEFINE ahead == LengthTo(next) - LengthTo(at)
               few == Len(Bytes(p))
    <3>1. ahead \in Nat /\ 6 <= ahead /\ few \in Nat /\ few <= 4
      BY <2>6, <2>8, <2>9
    <3> HIDE DEF ahead, few
    <3>2. few <= ahead
      BY <3>1
    <3> QED
      BY <3>2 DEF ahead, few
  <2> QED
    BY <1>1, <2>1, <2>6, <2>8, <2>10, CopyStep
<1>7. CASE CopyPair
  <2> DEFINE p == PointOfPair(HexAt(at + 2), HexAt(at + 5))
             next == at + 6
  <2>1. /\ text[at] = Backslash /\ IsHex(at + 2) /\ Lead(HexAt(at + 2))
        /\ text[at + 3] = Backslash /\ IsHex(at + 5) /\ Trail(HexAt(at + 5))
        /\ Copies(Bytes(p), 6)
    BY <1>7 DEF CopyPair, AtUtf16, AtEscape, TrailFollows
  <2>2. at + 2 <= close /\ Standing(text)[at + 2] = "first"
    BY <1>1, <1>2, <2>1, AtBackslash
  <2>3. /\ at + 2 <= Len(text) /\ text[at + 2] >= Hex
        /\ at + 5 <= Len(text) /\ text[at + 5] >= Hex
    BY <2>1 DEF IsHex
  <2>4. at + 3 <= close /\ Standing(text)[at + 3] = "first"
    <3>1. (at + 2) + 1 <= close /\ Standing(text)[(at + 2) + 1] = "first"
      BY <1>2, <2>2, <2>3, AtHex
    <3>2. (at + 2) + 1 = at + 3
      BY <1>2
    <3> QED
      BY <3>1, <3>2
  <2>5. at + 5 <= close /\ Standing(text)[at + 5] = "first"
    <3>1. at + 3 < close
      BY <1>2, <2>1, <2>4 DEF Quote, Backslash
    <3>2. (at + 3) + 2 <= close /\ Standing(text)[(at + 3) + 2] = "first"
      BY <1>2, <2>1, <2>4, <3>1, AtBackslash
    <3>3. (at + 3) + 2 = at + 5
      BY <1>2
    <3> QED
      BY <3>2, <3>3
  <2>6. next <= close /\ Standing(text)[next] = "first"
    <3>1. (at + 5) + 1 <= close /\ Standing(text)[(at + 5) + 1] = "first"
      BY <1>2, <2>3, <2>5, AtHex
    <3>2. (at + 5) + 1 = next
      BY <1>2
    <3> QED
      BY <3>1, <3>2
  <2>7. p \in Nat
    BY <2>1, PairIsPoint
  <2>8. /\ next \in Nat /\ next = at + 6 /\ at < next /\ next - 1 <= Len(text)
        /\ next - at = 6
    BY <1>2, <2>6
  <2> HIDE DEF p, next
  <2>9. Bytes(p) \in Seq(Nat) /\ Len(Bytes(p)) \in Nat /\ Len(Bytes(p)) <= 4
    BY <2>7, BytesFew
  <2>10. /\ LengthTo(next) - LengthTo(at) \in Nat
         /\ next - at <= LengthTo(next) - LengthTo(at)
    BY <1>2, <2>8, LengthAhead
  <2>11. Len(Bytes(p)) <= LengthTo(next) - LengthTo(at)
    <3> DEFINE ahead == LengthTo(next) - LengthTo(at)
               few == Len(Bytes(p))
    <3>1. ahead \in Nat /\ 6 <= ahead /\ few \in Nat /\ few <= 4
      BY <2>8, <2>9, <2>10
    <3> HIDE DEF ahead, few
    <3>2. few <= ahead
      BY <3>1
    <3> QED
      BY <3>2 DEF ahead, few
  <2> QED
    BY <1>1, <2>1, <2>6, <2>8, <2>9, <2>11, CopyStep
<1> QED
  BY <1>4, <1>5, <1>6, <1>7

(* Every step of the two passes keeps the invariant. *)
LEMMA NextString == StringInv /\ [Next]_vars => StringInv'
<1> SUFFICES ASSUME StringInv, [Next]_vars PROVE StringInv'
  OBVIOUS
<1>1. Shape /\ SkipInv /\ CopyInv
  BY DEF StringInv
<1>2. /\ Len(text) \in Nat /\ text \in Seq(Nat) /\ at \in Nat /\ close \in Nat
      /\ Len(text) >= 2 /\ text[Len(text)] = NUL /\ output \in Seq(Nat)
  BY <1>1, LenProperties DEF Shape
<1>3. ASSUME Fails PROVE StringInv'
  <2>1. step' = "failed" /\ UNCHANGED <<units, text, at, close, output>>
    BY <1>3 DEF Fails
  <2> QED
    BY <1>1, <2>1 DEF StringInv, Shape, SkipInv, CopyInv
<1>4. CASE OpeningQuote
  <2>1. /\ step = "open" /\ text[at] = Quote /\ step' = "skip" /\ at' = at + 1
        /\ text' = text /\ close' = close /\ output' = output
    BY <1>4 DEF OpeningQuote
  <2>2. at = 1 /\ output = <<>>
    BY <1>1, <2>1 DEF SkipInv
  <2>3. /\ 1 \in 1..Len(text) /\ 2 \in 1..Len(text) /\ 2 # 1 /\ 2 - 1 = 1
    BY <1>2
  <2>4. Standing(text)[2] = "first"
    <3>1. text[1] # Backslash
      BY <2>1, <2>2 DEF Quote, Backslash
    <3> QED
      BY <1>2, <2>3, <3>1, StandingFollows
  <2>5. at' = 2 /\ Standing(text')[at'] = "first" /\ text'[1] = Quote
    BY <2>1, <2>2, <2>4
  <2>6. NoEndBefore(at)'
    BY <2>5 DEF NoEndBefore
  <2> QED
    BY <1>1, <1>2, <2>1, <2>2, <2>5, <2>6 DEF StringInv, Shape, SkipInv, CopyInv
<1>5. CASE Skip \/ SkipEscaped
  <2>1. /\ step = "skip" /\ step' = step /\ text' = text /\ close' = close /\ output' = output
        /\ at' \in {at + 1, at + 2}
    BY <1>5 DEF Skip, SkipEscaped
  <2>2. /\ text[1] = Quote /\ 2 <= at /\ at <= Len(text) /\ output = <<>>
        /\ Standing(text)[at] = "first" /\ NoEndBefore(at)
    BY <1>1, <2>1 DEF SkipInv
  <2>3. text[at] \notin {Quote, NUL} /\ (at' = at + 2 => text[at] = Backslash /\ text[at + 1] # NUL)
    BY <1>2, <1>5 DEF Skip, SkipEscaped, Quote, NUL, Backslash
  <2>4. at < Len(text) /\ (at' = at + 2 => at + 1 < Len(text))
    <3>1. at < Len(text)
      BY <1>1, <1>2, <2>2, <2>3, NotLast
    <3>2. at + 1 \in Nat /\ at + 1 <= Len(text)
      BY <1>2, <3>1
    <3> QED
      BY <1>1, <2>3, <3>1, <3>2, NotLast
  <2>5. Standing(text)[at'] = "first" /\ (at' = at + 2 => Standing(text)[at + 1] = "second")
    <3>1. at' = at + 1 => text[at] # Backslash
      BY <1>2, <1>5 DEF Skip, SkipEscaped
    <3> QED
      BY <1>1, <1>2, <2>1, <2>2, <2>3, <2>4, <3>1, StandsNext
  <2>6. NoEndBefore(at)'
    <3>1. ASSUME NEW i \in 2..(at' - 1), Standing(text)[i] = "first"
          PROVE  text[i] \notin {Quote, NUL}
      <4>1. i \in 2..(at - 1) \/ i = at \/ (i = at + 1 /\ at' = at + 2)
        <5>1. CASE at' = at + 1
          BY <1>2, <5>1
        <5>2. CASE at' = at + 2
          BY <1>2, <5>2
        <5> QED
          BY <2>1, <5>1, <5>2
      <4>2. i # at + 1 \/ at' # at + 2
        BY <2>5, <3>1
      <4> QED
        BY <2>2, <2>3, <3>1, <4>1, <4>2 DEF NoEndBefore
    <3> QED
      BY <2>1, <3>1 DEF NoEndBefore
  <2>7. at' \in Nat /\ 2 <= at' /\ at' <= Len(text)
    BY <1>2, <2>1, <2>2, <2>4
  <2> QED
    BY <1>1, <1>2, <2>1, <2>2, <2>5, <2>6, <2>7 DEF StringInv, Shape, SkipInv, CopyInv
<1>6. CASE ClosingQuote
  <2>1. /\ step = "skip" /\ text[at] = Quote /\ step' = "copy" /\ close' = at /\ at' = 2
        /\ text' = text /\ output' = output
    BY <1>6 DEF ClosingQuote
  <2>2. /\ text[1] = Quote /\ 2 <= at /\ at <= Len(text) /\ output = <<>>
        /\ Standing(text)[at] = "first" /\ NoEndBefore(at)
    BY <1>1, <2>1 DEF SkipInv
  <2>3. Standing(text)[2] = "first"
    <3>1. text[1] # Backslash /\ 2 \in 1..Len(text) /\ 2 - 1 = 1 /\ 2 # 1
      BY <1>2, <2>2 DEF Quote, Backslash
    <3> QED
      BY <1>2, <3>1, StandingFollows
  <2>4. NoEndBefore(close)'
    BY <2>1, <2>2 DEF NoEndBefore
  <2>5. Len(output)' <= LengthTo(at)'
    <3>1. LengthTo(at)' = Lengths(text)[2 - 1] - Lengths(text)[1]
      BY <2>1 DEF LengthTo
    <3>2. Lengths(text)[1] \in Nat
      <4>1. 1 \in 0..Len(text) /\ 1 \in 1..Len(text)
        BY <1>2
      <4> QED
        BY <1>2, <4>1, LengthsGrow
    <3>3. Lengths(text)[2 - 1] - Lengths(text)[1] = 0
      BY <3>2
    <3>4. Len(output)' = 0
      BY <2>1, <2>2, EmptySeq
    <3> QED
      BY <3>1, <3>3, <3>4
  <2> QED
    BY <1>1, <1>2, <2>1, <2>2, <2>3, <2>4, <2>5 DEF StringInv, Shape, SkipInv, CopyInv
<1>7. CASE CopyPlain \/ CopyEscaped \/ CopyUtf16 \/ CopyPair
  BY <1>1, <1>7, CopiesStep DEF StringInv
<1>8. CASE Copied
  <2>1. step = "copy" /\ step' = "done" /\ UNCHANGED <<units, text, at, close, output>>
    BY <1>8 DEF Copied
  <2>2. LengthTo(at)' = LengthTo(at) /\ (NoEndBefore(close) <=> NoEndBefore(close)')
    BY <2>1 DEF LengthTo, NoEndBefore
  <2> QED
    BY <1>1, <2>1, <2>2 DEF StringInv, Shape, SkipInv, CopyInv
<1>9. CASE UNCHANGED vars
  <2>1. step' = step /\ UNCHANGED <<units, text, at, close, output>>
    BY <1>9 DEF vars
  <2>2. /\ LengthTo(at)' = LengthTo(at) /\ (NoEndBefore(close) <=> NoEndBefore(close)')
        /\ (NoEndBefore(at) <=> NoEndBefore(at)')
    BY <2>1 DEF LengthTo, NoEndBefore
  <2> QED
    BY <1>1, <2>1, <2>2 DEF StringInv, Shape, SkipInv, CopyInv
<1>10. CASE NoQuote \/ NotClosed \/ ControlCharacter \/ BadEscape \/ BadUtf16
  BY <1>3, <1>10 DEF NoQuote, NotClosed, ControlCharacter, BadEscape, BadUtf16
<1> QED
  BY <1>4, <1>5, <1>6, <1>7, <1>8, <1>9, <1>10 DEF Next

LEMMA StringInvariant == Spec => []StringInv
  BY InitString, NextString, PTL DEF Spec

(* process_string stops at the closing quote that skip_quotes has found,   *)
(* and writes no more than the length its block was asked with.            *)
THEOREM PassesAgree == Spec => []StaysInside
<1>1. StringInv => StaysInside
  <2> SUFFICES ASSUME StringInv, step \in {"copy", "done"}
               PROVE  /\ at <= close /\ text[close] = Quote
                      /\ Len(output) <= LengthTo(at) /\ Len(output) <= InputLength
    BY DEF StaysInside
  <2>1. /\ 2 <= at /\ at <= close /\ close <= Len(text) /\ text[close] = Quote
        /\ Len(output) <= LengthTo(at)
    BY DEF StringInv, CopyInv
  <2>2. Shape /\ at \in Nat /\ close \in Nat /\ Len(text) \in Nat /\ text \in Seq(Nat)
    BY LenProperties DEF StringInv, Shape
  <2>3. Len(output) \in Nat
    BY LenProperties DEF StringInv, Shape
  <2>4. LengthTo(at) \in Int /\ LengthTo(close) \in Int
    <3>1. 1 \in 0..Len(text) /\ at - 1 \in 0..Len(text) /\ close - 1 \in 0..Len(text)
      BY <2>1, <2>2
    <3>2. \A i \in 0..Len(text) : Lengths(text)[i] \in Nat
      <4>1. ASSUME NEW i \in 0..Len(text) PROVE i \in i..Len(text)
        BY <2>2
      <4> QED
        BY <2>2, <4>1, LengthsGrow
    <3> QED
      BY <3>1, <3>2 DEF LengthTo
  <2>5. LengthTo(at) <= LengthTo(close)
    <3>1. CASE at = close
      BY <2>4, <3>1
    <3>2. CASE at < close
      <4>1. close - 1 <= Len(text)
        BY <2>1, <2>2
      <4>2. LengthTo(close) - LengthTo(at) \in Nat
        BY <2>1, <2>2, <3>2, <4>1, LengthAhead
      <4> QED
        BY <2>4, <4>2
    <3> QED
      BY <2>1, <2>2, <3>1, <3>2
  <2> QED
    BY <2>1, <2>3, <2>4, <2>5 DEF InputLength
<1> QED
  BY <1>1, StringInvariant, PTL

(* The string ends at the first quote behind the opening one that is not   *)
(* escaped, and no NUL is before it.                                       *)
EndsAtFirstQuote ==
  step \in {"copy", "done"} =>
    /\ Standing(text)[close] = "first" /\ text[close] = Quote
    /\ NoEndBefore(close)

THEOREM StringEndsAtFirstQuote == Spec => []EndsAtFirstQuote
<1>1. StringInv => EndsAtFirstQuote
  BY DEF StringInv, CopyInv, EndsAtFirstQuote
<1> QED
  BY <1>1, StringInvariant, PTL

(* What the steps look at is in the text: the character at hand, the one   *)
(* behind a backslash, and, where digits are, the two behind them that     *)
(* could begin the second half of a pair.                                  *)
ReadsInText ==
  /\ step \in {"open", "skip"} => at \in DOMAIN text
  /\ step = "skip" /\ text[at] = Backslash => at + 1 \in DOMAIN text
  /\ InString => at \in DOMAIN text
  /\ AtEscape => at + 1 \in DOMAIN text
  /\ AtUtf16 /\ IsHex(at + 2) =>
       /\ at + 3 \in DOMAIN text
       /\ text[at + 3] = Backslash => at + 4 \in DOMAIN text

THEOREM ReadsStayInText == Spec => []ReadsInText
<1>1. StringInv => ReadsInText
  <2> SUFFICES ASSUME StringInv PROVE ReadsInText
    OBVIOUS
  <2>1. /\ Shape /\ at \in Nat /\ close \in Nat /\ Len(text) \in Nat /\ Len(text) >= 2
        /\ DOMAIN text = 1..Len(text)
    BY LenProperties DEF StringInv, Shape
  <2>2. Backslash # NUL /\ ~(NUL >= Hex)
    BY DEF Backslash, NUL, Hex
  <2>3. ASSUME NEW i \in Nat, 1 <= i, i <= Len(text), text[i] # NUL
        PROVE  i + 1 \in DOMAIN text
    BY <2>1, <2>3, NotLast
  <2>4. step = "open" => at \in DOMAIN text
    BY <2>1 DEF StringInv, SkipInv
  <2>5. ASSUME step = "skip"
        PROVE  at \in DOMAIN text /\ (text[at] = Backslash => at + 1 \in DOMAIN text)
    <3>1. 2 <= at /\ at <= Len(text)
      BY <2>5 DEF StringInv, SkipInv
    <3> QED
      BY <2>1, <2>2, <2>3, <3>1
  <2>6. ASSUME InString PROVE at \in DOMAIN text /\ at + 1 \in DOMAIN text
    <3>1. 2 <= at /\ at < close /\ close <= Len(text)
      BY <2>6 DEF InString, StringInv, CopyInv
    <3> QED
      BY <2>1, <3>1
  <2>7. ASSUME AtUtf16, IsHex(at + 2)
        PROVE  /\ at + 3 \in DOMAIN text
               /\ text[at + 3] = Backslash => at + 4 \in DOMAIN text
    <3>1. at + 2 <= Len(text) /\ text[at + 2] # NUL
      BY <2>2, <2>7 DEF IsHex
    <3>2. (at + 2) + 1 \in DOMAIN text
      BY <2>1, <2>3, <3>1
    <3>3. (at + 2) + 1 = at + 3 /\ (at + 3) + 1 = at + 4
      BY <2>1
    <3>4. at + 3 \in Nat /\ 1 <= at + 3 /\ at + 3 <= Len(text)
      BY <2>1, <3>2, <3>3
    <3> QED
      BY <2>2, <2>3, <3>2, <3>3, <3>4
  <2> QED
    BY <2>4, <2>5, <2>6, <2>7 DEF ReadsInText, AtEscape
<1> QED
  BY <1>1, StringInvariant, PTL

-----------------------------------------------------------------------------
(* What is written for a code point reads back as that code point and as   *)
(* nothing else, one sequence of the length that is the shortest for it.   *)
Utf8For(s, p) == Begins(s) = {1} /\ PointAt(s, 1) = p /\ WellFormed(s)

(* Bits of a number, put together again. *)
LEMMA SixBits ==
  ASSUME NEW p \in Nat
  PROVE  /\ p \div 64 \in Nat /\ p \div 4096 \in Nat /\ p \div 262144 \in Nat
         /\ (p \div 1) % 64 \in 0..63 /\ (p \div 64) % 64 \in 0..63
         /\ (p \div 4096) % 64 \in 0..63
         /\ p = 64 * (p \div 64) + ((p \div 1) % 64)
         /\ p \div 64 = 64 * (p \div 4096) + ((p \div 64) % 64)
         /\ p \div 4096 = 64 * (p \div 262144) + ((p \div 4096) % 64)
<1>1. p \div 64 \in Nat /\ p \div 4096 \in Nat /\ p \div 262144 \in Nat
  BY SMT
<1>2. p = 64 * (p \div 64) + ((p \div 1) % 64) /\ (p \div 1) % 64 \in 0..63
  BY SMT
<1>3. p \div 64 = 64 * (p \div 4096) + ((p \div 64) % 64) /\ (p \div 64) % 64 \in 0..63
  BY SMT
<1>4. p \div 4096 = 64 * (p \div 262144) + ((p \div 4096) % 64) /\ (p \div 4096) % 64 \in 0..63
  BY SMT
<1> QED
  BY <1>1, <1>2, <1>3, <1>4, SMT

(* A sequence of bytes that says its own length, and goes on as it has to. *)
LEMMA OneSequence ==
  ASSUME NEW n \in 1..4, NEW s \in Seq(Nat), Len(s) = n,
         ~Continues(s[1]), SequenceLength(s[1]) = n,
         \A j \in 2..n : Continues(s[j]),
         NEW p \in Nat, PointAt(s, 1) = p, Shortest(p) = n
  PROVE  Utf8For(s, p)
<1>1. DOMAIN s = 1..n
  BY LenProperties
<1>2. Begins(s) = {1}
  <2>1. \A i \in 1..n : i = 1 \/ i \in 2..n
    OBVIOUS
  <2> QED
    BY <1>1, <2>1 DEF Begins
<1>3. WellFormed(s)
  <2>1. 1 + n - 1 = n /\ n \in 1..n /\ 1 + 1 = 2 /\ 1 + n = n + 1
    OBVIOUS
  <2>2. \A j \in (1 + 1)..(1 + n - 1) : Continues(s[j])
    BY <2>1
  <2>3. 1 + n \in Begins(s) \cup {Len(s) + 1}
    BY <2>1
  <2> QED
    BY <1>1, <1>2, <2>1, <2>2, <2>3 DEF WellFormed
<1> QED
  BY <1>2, <1>3 DEF Utf8For

(* The last code point of all. *)
LastPoint == 1114111

(* parse_utf16 writes UTF-8, in the shortest form, for every code point    *)
(* that one escape or a pair of them can stand for.                        *)
THEOREM BytesAreUtf8 ==
  ASSUME NEW p \in Nat, p <= LastPoint, NEW s, s = Bytes(p)
  PROVE  Utf8For(s, p)
<1> DEFINE a == (p \div 1) % 64
           b == (p \div 64) % 64
           c == (p \div 4096) % 64
           x == p \div 64
           y == p \div 4096
           z == p \div 262144
<1>1. /\ p \in Nat /\ x \in Nat /\ y \in Nat /\ z \in Nat
      /\ a \in 0..63 /\ b \in 0..63 /\ c \in 0..63
      /\ p = 64 * x + a /\ x = 64 * y + b /\ y = 64 * z + c
  BY SixBits
<1>2. Rest(p, 1) = a + 128 /\ Rest(p, 64) = b + 128 /\ Rest(p, 4096) = c + 128
  BY DEF Rest
<1>3. CASE p < 128
  <2>1. s = <<p>>
    BY <1>3 DEF Bytes
  <2>2. s \in Seq(Nat) /\ Len(s) = 1 /\ s[1] = p
    BY <1>1, <2>1
  <2>3. ~Continues(p) /\ SequenceLength(p) = 1 /\ Shortest(p) = 1
    BY <1>1, <1>3 DEF Continues, SequenceLength, Shortest
  <2>4. PointAt(s, 1) = p
    BY <2>2, <2>3 DEF PointAt
  <2>5. \A j \in 2..1 : Continues(s[j])
    OBVIOUS
  <2> QED
    BY <1>1, <2>2, <2>3, <2>4, <2>5, OneSequence
<1>4. CASE 128 <= p /\ p < 2048
  <2> DEFINE b1 == (x % 32) + 192
             b2 == a + 128
  <2>1. s = <<b1, b2>>
    BY <1>1, <1>2, <1>4 DEF Bytes
  <2>2. x < 32 /\ b1 = x + 192 /\ b2 = a + 128
    BY <1>1, <1>4
  <2> HIDE DEF b1, b2, a, b, c, x, y, z
  <2>3. b1 \in Nat /\ b2 \in Nat
    BY <1>1, <2>2
  <2>4. s \in Seq(Nat) /\ Len(s) = 2 /\ s[1] = b1 /\ s[2] = b2
    BY <2>1, <2>3
  <2>5. /\ ~Continues(b1) /\ Continues(b2) /\ SequenceLength(b1) = 2 /\ Shortest(p) = 2
        /\ SequenceLength(b1) # 1
    BY <1>1, <1>4, <2>2 DEF Continues, SequenceLength, Shortest
  <2>6. PointAt(s, 1) = 64 * (s[1] - 192) + (s[1 + 1] - 128)
    BY <2>4, <2>5 DEF PointAt
  <2>7. 1 + 1 = 2 /\ s[2] - 128 = b2 - 128
    BY <2>4
  <2>8. PointAt(s, 1) = p
    BY <1>1, <2>2, <2>4, <2>6, <2>7
  <2>9. \A j \in 2..2 : Continues(s[j])
    BY <2>4, <2>5
  <2> QED
    BY <1>1, <2>4, <2>5, <2>8, <2>9, OneSequence
<1>5. CASE 2048 <= p /\ p < Hex
  <2> DEFINE b1 == (y % 16) + 224
             b2 == b + 128
             b3 == a + 128
  <2>1. s = <<b1, b2, b3>>
    BY <1>1, <1>2, <1>5 DEF Bytes, Hex
  <2>2. y < 16 /\ b1 = y + 224 /\ b2 = b + 128 /\ b3 = a + 128
    BY <1>1, <1>5 DEF Hex
  <2> HIDE DEF b1, b2, b3, a, b, c, x, y, z
  <2>3. b1 \in Nat /\ b2 \in Nat /\ b3 \in Nat
    BY <1>1, <2>2
  <2>4. /\ s \in Seq(Nat) /\ Len(s) = 3 /\ s[1] = b1 /\ s[2] = b2
        /\ s[3] = b3
    BY <2>1, <2>3
  <2>5. /\ ~Continues(b1) /\ Continues(b2) /\ Continues(b3)
        /\ SequenceLength(b1) = 3 /\ Shortest(p) = 3
        /\ SequenceLength(b1) # 1 /\ SequenceLength(b1) # 2
    BY <1>1, <1>5, <2>2 DEF Continues, SequenceLength, Shortest, Hex
  <2>6. PointAt(s, 1) = 4096 * (s[1] - 224) + 64 * (s[1 + 1] - 128) + (s[1 + 2] - 128)
    BY <2>4, <2>5 DEF PointAt
  <2>7. 1 + 1 = 2 /\ 1 + 2 = 3 /\ s[2] - 128 = b2 - 128 /\ s[3] - 128 = b3 - 128
    BY <2>4
  <2>8. PointAt(s, 1) = p
    BY <1>1, <2>2, <2>4, <2>6, <2>7
  <2>9. \A j \in 2..3 : Continues(s[j])
    <3>1. \A j \in 2..3 : j = 2 \/ j = 3
      OBVIOUS
    <3> QED
      BY <2>4, <2>5, <3>1
  <2> QED
    BY <1>1, <2>4, <2>5, <2>8, <2>9, OneSequence
<1>6. CASE Hex <= p
  <2> DEFINE b1 == (z % 8) + 240
             b2 == c + 128
             b3 == b + 128
             b4 == a + 128
  <2>1. s = <<b1, b2, b3, b4>>
    BY <1>1, <1>2, <1>6, SMT DEF Bytes, Hex
  <2>2. z < 8 /\ b1 = z + 240 /\ b2 = c + 128 /\ b3 = b + 128 /\ b4 = a + 128
    BY <1>1, <1>6, SMT DEF Hex, LastPoint
  <2> HIDE DEF b1, b2, b3, b4, a, b, c, x, y, z
  <2>3. b1 \in Nat /\ b2 \in Nat /\ b3 \in Nat /\ b4 \in Nat
    BY <1>1, <2>2
  <2>4. /\ s \in Seq(Nat) /\ Len(s) = 4 /\ s[1] = b1 /\ s[2] = b2
        /\ s[3] = b3 /\ s[4] = b4
    BY <2>1, <2>3
  <2>5. /\ ~Continues(b1) /\ Continues(b2) /\ Continues(b3) /\ Continues(b4)
        /\ SequenceLength(b1) = 4 /\ Shortest(p) = 4
        /\ SequenceLength(b1) # 1 /\ SequenceLength(b1) # 2 /\ SequenceLength(b1) # 3
    BY <1>1, <1>6, <2>2, SMT DEF Continues, SequenceLength, Shortest, Hex
  <2>6. PointAt(s, 1) = 262144 * (s[1] - 240) + 4096 * (s[1 + 1] - 128) + 64 * (s[1 + 2] - 128) + (s[1 + 3] - 128)
    BY <2>4, <2>5, SMT DEF PointAt
  <2>7. /\ 1 + 1 = 2 /\ 1 + 2 = 3 /\ 1 + 3 = 4
        /\ s[2] - 128 = b2 - 128 /\ s[3] - 128 = b3 - 128 /\ s[4] - 128 = b4 - 128
    BY <2>4
  <2>8. PointAt(s, 1) = p
    <3>1. p = 262144 * z + 4096 * c + 64 * b + a
      BY <1>1, SMT
    <3>2. /\ s[1] - 240 = z /\ (s[1 + 1] - 128) = c /\ (s[1 + 2] - 128) = b /\ (s[1 + 3] - 128) = a
      <4>1. b1 - 240 = z /\ b2 - 128 = c /\ b3 - 128 = b /\ b4 - 128 = a
        BY <1>1, <2>2, SMT
      <4> QED
        BY <2>4, <2>7, <4>1
    <3> QED
      BY <2>6, <3>1, <3>2, SMT
  <2>9. \A j \in 2..4 : Continues(s[j])
    <3>1. \A j \in 2..4 : j = 2 \/ j = 3 \/ j = 4
      OBVIOUS
    <3> QED
      BY <2>4, <2>5, <3>1
  <2> QED
    BY <1>1, <2>4, <2>5, <2>8, <2>9, OneSequence
<1> QED
  BY <1>1, <1>3, <1>4, <1>5, <1>6, SMT DEF Hex

-----------------------------------------------------------------------------
(* What is within s can be read in u as well, d places further on.         *)
Within(s, u, d) == d + Len(s) <= Len(u) /\ \A i \in 1..Len(s) : u[d + i] = s[i]

(* It begins sequences at the same places, for the same code points. *)
LEMMA ReadWithin ==
  ASSUME NEW s \in Seq(Nat), NEW u \in Seq(Nat), NEW d \in Nat, Within(s, u, d), WellFormed(s),
         NEW i \in 1..Len(s)
  PROVE  /\ i \in Begins(s) <=> d + i \in Begins(u)
         /\ i \in Begins(s) =>
              /\ PointAt(u, d + i) = PointAt(s, i)
              /\ SequenceLength(u[d + i]) = SequenceLength(s[i])
<1>1. /\ Len(s) \in Nat /\ DOMAIN s = 1..Len(s) /\ Len(u) \in Nat /\ DOMAIN u = 1..Len(u)
  BY LenProperties
<1>2. d + i \in DOMAIN u /\ u[d + i] = s[i]
  BY <1>1 DEF Within
<1>3. i \in Begins(s) <=> d + i \in Begins(u)
  BY <1>1, <1>2 DEF Begins
<1>4. ASSUME i \in Begins(s)
      PROVE  PointAt(u, d + i) = PointAt(s, i)
  <2> DEFINE n == SequenceLength(s[i])
  <2>1. i + n - 1 \in DOMAIN s
    BY <1>4 DEF WellFormed
  <2>2. n \in {1, 2, 3, 4}
    BY DEF SequenceLength
  <2> HIDE DEF n
  <2>3. \A k \in 1..3 : n > k => u[(d + i) + k] = s[i + k]
    <3>1. ASSUME NEW k \in 1..3, n > k PROVE u[(d + i) + k] = s[i + k]
      <4>1. i + k \in 1..Len(s) /\ (d + i) + k = d + (i + k)
        BY <1>1, <2>1, <2>2, <3>1
      <4> QED
        BY <4>1 DEF Within
    <3> QED
      BY <3>1
  <2>4. n # 1 => u[(d + i) + 1] = s[i + 1]
    BY <2>2, <2>3
  <2>5. n # 1 /\ n # 2 => u[(d + i) + 2] = s[i + 2]
    BY <2>2, <2>3
  <2>6. n # 1 /\ n # 2 /\ n # 3 => u[(d + i) + 3] = s[i + 3]
    BY <2>2, <2>3
  <2>7. SequenceLength(u[d + i]) = n
    BY <1>2 DEF n
  <2>8. CASE n = 1
    <3>1. PointAt(s, i) = s[i]
      BY <2>8 DEF PointAt, n
    <3>2. PointAt(u, d + i) = u[d + i]
      BY <2>7, <2>8 DEF PointAt
    <3> QED
      BY <1>2, <3>1, <3>2
  <2>9. CASE n = 2
    <3>1. PointAt(s, i) = 64 * (s[i] - 192) + (s[i + 1] - 128)
      BY <2>9 DEF PointAt, n
    <3>2. PointAt(u, d + i) = 64 * (u[d + i] - 192) + (u[(d + i) + 1] - 128)
      BY <2>7, <2>9 DEF PointAt
    <3> QED
      BY <1>2, <2>4, <2>9, <3>1, <3>2
  <2>10. CASE n = 3
    <3> DEFINE P(a, b, c) == 4096 * (a - 224) + 64 * (b - 128) + (c - 128)
    <3>1. PointAt(s, i) = P(s[i], s[i + 1], s[i + 2])
      BY <2>10 DEF PointAt, n
    <3>2. PointAt(u, d + i) = P(u[d + i], u[(d + i) + 1], u[(d + i) + 2])
      BY <2>7, <2>10 DEF PointAt
    <3> HIDE DEF P
    <3> QED
      BY <1>2, <2>4, <2>5, <2>10, <3>1, <3>2
  <2>11. CASE n = 4
    <3> DEFINE P(a, b, c, e) ==
                 262144 * (a - 240) + 4096 * (b - 128) + 64 * (c - 128) + (e - 128)
    <3>1. PointAt(s, i) = P(s[i], s[i + 1], s[i + 2], s[i + 3])
      BY <2>11 DEF PointAt, n
    <3>2. PointAt(u, d + i) = P(u[d + i], u[(d + i) + 1], u[(d + i) + 2], u[(d + i) + 3])
      BY <2>7, <2>11 DEF PointAt
    <3> HIDE DEF P
    <3> QED
      BY <1>2, <2>4, <2>5, <2>6, <2>11, <3>1, <3>2
  <2> QED
    BY <2>2, <2>8, <2>9, <2>10, <2>11
<1> QED
  BY <1>2, <1>3, <1>4

(* UTF-8 behind UTF-8 is UTF-8, and decodes to what both decode to. *)
LEMMA DecodedTogether ==
  ASSUME NEW s \in Seq(Nat), NEW t \in Seq(Nat), WellFormed(s), WellFormed(t)
  PROVE  WellFormed(s \o t) /\ Decoded(s \o t) = Decoded(s) \o Decoded(t)
<1> DEFINE u == s \o t
           m == Len(s)
           n == Len(t)
<1>1. /\ m \in Nat /\ DOMAIN s = 1..m /\ n \in Nat /\ DOMAIN t = 1..n
      /\ u \in Seq(Nat) /\ Len(u) = m + n
      /\ \A i \in 1..(m + n) : u[i] = IF i <= m THEN s[i] ELSE t[i - m]
  BY LenProperties, ConcatProperties
<1>2. DOMAIN u = 1..(m + n)
  BY <1>1, LenProperties
<1> HIDE DEF u
<1> HIDE DEF m, n
<1>3. Within(s, u, 0) /\ Within(t, u, m)
  <2>1. \A i \in 1..n : m + i \in 1..(m + n) /\ ~(m + i <= m) /\ (m + i) - m = i
    BY <1>1
  <2>2. \A i \in 1..m : 0 + i = i /\ i \in 1..(m + n) /\ i <= m
    BY <1>1
  <2>3. m + n <= m + n /\ 0 + m <= m + n
    BY <1>1
  <2> QED
    BY <1>1, <2>1, <2>2, <2>3 DEF Within, m, n
<1>4. \A i \in 1..m :
        /\ i \in Begins(s) <=> i \in Begins(u)
        /\ i \in Begins(s) => /\ PointAt(u, i) = PointAt(s, i)
                              /\ SequenceLength(u[i]) = SequenceLength(s[i])
  <2>1. ASSUME NEW i \in 1..m
        PROVE  /\ i \in Begins(s) <=> 0 + i \in Begins(u)
               /\ i \in Begins(s) => /\ PointAt(u, 0 + i) = PointAt(s, i)
                                     /\ SequenceLength(u[0 + i]) = SequenceLength(s[i])
    BY <1>1, <1>3, ReadWithin DEF m
  <2>2. \A i \in 1..m : 0 + i = i
    BY <1>1
  <2> QED
    BY <2>1, <2>2
<1>5. \A i \in 1..n :
        /\ i \in Begins(t) <=> m + i \in Begins(u)
        /\ i \in Begins(t) => /\ PointAt(u, m + i) = PointAt(t, i)
                              /\ SequenceLength(u[m + i]) = SequenceLength(t[i])
  BY <1>1, <1>3, ReadWithin DEF n
<1>6. \A i \in 1..(m + n) : i \in 1..m \/ (\E j \in 1..n : i = m + j)
  <2>1. ASSUME NEW i \in 1..(m + n), i \notin 1..m PROVE \E j \in 1..n : i = m + j
    <3>1. i - m \in 1..n /\ i = m + (i - m)
      BY <1>1, <2>1
    <3> QED
      BY <3>1
  <2> QED
    BY <2>1
<1>7. WellFormed(u)
  <2>1. ASSUME u # <<>> PROVE 1 \in Begins(u)
    <3>1. CASE m = 0
      <4>1. n # 0
        BY <1>1, <2>1, <3>1, EmptySeq, SeqEqual
      <4>2. 1 \in 1..n /\ m + 1 = 1 /\ t # <<>>
        BY <1>1, <3>1, <4>1, EmptySeq DEF n
      <4>3. 1 \in Begins(t)
        BY <4>2 DEF WellFormed
      <4> QED
        BY <1>5, <4>2, <4>3
    <3>2. CASE m # 0
      <4>1. 1 \in 1..m /\ s # <<>>
        BY <1>1, <3>2, EmptySeq DEF m
      <4> QED
        BY <1>4, <4>1 DEF WellFormed
    <3> QED
      BY <3>1, <3>2
  <2>2. ASSUME NEW i \in Begins(u)
        PROVE  /\ i + SequenceLength(u[i]) - 1 \in DOMAIN u
               /\ \A j \in (i + 1)..(i + SequenceLength(u[i]) - 1) : Continues(u[j])
               /\ i + SequenceLength(u[i]) \in Begins(u) \cup {Len(u) + 1}
               /\ Shortest(PointAt(u, i)) = SequenceLength(u[i])
    <3>1. i \in 1..(m + n)
      BY <1>2 DEF Begins
    <3>2. CASE i \in 1..m
      <4> DEFINE l == SequenceLength(s[i])
      <4>1. /\ i \in Begins(s) /\ SequenceLength(u[i]) = l /\ PointAt(u, i) = PointAt(s, i)
            /\ l \in 1..4
        BY <1>4, <3>2 DEF SequenceLength
      <4>2. /\ i + l - 1 \in 1..m
            /\ \A j \in (i + 1)..(i + l - 1) : Continues(s[j])
            /\ i + l \in Begins(s) \cup {m + 1}
            /\ Shortest(PointAt(s, i)) = l
        BY <1>1, <4>1 DEF WellFormed, m
      <4> HIDE DEF l
      <4>3. \A j \in (i + 1)..(i + l - 1) : Continues(u[j])
        <5>1. \A j \in (i + 1)..(i + l - 1) : j \in 1..(m + n) /\ j <= m
          BY <1>1, <3>2, <4>1, <4>2
        <5> QED
          BY <1>1, <4>2, <5>1
      <4>4. i + l \in Begins(u) \cup {Len(u) + 1}
        <5>1. CASE i + l \in Begins(s)
          <6>1. i + l \in 1..m
            BY <1>1, <5>1 DEF Begins
          <6> QED
            BY <1>4, <5>1, <6>1
        <5>2. CASE i + l = m + 1
          <6>1. CASE n = 0
            BY <1>1, <5>2, <6>1
          <6>2. CASE n # 0
            <7>1. 1 \in 1..n /\ t # <<>>
              BY <1>1, <6>2, EmptySeq DEF n
            <7> QED
              BY <1>5, <5>2, <7>1 DEF WellFormed
          <6> QED
            BY <6>1, <6>2
        <5> QED
          BY <4>2, <5>1, <5>2
      <4>5. i + l - 1 \in 1..(m + n)
        BY <1>1, <4>2
      <4> QED
        BY <1>2, <4>1, <4>2, <4>3, <4>4, <4>5
    <3>3. ASSUME NEW k \in 1..n, i = m + k
          PROVE  /\ i + SequenceLength(u[i]) - 1 \in DOMAIN u
                 /\ \A j \in (i + 1)..(i + SequenceLength(u[i]) - 1) : Continues(u[j])
                 /\ i + SequenceLength(u[i]) \in Begins(u) \cup {Len(u) + 1}
                 /\ Shortest(PointAt(u, i)) = SequenceLength(u[i])
      <4> DEFINE l == SequenceLength(t[k])
      <4>1. /\ k \in Begins(t) /\ SequenceLength(u[i]) = l /\ PointAt(u, i) = PointAt(t, k)
            /\ l \in 1..4
        BY <1>5, <2>2, <3>3 DEF SequenceLength
      <4>2. /\ k + l - 1 \in 1..n
            /\ \A j \in (k + 1)..(k + l - 1) : Continues(t[j])
            /\ k + l \in Begins(t) \cup {n + 1}
            /\ Shortest(PointAt(t, k)) = l
        BY <1>1, <4>1 DEF WellFormed, n
      <4> HIDE DEF l
      <4>3. \A j \in (i + 1)..(i + l - 1) : Continues(u[j])
        <5>1. \A j \in (i + 1)..(i + l - 1) :
                j \in 1..(m + n) /\ ~(j <= m) /\ j - m \in (k + 1)..(k + l - 1)
          BY <1>1, <3>3, <4>1, <4>2
        <5> QED
          BY <1>1, <4>2, <5>1
      <4>4. i + l \in Begins(u) \cup {Len(u) + 1}
        <5>1. i + l = m + (k + l)
          BY <1>1, <3>3, <4>1
        <5>2. CASE k + l \in Begins(t)
          <6>1. k + l \in 1..n
            BY <1>1, <5>2 DEF Begins
          <6> QED
            BY <1>5, <5>1, <5>2, <6>1
        <5>3. CASE k + l = n + 1
          BY <1>1, <5>1, <5>3
        <5> QED
          BY <4>2, <5>2, <5>3
      <4>5. i + l - 1 \in 1..(m + n)
        BY <1>1, <3>3, <4>1, <4>2
      <4> QED
        BY <1>2, <4>1, <4>2, <4>3, <4>4, <4>5
    <3> QED
      BY <1>6, <3>1, <3>2, <3>3
  <2> QED
    BY <2>1, <2>2 DEF WellFormed
<1>8. Decoded(u) = Decoded(s) \o Decoded(t)
  <2> DEFINE S == {PointAt(s, i) : i \in 1..m} \cup {PointAt(t, i) : i \in 1..n}
             fs == [i \in 1..m |-> IF i \in Begins(s) THEN <<PointAt(s, i)>> ELSE <<>>]
             ft == [i \in 1..n |-> IF i \in Begins(t) THEN <<PointAt(t, i)>> ELSE <<>>]
             fu == [i \in 1..(m + n) |-> IF i \in Begins(u) THEN <<PointAt(u, i)>> ELSE <<>>]
  <2>1. fs \in Seq(Seq(S)) /\ Len(fs) = m
    <3>1. ASSUME NEW i \in 1..m PROVE fs[i] \in Seq(S)
      <4>1. PointAt(s, i) \in S
        OBVIOUS
      <4> HIDE DEF S
      <4> QED
        BY <4>1
    <3>2. fs = [i \in 1..m |-> fs[i]]
      OBVIOUS
    <3> HIDE DEF S, fs
    <3> QED
      BY <1>1, <3>1, <3>2, PlacesMakeSeq
  <2>2. ft \in Seq(Seq(S)) /\ Len(ft) = n
    <3>1. ASSUME NEW i \in 1..n PROVE ft[i] \in Seq(S)
      <4>1. PointAt(t, i) \in S
        OBVIOUS
      <4> HIDE DEF S
      <4> QED
        BY <4>1
    <3>2. ft = [i \in 1..n |-> ft[i]]
      OBVIOUS
    <3> HIDE DEF S, ft
    <3> QED
      BY <1>1, <3>1, <3>2, PlacesMakeSeq
  <2>3. \A i \in 1..m : fu[i] = fs[i]
    <3>1. \A i \in 1..m : i \in 1..(m + n)
      BY <1>1
    <3> QED
      BY <1>4, <3>1
  <2>4. \A i \in 1..n : fu[m + i] = ft[i]
    <3>1. \A i \in 1..n : m + i \in 1..(m + n)
      BY <1>1
    <3> QED
      BY <1>5, <3>1
  <2>5. fu = fs \o ft
    <3>1. DOMAIN fu = 1..(m + n)
      OBVIOUS
    <3> HIDE DEF fs, ft, fu, S
    <3>2. /\ fs \o ft \in Seq(Seq(S)) /\ Len(fs \o ft) = m + n
          /\ \A i \in 1..(m + n) : (fs \o ft)[i] = IF i <= m THEN fs[i] ELSE ft[i - m]
      BY <2>1, <2>2, ConcatProperties
    <3>3. ASSUME NEW i \in 1..(m + n) PROVE fu[i] = (fs \o ft)[i]
      <4>1. CASE i \in 1..m
        <5>1. i <= m
          BY <1>1, <4>1
        <5> QED
          BY <2>3, <3>2, <4>1, <5>1
      <4>2. ASSUME NEW j \in 1..n, i = m + j PROVE fu[i] = (fs \o ft)[i]
        <5>1. ~(i <= m) /\ i - m = j
          BY <1>1, <4>2
        <5> QED
          BY <2>4, <3>2, <4>2, <5>1
      <4> QED
        BY <1>6, <4>1, <4>2
    <3>4. fu \in Seq(Seq(S)) /\ Len(fu) = m + n
      <4>1. \A i \in 1..(m + n) : (fs \o ft)[i] \in Seq(S)
        BY <3>2, ElementOfSeq
      <4>2. fu = [i \in 1..(m + n) |-> fu[i]]
        BY DEF fu
      <4>3. \A i \in 1..(m + n) : fu[i] \in Seq(S)
        BY <3>3, <4>1
      <4>4. m + n \in Nat
        BY <1>1
      <4> QED
        BY <4>2, <4>3, <4>4, PlacesMakeSeq
    <3> QED
      BY <3>2, <3>3, <3>4, SeqEqual
  <2>6. Decoded(u) = FlattenSeq(fu) /\ Decoded(s) = FlattenSeq(fs) /\ Decoded(t) = FlattenSeq(ft)
    BY <1>1, <1>2 DEF Decoded
  <2> HIDE DEF fs, ft, fu, S
  <2>7. FlattenSeq(fs \o ft) = FlattenSeq(fs) \o FlattenSeq(ft)
    BY <2>1, <2>2, FlatOfBoth
  <2> QED
    BY <2>5, <2>6, <2>7
<1> QED
  BY <1>7, <1>8 DEF u

(* Empty sequences make an empty one. *)
LEMMA FlatOfEmpties ==
  ASSUME NEW seqs \in Seq({<<>>})
  PROVE  FlattenSeq(seqs) = <<>>
<1> DEFINE S == {}
<1>1. <<>> \in Seq(S) /\ {<<>>} \subseteq Seq(S)
  BY EmptySeq
<1> HIDE DEF S
<1>2. seqs \in Seq(Seq(S)) /\ Len(seqs) \in Nat
  BY <1>1, SeqMonotonic, LenProperties
<1>3. CASE Len(seqs) = 0
  <2>1. seqs = <<>>
    BY <1>2, <1>3, EmptySeq, SeqEqual
  <2> QED
    BY <2>1, FlatOfNone
<1>4. CASE Len(seqs) # 0
  <2>1. 1 \in 1..Len(seqs) /\ Len(seqs) \in 1..Len(seqs)
    BY <1>2, <1>4
  <2>2. FlattenSeq(seqs) \in Seq({})
    BY <1>2, FlatIsSeq DEF S
  <2>3. Len(FlattenSeq(seqs)) = 0
    <3>1. ASSUME Len(FlattenSeq(seqs)) # 0 PROVE FALSE
      <4>1. 1 \in 1..Len(FlattenSeq(seqs))
        BY <2>2, <3>1, LenProperties
      <4> QED
        BY <2>2, <4>1, ElementOfSeq
    <3> QED
      BY <3>1
  <2> QED
    BY <2>2, <2>3, EmptySeq, SeqEqual
<1> QED
  BY <1>3, <1>4

(* One sequence of UTF-8 decodes to its code point. *)
LEMMA DecodedOne ==
  ASSUME NEW s \in Seq(Nat), NEW p, Utf8For(s, p)
  PROVE  Decoded(s) = <<p>>
<1> DEFINE f == [i \in 1..Len(s) |-> IF i \in Begins(s) THEN <<PointAt(s, i)>> ELSE <<>>]
           rest == [i \in 1..(Len(s) - 1) |-> <<>>]
<1>1. Len(s) \in Nat /\ DOMAIN s = 1..Len(s) /\ Begins(s) = {1} /\ PointAt(s, 1) = p
  BY LenProperties DEF Utf8For
<1>2. 1 \in 1..Len(s)
  BY <1>1 DEF Begins
<1>3. f = [i \in 1..Len(s) |-> IF i = 1 THEN <<p>> ELSE <<>>]
  BY <1>1
<1>4. Len(s) - 1 \in Nat
  BY <1>1, <1>2
<1>5. rest \in Seq({<<>>}) /\ Len(rest) = Len(s) - 1
  BY <1>4
<1> DEFINE one == <<p>>
           S == {p}
<1>6. one \in Seq(S) /\ <<>> \in Seq(S)
  OBVIOUS
<1>7. <<one>> \in Seq(Seq(S)) /\ Len(<<one>>) = 1 /\ <<one>>[1] = one
  <2> HIDE DEF one, S
  <2> QED
    BY <1>6
<1>8. rest \in Seq(Seq(S))
  <2>1. {<<>>} \subseteq Seq(S)
    BY <1>6
  <2> HIDE DEF S, rest
  <2> QED
    BY <1>5, <2>1, SeqMonotonic
<1>9. <<one>> \o rest = f
  <2>1. \A i \in 1..Len(s) : f[i] = IF i = 1 THEN one ELSE <<>>
    BY <1>3
  <2>2. f \in Seq(Seq(S)) /\ Len(f) = Len(s)
    <3>1. \A i \in 1..Len(s) : f[i] \in Seq(S)
      BY <1>6, <2>1
    <3>2. f = [i \in 1..Len(s) |-> f[i]]
      OBVIOUS
    <3> HIDE DEF f, S
    <3> QED
      BY <1>1, <3>1, <3>2, PlacesMakeSeq
  <2>3. \A i \in 1..(Len(s) - 1) : rest[i] = <<>>
    OBVIOUS
  <2> HIDE DEF f, rest, one, S
  <2>4. /\ <<one>> \o rest \in Seq(Seq(S)) /\ Len(<<one>> \o rest) = Len(s)
        /\ \A i \in 1..Len(s) : (<<one>> \o rest)[i] = IF i <= 1 THEN one ELSE rest[i - 1]
    <3>1. /\ <<one>> \o rest \in Seq(Seq(S)) /\ Len(<<one>> \o rest) = Len(<<one>>) + Len(rest)
          /\ \A i \in 1..(Len(<<one>>) + Len(rest)) :
               (<<one>> \o rest)[i] = IF i <= Len(<<one>>) THEN <<one>>[i] ELSE rest[i - Len(<<one>>)]
      BY <1>7, <1>8, ConcatProperties
    <3>2. Len(<<one>>) + Len(rest) = Len(s)
      BY <1>1, <1>5, <1>7
    <3>3. \A i \in 1..Len(s) : i <= 1 => i = 1
      BY <1>1
    <3> QED
      BY <1>7, <3>1, <3>2, <3>3
  <2>5. ASSUME NEW i \in 1..Len(s) PROVE f[i] = (<<one>> \o rest)[i]
    <3>1. i = 1 \/ (~(i <= 1) /\ i - 1 \in 1..(Len(s) - 1))
      BY <1>1
    <3>2. 1 <= 1
      OBVIOUS
    <3> QED
      BY <2>1, <2>3, <2>4, <3>1, <3>2
  <2> QED
    BY <2>2, <2>4, <2>5, SeqEqual
<1>10. FlattenSeq(<<one>>) = one
  <2> HIDE DEF one, S
  <2>1. <<>> \in Seq(Seq(S)) /\ Append(<<>>, one) = <<one>>
    OBVIOUS
  <2>2. FlattenSeq(Append(<<>>, one)) = FlattenSeq(<<>>) \o one
    BY <1>6, <2>1, FlatOfMore
  <2> QED
    BY <1>6, <2>1, <2>2, FlatOfNone, ConcatEmptySeq
<1>11. Decoded(s) = FlattenSeq(f)
  BY <1>1 DEF Decoded
<1>12. FlattenSeq(rest) = <<>>
  <2> HIDE DEF rest
  <2> QED
    BY <1>5, FlatOfEmpties
<1> HIDE DEF f, rest, S
<1>13. FlattenSeq(f) = one \o <<>>
  <2> HIDE DEF one
  <2> QED
    BY <1>7, <1>8, <1>9, <1>10, <1>12, FlatOfBoth
<1> QED
  BY <1>6, <1>11, <1>13, ConcatEmptySeq

-----------------------------------------------------------------------------
(* What the first k sequences of h are put together to. *)
FlatTo(h, k) == FlattenSeq([i \in 1..k |-> h[i]])

(* Each goes behind those before it, and the rest behind them. *)
LEMMA FlatByOne ==
  ASSUME NEW S, NEW h \in Seq(Seq(S)), NEW k \in 0..Len(h)
  PROVE  /\ FlatTo(h, k) \in Seq(S)
         /\ FlatTo(h, 0) = <<>> /\ FlatTo(h, Len(h)) = FlattenSeq(h)
         /\ k > 0 => FlatTo(h, k) = FlatTo(h, k - 1) \o h[k]
         /\ \E r \in Seq(S) : FlattenSeq(h) = FlatTo(h, k) \o r
<1>1. Len(h) \in Nat /\ k \in Nat /\ k <= Len(h) /\ \A i \in 1..Len(h) : h[i] \in Seq(S)
  BY LenProperties, ElementOfSeq
<1>2. ASSUME NEW i \in 0..Len(h)
      PROVE  FlatTo(h, i) = FlattenSeq(SubSeq(h, 1, i)) /\ SubSeq(h, 1, i) \in Seq(Seq(S))
  <2> DEFINE f == [j \in 1..i |-> h[j]]
             g == SubSeq(h, 1, i)
  <2>1. /\ g \in Seq(Seq(S)) /\ Len(g) = i /\ \A j \in 1..i : g[j] = h[j]
    <3>1. \A j \in 1..i : h[j] \in Seq(S)
      BY <1>1
    <3>2. 1 \in Int /\ i \in Int /\ i - 1 + 1 = i /\ (1 <= i \/ i = 0)
      BY <1>1
    <3>3. /\ g \in Seq(Seq(S)) /\ Len(g) = IF 1 <= i THEN i - 1 + 1 ELSE 0
          /\ \A j \in 1..(i - 1 + 1) : g[j] = h[1 + j - 1]
      BY <3>1, <3>2, SubSeqProperties
    <3>4. \A j \in 1..i : 1 + j - 1 = j
      OBVIOUS
    <3> HIDE DEF g
    <3> QED
      BY <3>2, <3>3, <3>4
  <2>2. f = [j \in 1..i |-> f[j]] /\ \A j \in 1..i : f[j] = h[j]
    OBVIOUS
  <2>3. \A j \in 1..i : f[j] \in Seq(S)
    BY <1>1, <2>2
  <2> HIDE DEF f, g
  <2>4. f \in Seq(Seq(S)) /\ Len(f) = i
    <3>1. i \in Nat
      BY <1>1
    <3> DEFINE T == Seq(S)
    <3>2. \A j \in 1..i : f[j] \in T
      BY <2>3
    <3> HIDE DEF T
    <3>3. f \in Seq(T) /\ Len(f) = i
      BY <2>2, <3>1, <3>2, PlacesMakeSeq
    <3> QED
      BY <3>3 DEF T
  <2>5. f = g
    BY <2>1, <2>2, <2>4, SeqEqual
  <2> QED
    BY <2>1, <2>5 DEF FlatTo, f, g
<1>3. FlatTo(h, 0) = <<>> /\ FlatTo(h, Len(h)) = FlattenSeq(h) /\ FlatTo(h, k) \in Seq(S)
  <2>1. SubSeq(h, 1, 0) = <<>> /\ SubSeq(h, 1, Len(h)) = h
    BY SubSeqEmpty, SubSeqFull
  <2>2. 0 \in 0..Len(h) /\ Len(h) \in 0..Len(h)
    BY <1>1
  <2> QED
    BY <1>2, <2>1, <2>2, FlatOfNone, FlatIsSeq
<1>4. ASSUME k > 0 PROVE FlatTo(h, k) = FlatTo(h, k - 1) \o h[k]
  <2>1. k \in 1..Len(h) /\ k - 1 \in 0..Len(h) /\ h[k] \in Seq(S) /\ 1 \in 1..Len(h)
    BY <1>1, <1>4
  <2> DEFINE b == SubSeq(h, 1, k - 1)
             e == h[k]
  <2>2. b \in Seq(Seq(S)) /\ FlatTo(h, k - 1) = FlattenSeq(b)
    BY <1>2, <2>1
  <2>3. SubSeq(h, 1, k) = b \o <<e>>
    BY <2>1, SubSeqRecursiveSecond
  <2>4. e \in Seq(S) /\ FlatTo(h, k) = FlattenSeq(b \o <<e>>)
    BY <1>2, <2>1, <2>3
  <2> HIDE DEF b, e
  <2>5. b \o <<e>> = Append(b, e)
    BY <2>2, <2>4, AppendIsConcat
  <2> QED
    BY <2>2, <2>4, <2>5, FlatOfMore DEF e
<1>5. \E r \in Seq(S) : FlattenSeq(h) = FlatTo(h, k) \o r
  <2> DEFINE a == SubSeq(h, 1, k)
             b == SubSeq(h, k + 1, Len(h))
  <2>1. a \in Seq(Seq(S)) /\ FlatTo(h, k) = FlattenSeq(a)
    BY <1>2
  <2>2. b \in Seq(Seq(S))
    <3>1. \A i \in (k + 1)..Len(h) : h[i] \in Seq(S)
      BY <1>1
    <3> QED
      BY <1>1, <3>1, SubSeqProperties
  <2>3. a \o b = h
    <3>1. 1 \in 1..(Len(h) + 1) /\ k \in (1 - 1)..Len(h) /\ Len(h) \in k..Len(h)
      BY <1>1
    <3>2. a \o b = SubSeq(h, 1, Len(h))
      BY <3>1, ConcatAdjacentSubSeq
    <3> QED
      BY <3>2, SubSeqFull
  <2> HIDE DEF a, b
  <2>4. FlattenSeq(a \o b) = FlattenSeq(a) \o FlattenSeq(b) /\ FlattenSeq(b) \in Seq(S)
    BY <2>1, <2>2, FlatOfBoth, FlatIsSeq
  <2> QED
    BY <2>1, <2>3, <2>4
<1> QED
  BY <1>3, <1>4, <1>5

(* One element, a sequence and another one: what is where. *)
LEMMA Places ==
  ASSUME NEW a \in Nat, NEW b \in Seq(Nat), NEW c \in Seq(Nat), NEW s, s = <<a>> \o b \o c
  PROVE  /\ s \in Seq(Nat) /\ Len(s) = 1 + Len(b) + Len(c) /\ s[1] = a
         /\ \A i \in 1..Len(b) : s[1 + i] = b[i]
         /\ \A i \in 1..Len(c) : s[1 + Len(b) + i] = c[i]
<1> DEFINE o == <<a>>
           f == o \o b
           m == Len(b)
           n == Len(c)
<1>1. m \in Nat /\ n \in Nat
  BY LenProperties
<1>2. o \in Seq(Nat) /\ Len(o) = 1 /\ o[1] = a
  OBVIOUS
<1> HIDE DEF o
<1>3. f \in Seq(Nat) /\ Len(f) = 1 + m /\ \A i \in 1..(1 + m) : f[i] = IF i <= 1 THEN o[i] ELSE b[i - 1]
  <2>1. /\ o \o b \in Seq(Nat) /\ Len(o \o b) = Len(o) + Len(b)
        /\ \A i \in 1..(Len(o) + Len(b)) : (o \o b)[i] = IF i <= Len(o) THEN o[i] ELSE b[i - Len(o)]
    BY <1>2, ConcatProperties
  <2> QED
    BY <1>2, <2>1
<1> HIDE DEF f
<1>4. /\ s \in Seq(Nat) /\ Len(s) = (1 + m) + n
      /\ \A i \in 1..((1 + m) + n) : s[i] = IF i <= 1 + m THEN f[i] ELSE c[i - (1 + m)]
  <2>1. /\ f \o c \in Seq(Nat) /\ Len(f \o c) = Len(f) + Len(c)
        /\ \A i \in 1..(Len(f) + Len(c)) : (f \o c)[i] = IF i <= Len(f) THEN f[i] ELSE c[i - Len(f)]
    BY <1>3, ConcatProperties
  <2>2. s = f \o c
    BY DEF f, o
  <2> QED
    BY <1>3, <2>1, <2>2
<1> HIDE DEF m, n
<1>5. s[1] = a
  <2>1. 1 \in 1..(1 + m) /\ 1 \in 1..((1 + m) + n) /\ 1 <= 1 + m /\ 1 <= 1
    BY <1>1
  <2> QED
    BY <1>2, <1>3, <1>4, <2>1
<1>6. ASSUME NEW i \in 1..m PROVE s[1 + i] = b[i]
  <2>1. /\ 1 + i \in 1..(1 + m) /\ 1 + i \in 1..((1 + m) + n) /\ 1 + i <= 1 + m
        /\ ~(1 + i <= 1) /\ (1 + i) - 1 = i
    BY <1>1
  <2> QED
    BY <1>3, <1>4, <2>1
<1>7. ASSUME NEW i \in 1..n PROVE s[1 + m + i] = c[i]
  <2>1. /\ 1 + m + i \in 1..((1 + m) + n) /\ ~(1 + m + i <= 1 + m)
        /\ (1 + m + i) - (1 + m) = i
    BY <1>1
  <2> QED
    BY <1>4, <2>1
<1>8. Len(s) = 1 + m + n
  BY <1>1, <1>4
<1> QED
  BY <1>4, <1>5, <1>6, <1>7, <1>8 DEF m, n

-----------------------------------------------------------------------------
(* The text laid out: its units one behind the other from the second place *)
(* on, each where the one before it ends, and how it can end.              *)
Chars(k) == units[k].chars
AllChars == [i \in DOMAIN units |-> units[i].chars]
StartOf(k) == 2 + Len(FlatTo(AllChars, k))

Ends(e) ==
  \/ text[e] = Quote /\ text[e + 1] = Comma
  \/ text[e] = NUL
  \/ text[e] = Backslash /\ text[e + 1] = Quote /\ text[e + 2] = NUL /\ Len(text) = e + 2

Laid ==
  /\ units \in Seq(Units) /\ StartOf(0) = 2
  /\ \A k \in 0..Len(units) : StartOf(k) \in 2..Len(text)
  /\ \A k \in 1..Len(units) :
       /\ StartOf(k) = StartOf(k - 1) + Len(Chars(k))
       /\ \A j \in 1..Len(Chars(k)) : text[StartOf(k - 1) + (j - 1)] = Chars(k)[j]
  /\ Ends(StartOf(Len(units)))
  /\ Quoted <=> text[1] = Quote /\ text[StartOf(Len(units))] = Quote

LEMMA InitLaid == Init => Laid
<1> SUFFICES ASSUME Init PROVE Laid
  OBVIOUS
<1>1. PICK n \in 0..MaxUnits : units \in [1..n -> Units]
  BY DEF Init
<1>2. n \in Nat /\ units \in Seq(Units) /\ Len(units) = n /\ DOMAIN units = 1..n
  <2>1. n \in Nat
    BY MaxUnitsAssumption
  <2>2. units = [i \in 1..n |-> units[i]] /\ \A i \in 1..n : units[i] \in Units
    BY <1>1
  <2> QED
    BY <1>1, <2>1, <2>2, PlacesMakeSeq
<1> DEFINE h == AllChars
<1>3. h \in Seq(Seq(Nat)) /\ Len(h) = n /\ \A i \in 1..n : h[i] = Chars(i)
  <2>1. h = [i \in 1..n |-> h[i]] /\ \A i \in 1..n : h[i] = Chars(i)
    BY <1>2 DEF AllChars, Chars
  <2> DEFINE T == Seq(Nat)
  <2>2. \A i \in 1..n : h[i] \in T
    BY <1>1, <2>1, UnitsAssumption DEF Chars
  <2> HIDE DEF T, h
  <2>3. h \in Seq(T) /\ Len(h) = n
    BY <1>2, <2>1, <2>2, PlacesMakeSeq
  <2> QED
    BY <2>1, <2>3 DEF T
<1>4. Inside = FlattenSeq(h)
  BY DEF Inside, AllChars
<1> DEFINE F(k) == FlatTo(h, k)
<1>5. \A k \in 0..n : StartOf(k) = 2 + Len(F(k))
  BY DEF StartOf
<1> HIDE DEF h
<1>6. ASSUME NEW k \in 0..n
      PROVE  /\ F(k) \in Seq(Nat) /\ Len(F(k)) \in Nat
             /\ F(0) = <<>> /\ F(n) = Inside
             /\ k > 0 => F(k) = F(k - 1) \o h[k]
             /\ \E r \in Seq(Nat) : Inside = F(k) \o r
  <2>1. k \in 0..Len(h)
    BY <1>3
  <2>2. /\ F(k) \in Seq(Nat)
        /\ F(0) = <<>> /\ F(Len(h)) = FlattenSeq(h)
        /\ k > 0 => F(k) = F(k - 1) \o h[k]
        /\ \E r \in Seq(Nat) : FlattenSeq(h) = F(k) \o r
    BY <1>3, <2>1, FlatByOne
  <2> HIDE DEF F
  <2> QED
    BY <1>3, <1>4, <2>2, LenProperties
<1> HIDE DEF F
<1>7. 0 \in 0..n /\ n \in 0..n
  BY <1>2
<1>8. F(0) = <<>> /\ F(n) = Inside /\ Inside \in Seq(Nat) /\ Len(Inside) \in Nat
  BY <1>6, <1>7
<1>9. ASSUME NEW k \in 0..n PROVE StartOf(k) \in Nat /\ 2 <= StartOf(k) /\ StartOf(k) <= 2 + Len(Inside)
  <2>1. F(k) \in Seq(Nat) /\ Len(F(k)) \in Nat
    BY <1>6
  <2>2. PICK r \in Seq(Nat) : Inside = F(k) \o r
    BY <1>6
  <2> DEFINE s == F(k)
  <2>3. Inside = s \o r /\ s \in Seq(Nat) /\ StartOf(k) = 2 + Len(s)
    BY <1>5, <2>1, <2>2
  <2> HIDE DEF s
  <2>4. Len(Inside) = Len(s) + Len(r) /\ Len(r) \in Nat /\ Len(s) \in Nat
    BY <2>3, ConcatProperties, LenProperties
  <2> QED
    BY <2>3, <2>4
<1>10. PICK first \in {Quote, 120},
            last \in {<<Quote, Comma, NUL>>, <<NUL>>, <<Backslash, Quote, NUL>>} :
         text = <<first>> \o Inside \o last
  BY DEF Init
<1>11. /\ first \in Nat /\ last \in Seq(Nat) /\ 1 \in 1..Len(last)
       /\ \/ /\ last = <<Quote, Comma, NUL>> /\ Len(last) = 3 /\ last[1] = Quote
             /\ last[2] = Comma /\ last[3] = NUL
          \/ last = <<NUL>> /\ Len(last) = 1 /\ last[1] = NUL
          \/ /\ last = <<Backslash, Quote, NUL>> /\ Len(last) = 3 /\ last[1] = Backslash
             /\ last[2] = Quote /\ last[3] = NUL
  <2>1. CASE last = <<Quote, Comma, NUL>>
    BY <2>1 DEF Quote, Comma, NUL
  <2>2. CASE last = <<NUL>>
    BY <2>2 DEF Quote, NUL
  <2>3. CASE last = <<Backslash, Quote, NUL>>
    BY <2>3 DEF Quote, Backslash, NUL
  <2> QED
    BY <2>1, <2>2, <2>3
<1>12. /\ text \in Seq(Nat) /\ Len(text) = 1 + Len(Inside) + Len(last) /\ text[1] = first
       /\ \A i \in 1..Len(Inside) : text[1 + i] = Inside[i]
       /\ \A i \in 1..Len(last) : text[1 + Len(Inside) + i] = last[i]
  BY <1>8, <1>10, <1>11, Places
<1> DEFINE e == StartOf(n)
<1>13. e = 2 + Len(Inside)
  BY <1>5, <1>7, <1>8
<1> HIDE DEF e
<1>14. /\ e = 1 + Len(Inside) + 1 /\ e + 1 = 1 + Len(Inside) + 2 /\ e + 2 = 1 + Len(Inside) + 3
  BY <1>8, <1>13
<1>15. Ends(e) /\ text[e] = last[1]
  <2>1. text[e] = last[1]
    BY <1>11, <1>12, <1>14
  <2>2. CASE last = <<NUL>>
    BY <1>11, <2>1, <2>2 DEF Ends
  <2>3. CASE Len(last) = 3
    <3>1. 2 \in 1..Len(last) /\ 3 \in 1..Len(last)
      BY <2>3
    <3>2. text[1 + Len(Inside) + 2] = last[2] /\ text[1 + Len(Inside) + 3] = last[3]
      BY <1>12, <3>1
    <3>4. text[e + 1] = last[2] /\ text[e + 2] = last[3]
      BY <1>14, <3>2
    <3>3. Len(text) = e + 2
      BY <1>8, <1>12, <1>14, <2>3
    <3> QED
      BY <1>11, <2>1, <2>3, <3>3, <3>4 DEF Ends
  <2> QED
    BY <1>11, <2>1, <2>2, <2>3
<1>16. StartOf(0) = 2 /\ \A k \in 0..n : StartOf(k) \in 2..Len(text)
  <2>1. Len(F(0)) = 0
    BY <1>8, EmptySeq
  <2>2. StartOf(0) = 2
    BY <1>5, <1>7, <2>1
  <2>3. Len(last) \in Nat /\ Len(last) >= 1
    BY <1>11
  <2>4. Len(text) \in Nat /\ 2 + Len(Inside) <= Len(text)
    BY <1>8, <1>12, <2>3
  <2> QED
    BY <1>8, <1>9, <2>2, <2>4
<1>17. Quoted <=> text[1] = Quote /\ text[e] = Quote
  <2>1. ASSUME Quoted PROVE text[1] = Quote /\ text[e] = Quote
    <3> DEFINE end == <<Quote, Comma, NUL>>
    <3>1. text = <<Quote>> \o Inside \o end
      BY <2>1 DEF Quoted
    <3>2. Quote \in Nat /\ end \in Seq(Nat) /\ 1 \in 1..Len(end) /\ end[1] = Quote
      BY DEF Quote, Comma, NUL
    <3> HIDE DEF end
    <3>3. text[1] = Quote /\ \A i \in 1..Len(end) : text[1 + Len(Inside) + i] = end[i]
      BY <1>8, <3>1, <3>2, Places
    <3> QED
      BY <1>14, <3>2, <3>3
  <2>2. ASSUME text[1] = Quote, text[e] = Quote PROVE Quoted
    <3>1. Quote # NUL /\ Quote # Backslash
      BY DEF Quote, NUL, Backslash
    <3>2. first = Quote /\ last = <<Quote, Comma, NUL>>
      BY <1>11, <1>12, <1>15, <2>2, <3>1
    <3> QED
      BY <1>10, <3>2 DEF Quoted
  <2> QED
    BY <2>1, <2>2
<1>18. ASSUME NEW k \in 1..n
       PROVE  /\ StartOf(k) = StartOf(k - 1) + Len(Chars(k))
              /\ \A j \in 1..Len(Chars(k)) : text[StartOf(k - 1) + (j - 1)] = Chars(k)[j]
  <2>1. k \in 0..n /\ k - 1 \in 0..n /\ k > 0
    BY <1>2
  <2>2. /\ F(k) = F(k - 1) \o h[k] /\ F(k - 1) \in Seq(Nat) /\ Len(F(k - 1)) \in Nat
        /\ F(k) \in Seq(Nat) /\ Len(F(k)) \in Nat
    BY <1>6, <2>1
  <2>3. PICK r \in Seq(Nat) : Inside = F(k) \o r
    BY <1>6, <2>1
  <2> DEFINE p == F(k - 1)
             q == Chars(k)
  <2>4. q \in Seq(Nat) /\ Len(q) \in Nat /\ h[k] = q
    BY <1>3, ElementOfSeq, LenProperties
  <2>5. /\ Len(F(k)) = Len(p) + Len(q) /\ p \in Seq(Nat) /\ Len(p) \in Nat
        /\ \A i \in 1..(Len(p) + Len(q)) : F(k)[i] = IF i <= Len(p) THEN p[i] ELSE q[i - Len(p)]
    BY <2>2, <2>4, ConcatProperties
  <2>6. Len(r) \in Nat
    BY LenProperties
  <2>7. /\ Len(Inside) = Len(F(k)) + Len(r)
        /\ \A i \in 1..(Len(F(k)) + Len(r)) : Inside[i] = IF i <= Len(F(k)) THEN F(k)[i] ELSE r[i - Len(F(k))]
    <3> DEFINE s == F(k)
    <3>1. s \in Seq(Nat) /\ Inside = s \o r
      BY <2>2, <2>3
    <3> HIDE DEF s
    <3>2. /\ Len(s \o r) = Len(s) + Len(r)
          /\ \A i \in 1..(Len(s) + Len(r)) : (s \o r)[i] = IF i <= Len(s) THEN s[i] ELSE r[i - Len(s)]
      BY <3>1, ConcatProperties
    <3> QED
      BY <3>1, <3>2 DEF s
  <2>8. StartOf(k) = 2 + Len(F(k)) /\ StartOf(k - 1) = 2 + Len(p)
    BY <1>5, <2>1
  <2> HIDE DEF p, q
  <2>9. StartOf(k) = StartOf(k - 1) + Len(q)
    BY <2>4, <2>5, <2>8
  <2>10. ASSUME NEW j \in 1..Len(q) PROVE text[StartOf(k - 1) + (j - 1)] = q[j]
    <3>1. /\ Len(p) + j \in 1..(Len(p) + Len(q)) /\ ~(Len(p) + j <= Len(p))
          /\ (Len(p) + j) - Len(p) = j
      BY <2>4, <2>5
    <3>2. F(k)[Len(p) + j] = q[j]
      BY <2>5, <3>1
    <3>3. /\ Len(p) + j \in 1..(Len(F(k)) + Len(r)) /\ Len(p) + j <= Len(F(k))
      BY <2>4, <2>5, <2>6
    <3>4. Inside[Len(p) + j] = q[j] /\ Len(p) + j \in 1..Len(Inside)
      BY <2>7, <3>2, <3>3
    <3>5. StartOf(k - 1) + (j - 1) = 1 + (Len(p) + j)
      BY <2>5, <2>8
    <3> QED
      BY <1>12, <3>4, <3>5
  <2> QED
    BY <2>9, <2>10 DEF q
<1> QED
  BY <1>2, <1>15, <1>16, <1>17, <1>18 DEF Laid, e

(* No step changes the text. *)
LEMMA NextLaid == Laid /\ [Next]_vars => Laid'
<1> SUFFICES ASSUME Laid, [Next]_vars PROVE Laid'
  OBVIOUS
<1>1. units' = units /\ text' = text
  BY DEF Next, vars, OpeningQuote, NoQuote, Skip, SkipEscaped, NotClosed, ClosingQuote,
     CopyPlain, ControlCharacter, CopyEscaped, BadEscape, CopyUtf16, CopyPair, BadUtf16,
     Copied, Copies, Fails
<1>2. AllChars' = AllChars
  BY <1>1 DEF AllChars
<1>3. \A k : StartOf(k)' = StartOf(k)
  BY <1>2 DEF StartOf
<1>4. Quoted' = Quoted
  BY <1>1 DEF Quoted, Inside
<1> QED
  BY <1>1, <1>2, <1>4 DEF Laid, Ends, Chars, StartOf

-----------------------------------------------------------------------------
(* Nothing is UTF-8 for nothing. *)
LEMMA DecodedNothing == WellFormed(<<>>) /\ Decoded(<<>>) = <<>>
<1> DEFINE e == <<>>
           f == [i \in 1..0 |-> IF i \in Begins(e) THEN <<PointAt(e, i)>> ELSE <<>>]
<1>1. DOMAIN e = 1..0 /\ Begins(e) = {}
  BY DEF Begins
<1>2. f \in Seq({<<>>})
  <2>1. f = [i \in 1..0 |-> f[i]] /\ \A i \in 1..0 : f[i] \in {<<>>}
    BY <1>1
  <2> HIDE DEF f
  <2> QED
    BY <2>1, PlacesMakeSeq
<1>3. Decoded(e) = FlattenSeq(f)
  BY <1>1 DEF Decoded
<1>4. WellFormed(e)
  BY <1>1 DEF WellFormed
<1> HIDE DEF f
<1>5. FlattenSeq(f) = <<>>
  BY <1>2, FlatOfEmpties
<1> QED
  BY <1>3, <1>4, <1>5

(* The code points of the first k units. *)
AllPoints == [i \in DOMAIN units |-> Points(i)]
PointsTo(k) == FlatTo(AllPoints, k)

(* Each unit adds its points, and the first half of a pair none. *)
LEMMA PointsByOne ==
  ASSUME Laid, NEW k \in 0..Len(units)
  PROVE  /\ PointsTo(0) = <<>> /\ PointsTo(Len(units)) = CodePoints
         /\ k > 0 => PointsTo(k) = PointsTo(k - 1) \o Points(k)
         /\ k > 0 /\ Lead(Means(k)) => PointsTo(k) = PointsTo(k - 1)
<1> DEFINE h == AllPoints
           n == Len(units)
           Point(i) == IF Trail(Means(i))
                       THEN Hex + 1024 * (Means(i - 1) - 55296) + (Means(i) - 56320)
                       ELSE Means(i)
           S == {Point(i) : i \in 1..n}
           T == Seq(S)
<1>1. n \in Nat /\ DOMAIN units = 1..n
  BY LenProperties DEF Laid
<1>2. \A i \in 1..n : h[i] = Points(i)
  BY <1>1 DEF AllPoints
<1>3. \A i \in 1..n : h[i] \in T
  <2>1. ASSUME NEW i \in 1..n PROVE Points(i) \in T
    <3> DEFINE p == Point(i)
    <3>1. Points(i) = IF Lead(Means(i)) THEN <<>> ELSE <<p>>
      BY DEF Points
    <3>2. p \in S
      OBVIOUS
    <3> HIDE DEF S, p
    <3>3. <<>> \in Seq(S) /\ <<p>> \in Seq(S)
      BY <3>2
    <3> QED
      BY <3>1, <3>3
  <2> HIDE DEF T, h
  <2> QED
    BY <1>2, <2>1
<1>4. h = [i \in 1..n |-> h[i]]
  BY <1>1 DEF AllPoints
<1> HIDE DEF T, h
<1>5. h \in Seq(T) /\ Len(h) = n
  <2> HIDE DEF n
  <2> QED
    BY <1>1, <1>3, <1>4, PlacesMakeSeq
<1> HIDE DEF S
<1>6. h \in Seq(Seq(S)) /\ k \in 0..Len(h)
  BY <1>5 DEF T
<1>7. /\ FlatTo(h, 0) = <<>> /\ FlatTo(h, Len(h)) = FlattenSeq(h)
      /\ k > 0 => FlatTo(h, k) = FlatTo(h, k - 1) \o h[k]
  <2> HIDE DEF n
  <2> QED
    BY <1>6, FlatByOne
<1>8. k > 0 => FlatTo(h, k - 1) \in Seq(S)
  <2>1. k > 0 => k - 1 \in 0..Len(h)
    BY <1>1, <1>5
  <2> HIDE DEF n
  <2> QED
    BY <1>6, <2>1, FlatByOne
<1>9. CodePoints = FlattenSeq(h)
  BY DEF CodePoints, AllPoints, h
<1>10. k > 0 => h[k] = Points(k)
  BY <1>1, <1>2
<1>11. ASSUME k > 0, Lead(Means(k)) PROVE FlatTo(h, k) = FlatTo(h, k - 1)
  <2>1. Points(k) = <<>>
    BY <1>11 DEF Points
  <2>2. FlatTo(h, k) = FlatTo(h, k - 1) \o <<>>
    BY <1>7, <1>10, <1>11, <2>1
  <2>3. FlatTo(h, k - 1) \in Seq(S)
    BY <1>8, <1>11
  <2> QED
    BY <2>2, <2>3, ConcatEmptySeq
<1> QED
  BY <1>5, <1>7, <1>9, <1>10, <1>11 DEF PointsTo, h

-----------------------------------------------------------------------------
(* What can be read where unit k + 1 begins. *)
PlainAt(k) ==
  /\ IsPlain(units[k + 1])
  /\ Len(Chars(k + 1)) \in Nat /\ Len(Chars(k + 1)) >= 1
  /\ \A j \in 0..(Len(Chars(k + 1)) - 1) :
       /\ text[StartOf(k) + j] = Chars(k + 1)[j + 1]
       /\ text[StartOf(k) + j] \in 32..255 \ {Quote, Backslash}
  /\ StartOf(k + 1) = StartOf(k) + Len(Chars(k + 1))

ShortAt(k) ==
  /\ text[StartOf(k)] = Backslash /\ text[StartOf(k) + 1] \in DOMAIN Escaped
  /\ Escaped[text[StartOf(k) + 1]] = Means(k + 1) /\ Means(k + 1) \in 0..127
  /\ StartOf(k + 1) = StartOf(k) + 2

NumberAt(k) ==
  /\ IsNumber(units[k + 1]) /\ Means(k + 1) \in 0..(Hex - 1)
  /\ text[StartOf(k)] = Backslash /\ text[StartOf(k) + 1] = LetterU
  /\ text[StartOf(k) + 2] = Hex + Means(k + 1)
  /\ StartOf(k + 1) = StartOf(k) + 3

BadAt(k) ==
  /\ Means(k + 1) = Bad
  /\ \/ text[StartOf(k)] \in 1..31
     \/ /\ text[StartOf(k)] = Backslash
        /\ text[StartOf(k) + 1] \in 1..255 \ {LetterU}
        /\ text[StartOf(k) + 1] \notin DOMAIN Escaped
     \/ /\ text[StartOf(k)] = Backslash /\ text[StartOf(k) + 1] = LetterU
        /\ text[StartOf(k) + 2] \in 1..255

(* The escapes that process_string knows are the short ones. *)
LEMMA EscapedMeans ==
  /\ DOMAIN Escaped = {e[1] : e \in ShortEscapes}
  /\ \A e \in ShortEscapes : Escaped[e[1]] = e[2] /\ e[2] \in 0..127
<1>1. DOMAIN Escaped = {Quote, Backslash, 47, 98, 102, 110, 114, 116}
  BY DEF Escaped
<1>2. {e[1] : e \in ShortEscapes} = {Quote, Backslash, 47, 98, 102, 110, 114, 116}
  BY DEF ShortEscapes
<1>3. \A c \in DOMAIN Escaped : Escaped[c] = CASE c = 98  -> 8
                                               [] c = 102 -> 12
                                               [] c = 110 -> 10
                                               [] c = 114 -> 13
                                               [] c = 116 -> 9
                                               [] OTHER   -> c
  BY <1>1 DEF Escaped
<1>4. /\ Escaped[Quote] = Quote /\ Escaped[Backslash] = Backslash /\ Escaped[47] = 47
      /\ Escaped[98] = 8 /\ Escaped[102] = 12 /\ Escaped[110] = 10
      /\ Escaped[114] = 13 /\ Escaped[116] = 9
  BY <1>1, <1>3 DEF Quote, Backslash
<1>5. \A e \in ShortEscapes : Escaped[e[1]] = e[2] /\ e[2] \in 0..127
  <2> DEFINE P(e) == Escaped[e[1]] = e[2] /\ e[2] \in 0..127
  <2>1. /\ P(<<Quote, Quote>>) /\ P(<<Backslash, Backslash>>) /\ P(<<47, 47>>)
        /\ P(<<98, 8>>) /\ P(<<102, 12>>) /\ P(<<110, 10>>) /\ P(<<114, 13>>) /\ P(<<116, 9>>)
    BY <1>4 DEF Quote, Backslash
  <2> HIDE DEF P
  <2>2. \A e \in ShortEscapes : P(e)
    BY <2>1 DEF ShortEscapes
  <2> QED
    BY <2>2 DEF P
<1> QED
  BY <1>1, <1>2, <1>5

(* One of these is what is there. *)
LEMMA UnitRead ==
  ASSUME Laid, NEW k \in 0..(Len(units) - 1)
  PROVE  PlainAt(k) \/ ShortAt(k) \/ NumberAt(k) \/ BadAt(k)
<1> DEFINE u == units[k + 1]
           c == Chars(k + 1)
           s == StartOf(k)
<1>1. /\ Len(units) \in Nat /\ k \in Nat /\ k + 1 \in 1..Len(units) /\ (k + 1) - 1 = k
      /\ units \in Seq(Units) /\ k \in 0..Len(units)
  BY LenProperties DEF Laid
<1>2. u \in Units /\ c = u.chars
  BY <1>1, ElementOfSeq DEF Chars
<1>3. c \in Seq(Nat) /\ Len(c) \in Nat /\ DOMAIN c = 1..Len(c)
  BY <1>2, UnitsAssumption, LenProperties
<1>4. s \in Nat /\ s >= 2
  BY <1>1 DEF Laid
<1>5. /\ StartOf(k + 1) = s + Len(c)
      /\ \A j \in 1..Len(c) : text[s + (j - 1)] = c[j]
  BY <1>1 DEF Laid
<1>6. IsPlain(u) \/ IsShort(u) \/ IsNumber(u) \/ IsBad(u)
  BY <1>2, MeansAssumption
<1>7. Means(k + 1) = u.means
  BY DEF Means
<1> HIDE DEF u, c, s
<1>8. /\ Len(c) >= 1 => text[s] = c[1]
      /\ Len(c) >= 2 => text[s + 1] = c[2]
      /\ Len(c) >= 3 => text[s + 2] = c[3]
  <2>1. /\ Len(c) >= 1 => 1 \in 1..Len(c)
        /\ Len(c) >= 2 => 2 \in 1..Len(c)
        /\ Len(c) >= 3 => 3 \in 1..Len(c)
    BY <1>3
  <2>2. s + (1 - 1) = s /\ s + (2 - 1) = s + 1 /\ s + (3 - 1) = s + 2
    BY <1>4
  <2> QED
    BY <1>5, <2>1, <2>2
<1>9. CASE IsPlain(u)
  <2>1. Len(c) >= 1
    <3>1. Decoded(c) = <<u.means>>
      BY <1>2, <1>9 DEF IsPlain
    <3>2. c # <<>>
      <4>1. <<u.means>> # <<>>
        OBVIOUS
      <4> QED
        BY <3>1, <4>1, DecodedNothing
    <3> QED
      BY <1>3, <3>2, EmptySeq
  <2>2. ASSUME NEW j \in 0..(Len(c) - 1)
        PROVE  text[s + j] = c[j + 1] /\ text[s + j] \in 32..255 \ {Quote, Backslash}
    <3>1. j + 1 \in 1..Len(c) /\ s + ((j + 1) - 1) = s + j
      BY <1>3, <1>4
    <3>2. text[s + j] = c[j + 1]
      BY <1>5, <3>1
    <3>3. c[j + 1] \in 32..255 \ {Quote, Backslash}
      BY <1>2, <1>3, <1>9, <3>1 DEF IsPlain
    <3> QED
      BY <3>2, <3>3
  <2>3. PlainAt(k)
    BY <1>3, <1>5, <1>9, <2>1, <2>2 DEF PlainAt, u, c, s
  <2> QED
    BY <2>3
<1>10. CASE IsShort(u)
  <2>1. PICK e \in ShortEscapes : u.chars = <<Backslash, e[1]>> /\ u.means = e[2]
    BY <1>10 DEF IsShort
  <2>2. Len(c) = 2 /\ c[1] = Backslash /\ c[2] = e[1]
    BY <1>2, <2>1
  <2>3. text[s] = Backslash /\ text[s + 1] = e[1]
    BY <1>8, <2>2
  <2>4. e[1] \in DOMAIN Escaped /\ Escaped[e[1]] = e[2] /\ e[2] \in 0..127
    BY EscapedMeans
  <2>5. ShortAt(k)
    BY <1>5, <1>7, <2>1, <2>2, <2>3, <2>4 DEF ShortAt, s
  <2> QED
    BY <2>5
<1>11. CASE IsNumber(u)
  <2>1. u.means \in 0..(Hex - 1) /\ u.chars = <<Backslash, LetterU, Hex + u.means>>
    BY <1>11 DEF IsNumber
  <2>2. Len(c) = 3 /\ c[1] = Backslash /\ c[2] = LetterU /\ c[3] = Hex + u.means
    BY <1>2, <2>1
  <2>3. text[s] = Backslash /\ text[s + 1] = LetterU /\ text[s + 2] = Hex + u.means
    BY <1>8, <2>2
  <2>4. NumberAt(k)
    BY <1>5, <1>7, <1>11, <2>1, <2>2, <2>3 DEF NumberAt, s, u
  <2> QED
    BY <2>4
<1>12. CASE IsBad(u)
  <2>1. /\ u.means = Bad
        /\ \/ Len(c) >= 1 /\ c[1] \in 1..31
           \/ /\ Len(c) >= 2 /\ c[1] = Backslash
              /\ c[2] \in 1..255 \ {LetterU}
              /\ \A e \in ShortEscapes : c[2] # e[1]
           \/ Len(c) >= 3 /\ c[1] = Backslash /\ c[2] = LetterU /\ c[3] \in 1..255
    BY <1>2, <1>12 DEF IsBad
  <2>2. Means(k + 1) = Bad
    BY <1>7, <2>1
  <2>3. CASE Len(c) >= 1 /\ c[1] \in 1..31
    BY <1>8, <2>2, <2>3 DEF BadAt, s
  <2>4. CASE /\ Len(c) >= 2 /\ c[1] = Backslash
             /\ c[2] \in 1..255 \ {LetterU}
             /\ \A e \in ShortEscapes : c[2] # e[1]
    <3>1. c[2] \notin DOMAIN Escaped
      BY <2>4, EscapedMeans
    <3>2. text[s] = Backslash /\ text[s + 1] = c[2]
      BY <1>3, <1>8, <2>4
    <3>3. BadAt(k)
      BY <2>2, <2>4, <3>1, <3>2 DEF BadAt, s
    <3> QED
      BY <3>3
  <2>5. CASE Len(c) >= 3 /\ c[1] = Backslash /\ c[2] = LetterU /\ c[3] \in 1..255
    <3>1. text[s] = Backslash /\ text[s + 1] = LetterU /\ text[s + 2] = c[3]
      BY <1>3, <1>8, <2>5
    <3>2. BadAt(k)
      BY <2>2, <2>5, <3>1 DEF BadAt, s
    <3> QED
      BY <3>2
  <2> QED
    BY <2>1, <2>3, <2>4, <2>5
<1> QED
  BY <1>6, <1>9, <1>10, <1>11, <1>12

-----------------------------------------------------------------------------
(* The first k units are good, with no half of a pair at their end. *)
Read(k) ==
  \A i \in 1..k :
    /\ Means(i) # Bad
    /\ Lead(Means(i)) => i + 1 \in 1..k /\ Trail(Means(i + 1))
    /\ Trail(Means(i)) => i - 1 \in 1..k /\ Lead(Means(i - 1))

(* process_string has read k units and j characters of a plain one; w is   *)
(* what it has written for the k.                                          *)
CopyAt(k, j, w, a, o) ==
  /\ a = StartOf(k) + j
  /\ Read(k) /\ w \in Seq(Nat) /\ WellFormed(w) /\ Decoded(w) = PointsTo(k)
  /\ j = 0 => o = w
  /\ j # 0 => /\ k < Len(units) /\ PlainAt(k) /\ j < Len(Chars(k + 1))
              /\ o = w \o SubSeq(Chars(k + 1), 1, j)

Copying(a, o) == \E k \in 0..Len(units), j \in Nat, w \in Seq(Nat) : CopyAt(k, j, w, a, o)

CopyUnits == step \in {"copy", "done"} => Copying(at, output) /\ (step = "done" => at >= close)

(* No code point is both halves of a pair, and Bad is neither. *)
LEMMA Halves ==
  ASSUME NEW x
  PROVE  /\ Trail(x) => ~Lead(x) /\ x # Bad
         /\ Lead(x) => ~Trail(x) /\ x # Bad
<1> DEFINE A == 55296..56319
           B == 56320..57343
<1>1. \A y \in Nat : ~(y \in A /\ y \in B)
  OBVIOUS
<1>2. A \subseteq Nat /\ B \subseteq Nat
  OBVIOUS
<1>3. Lead(x) => x \in A
  BY SMT DEF Lead
<1>4. Trail(x) => x \in B
  BY SMT DEF Trail
<1>5. Bad \notin Nat
  BY DEF Bad
<1> HIDE DEF A, B
<1> QED
  BY <1>1, <1>2, <1>3, <1>4, <1>5, Zenon

(* What a unit means alone. *)
LEMMA MeansAlone ==
  ASSUME NEW k \in Nat
  PROVE  /\ PlainAt(k) => Means(k + 1) \in Nat /\ ~Lead(Means(k + 1)) /\ ~Trail(Means(k + 1))
         /\ ShortAt(k) => Means(k + 1) \in Nat /\ ~Lead(Means(k + 1)) /\ ~Trail(Means(k + 1))
         /\ NumberAt(k) => Means(k + 1) \in Nat
         /\ BadAt(k) => ~Lead(Means(k + 1)) /\ ~Trail(Means(k + 1))
         /\ Bad \notin Nat
<1>1. Bad \notin Nat /\ ~Lead(Bad) /\ ~Trail(Bad)
  BY DEF Bad, Lead, Trail
<1>2. PlainAt(k) => Means(k + 1) \in Nat /\ ~Lead(Means(k + 1)) /\ ~Trail(Means(k + 1))
  BY DEF PlainAt, IsPlain, Means
<1>3. ShortAt(k) => Means(k + 1) \in Nat /\ ~Lead(Means(k + 1)) /\ ~Trail(Means(k + 1))
  <2>1. ShortAt(k) => Means(k + 1) \in 0..127
    BY Zenon DEF ShortAt
  <2>2. \A x \in 0..127 : x \in Nat /\ ~Lead(x) /\ ~Trail(x)
    BY DEF Lead, Trail
  <2> QED
    BY <2>1, <2>2, Zenon
<1>4. NumberAt(k) => Means(k + 1) \in Nat
  <2>1. NumberAt(k) => Means(k + 1) \in 0..(Hex - 1)
    BY Zenon DEF NumberAt
  <2>2. \A x \in 0..(Hex - 1) : x \in Nat
    BY DEF Hex
  <2> QED
    BY <2>1, <2>2, Zenon
<1> QED
  BY <1>1, <1>2, <1>3, <1>4 DEF BadAt

(* Adding nothing. *)
LEMMA PlusNone ==
  ASSUME NEW n, NEW a \in 2..n
  PROVE  a = a + 0
OBVIOUS

(* A unit starts inside of the text. *)
LEMMA StartInside ==
  ASSUME Laid, NEW k \in 0..Len(units)
  PROVE  StartOf(k) \in 2..Len(text)
BY Zenon DEF Laid

(* The value of digits is what they were made from. *)
LEMMA HexBack ==
  ASSUME NEW x \in 0..(Hex - 1)
  PROVE  Hex + x >= Hex /\ (Hex + x) - Hex = x
BY DEF Hex

(* The last of the places from 0 to n. *)
LEMMA UpTo ==
  ASSUME NEW n \in Nat, NEW i \in 0..n, ~(i < n)
  PROVE  i = n
OBVIOUS

(* Four digits are a code point. *)
LEMMA HexPoint ==
  ASSUME NEW x \in 0..(Hex - 1)
  PROVE  x \in Nat /\ x <= LastPoint
BY DEF Hex, LastPoint

(* One more unit that means a code point by itself. *)
LEMMA OneMore ==
  ASSUME Laid, NEW k \in 0..(Len(units) - 1), Read(k),
         NEW w \in Seq(Nat), WellFormed(w), Decoded(w) = PointsTo(k),
         NEW b \in Seq(Nat), WellFormed(b), Decoded(b) = <<Means(k + 1)>>,
         Means(k + 1) \in Nat, ~Lead(Means(k + 1)), ~Trail(Means(k + 1))
  PROVE  Copying(StartOf(k + 1), w \o b)
<1>1. Len(units) \in Nat /\ k \in Nat /\ k + 1 \in 0..Len(units) /\ (k + 1) - 1 = k /\ k + 1 > 0
  BY LenProperties DEF Laid
<1>2. Points(k + 1) = <<Means(k + 1)>>
  BY DEF Points
<1>3. PointsTo(k + 1) = PointsTo(k) \o <<Means(k + 1)>>
  BY <1>1, <1>2, PointsByOne
<1>4. WellFormed(w \o b) /\ Decoded(w \o b) = PointsTo(k + 1)
  BY <1>3, DecodedTogether
<1>5. Read(k + 1)
  <2>1. Bad \notin Nat
    BY DEF Bad
  <2>2. \A i \in 1..(k + 1) : i = k + 1 \/ i \in 1..k
    BY <1>1
  <2>3. \A i \in 1..k : i \in 1..(k + 1)
    BY <1>1
  <2> QED
    BY <2>1, <2>2, <2>3 DEF Read
<1>6. w \o b \in Seq(Nat)
  BY ConcatProperties
<1>7. StartOf(k + 1) = StartOf(k + 1) + 0
  <2>1. StartOf(k + 1) \in 2..Len(text)
    BY <1>1, StartInside
  <2> QED
    BY <2>1, PlusNone, Zenon
<1>8. CopyAt(k + 1, 0, w \o b, StartOf(k + 1), w \o b)
  BY <1>4, <1>5, <1>6, <1>7 DEF CopyAt
<1> QED
  BY <1>1, <1>6, <1>8 DEF Copying

(* A pair of units that mean a code point together. *)
LEMMA PairMore ==
  ASSUME Laid, NEW k \in 0..(Len(units) - 2), NEW m, m = k + 1, NEW q, q = k + 2, Read(k),
         NEW w \in Seq(Nat), WellFormed(w), Decoded(w) = PointsTo(k),
         NEW b \in Seq(Nat), WellFormed(b), Decoded(b) = Points(q),
         Lead(Means(m)), Trail(Means(q))
  PROVE  Copying(StartOf(q), w \o b)
<1>1. /\ Len(units) \in Nat /\ k \in Nat /\ m \in 0..Len(units) /\ m - 1 = k /\ m > 0
      /\ q \in 0..Len(units) /\ q - 1 = m /\ q > 0 /\ m + 1 = q
      /\ m \in 1..q /\ q \in 1..q
      /\ \A i \in 1..q : i = q \/ i = m \/ i \in 1..k
      /\ \A i \in 1..k : i \in 1..q
  BY LenProperties DEF Laid
<1>2. \A x : Trail(x) => ~Lead(x) /\ x # Bad
  BY Halves, Zenon
<1>3. \A x : Lead(x) => ~Trail(x) /\ x # Bad
  BY Halves, Zenon
<1>4. PointsTo(m) = PointsTo(k)
  BY <1>1, PointsByOne
<1>5. PointsTo(q) = PointsTo(m) \o Points(q)
  BY <1>1, PointsByOne
<1>6. PointsTo(q) = Decoded(w) \o Decoded(b)
  BY <1>4, <1>5
<1>7. WellFormed(w \o b) /\ Decoded(w \o b) = PointsTo(q)
  BY <1>6, DecodedTogether
<1>8. Read(q)
  <2>1. ASSUME NEW i \in 1..q
        PROVE  /\ Means(i) # Bad
               /\ Lead(Means(i)) => i + 1 \in 1..q /\ Trail(Means(i + 1))
               /\ Trail(Means(i)) => i - 1 \in 1..q /\ Lead(Means(i - 1))
    <3>1. CASE i = q
      BY <1>1, <1>2, <3>1, Zenon
    <3>2. CASE i = m
      BY <1>1, <1>3, <3>2, Zenon
    <3>3. CASE i \in 1..k
      BY <1>1, <3>3, Zenon DEF Read
    <3> QED
      BY <1>1, <3>1, <3>2, <3>3
  <2> QED
    BY <2>1, Zenon DEF Read
<1>9. w \o b \in Seq(Nat)
  BY ConcatProperties
<1>10. StartOf(q) = StartOf(q) + 0
  <2>1. StartOf(q) \in 2..Len(text)
    BY <1>1, StartInside
  <2> QED
    BY <2>1, PlusNone, Zenon
<1>11. CopyAt(q, 0, w \o b, StartOf(q), w \o b)
  BY <1>7, <1>8, <1>9, <1>10 DEF CopyAt
<1>12. 0 \in Nat
  OBVIOUS
<1> QED
  BY <1>1, <1>9, <1>11, <1>12, Zenon DEF Copying

(* Where the units end, the string ends. *)
LEMMA UnitsEndIt ==
  ASSUME Laid, Shape, CopyInv, step = "copy", at < close, NEW k \in 0..Len(units), at = StartOf(k)
  PROVE  k < Len(units)
<1>1. Len(units) \in Nat /\ at \in Nat /\ close \in Nat /\ Len(text) \in Nat
  BY LenProperties DEF Laid, Shape
<1> SUFFICES ASSUME k = Len(units) PROVE FALSE
  BY <1>1
<1>2. Ends(at)
  BY DEF Laid
<1>3. /\ 2 <= at /\ close <= Len(text) /\ text[close] = Quote /\ Standing(text)[at] = "first"
      /\ Standing(text)[close] = "first" /\ NoEndBefore(close)
  BY DEF CopyInv
<1>4. text[at] \notin {Quote, NUL}
  <2>1. at \in 2..(close - 1)
    BY <1>1, <1>3
  <2> QED
    BY <1>3, <2>1 DEF NoEndBefore
<1>5. /\ text[at] = Backslash /\ text[at + 1] = Quote /\ text[at + 2] = NUL /\ Len(text) = at + 2
  BY <1>2, <1>4 DEF Ends
<1>6. Standing(text)[at + 1] = "second"
  BY <1>1, <1>3, <1>5, StandsNext
<1>7. close = at + 1 \/ close = at + 2
  BY <1>1, <1>3, <1>5
<1> QED
  BY <1>3, <1>5, <1>6, <1>7 DEF Quote, NUL

-----------------------------------------------------------------------------
(* What is written for a code point decodes to it. *)
LEMMA BytesDecode ==
  ASSUME NEW p \in Nat, p <= LastPoint
  PROVE  Bytes(p) \in Seq(Nat) /\ WellFormed(Bytes(p)) /\ Decoded(Bytes(p)) = <<p>>
<1> DEFINE s == Bytes(p)
<1>1. s \in Seq(Nat)
  BY BytesFew
<1>2. s = Bytes(p)
  OBVIOUS
<1> HIDE DEF s
<1>3. Utf8For(s, p)
  BY <1>2, BytesAreUtf8
<1>4. Decoded(s) = <<p>> /\ WellFormed(s)
  BY <1>1, <1>3, DecodedOne DEF Utf8For
<1> QED
  BY <1>1, <1>2, <1>4

(* A byte below 128 decodes to itself. *)
LEMMA ByteDecodes ==
  ASSUME NEW p \in 0..127
  PROVE  <<p>> \in Seq(Nat) /\ WellFormed(<<p>>) /\ Decoded(<<p>>) = <<p>>
<1>1. p \in Nat /\ p <= LastPoint /\ p < 128
  BY DEF LastPoint
<1>2. Bytes(p) = <<p>>
  BY <1>1 DEF Bytes
<1> QED
  BY <1>1, <1>2, BytesDecode

(* What is put together can be put together in either order. *)
LEMMA ThreeTogether ==
  ASSUME NEW a \in Seq(Nat), NEW b \in Seq(Nat), NEW c \in Seq(Nat)
  PROVE  (a \o b) \o c = a \o (b \o c)
BY ConcatAssociative

(* process_string, before the closing quote, is at a unit or in a plain    *)
(* one; at a backslash it is at a unit that is not plain.                  *)
LEMMA AtUnit ==
  ASSUME Laid, Shape, CopyInv, CopyUnits, InString
  PROVE  \E k \in 0..(Len(units) - 1), j \in Nat, w \in Seq(Nat) :
           /\ CopyAt(k, j, w, at, output)
           /\ text[at] = Backslash => j = 0 /\ ~PlainAt(k)
<1>1. step = "copy" /\ at < close
  BY DEF InString
<1>2. PICK k \in 0..Len(units), j \in Nat, w \in Seq(Nat) : CopyAt(k, j, w, at, output)
  BY <1>1 DEF CopyUnits, Copying
<1>3. Len(units) \in Nat /\ k \in Nat /\ StartOf(k) \in Nat /\ at = StartOf(k) + j
  BY <1>2, LenProperties DEF Laid, CopyAt
<1>4. k < Len(units)
  <2>1. CASE j = 0
    <3>1. at = StartOf(k)
      BY <1>3, <2>1
    <3> QED
      BY <1>1, <3>1, UnitsEndIt
  <2>2. CASE j # 0
    BY <1>2, <2>2 DEF CopyAt
  <2> QED
    BY <2>1, <2>2
<1>5. k \in 0..(Len(units) - 1)
  BY <1>3, <1>4
<1>6. ASSUME text[at] = Backslash PROVE j = 0 /\ ~PlainAt(k)
  <2>1. ~PlainAt(k)
    <3>1. SUFFICES ASSUME PlainAt(k) PROVE FALSE
      OBVIOUS
    <3> DEFINE l == Len(Chars(k + 1))
    <3>2. l \in Nat /\ l >= 1 /\ \A i \in 0..(l - 1) : text[StartOf(k) + i] # Backslash
      BY <3>1 DEF PlainAt
    <3>3. j < l
      <4>1. j # 0 => j < l
        BY <1>2 DEF CopyAt
      <4> HIDE DEF l
      <4> QED
        BY <3>2, <4>1
    <3> HIDE DEF l
    <3>4. j \in 0..(l - 1)
      BY <3>2, <3>3
    <3> QED
      BY <1>3, <1>6, <3>2, <3>4
  <2>2. j # 0 => PlainAt(k)
    BY <1>2 DEF CopyAt
  <2> QED
    BY <2>1, <2>2
<1> QED
  BY <1>2, <1>5, <1>6

(* A character copied is one more of a plain unit, or the last of it. *)
LEMMA PlainMoves ==
  ASSUME Laid, Shape, CopyInv, CopyUnits, CopyPlain
  PROVE  Copying(at', output')
<1>1. /\ InString /\ text[at] # Backslash /\ text[at] >= 32
      /\ output' = output \o <<text[at]>> /\ at' = at + 1
  BY DEF CopyPlain, Copies
<1>2. PICK k \in 0..(Len(units) - 1), j \in Nat, w \in Seq(Nat) : CopyAt(k, j, w, at, output)
  BY <1>1, AtUnit
<1>3. /\ Len(units) \in Nat /\ k \in Nat /\ k \in 0..Len(units) /\ k < Len(units)
      /\ k + 1 \in 1..Len(units) /\ StartOf(k) \in Nat
  <2>1. Len(units) \in Nat
    BY LenProperties DEF Laid
  <2> QED
    BY <2>1 DEF Laid
<1>4. at = StartOf(k) + j /\ Read(k) /\ WellFormed(w) /\ Decoded(w) = PointsTo(k)
  BY <1>2 DEF CopyAt
<1>5. PlainAt(k)
  <2>1. CASE j # 0
    BY <1>2, <2>1 DEF CopyAt
  <2>2. CASE j = 0
    <3>1. at = StartOf(k)
      BY <1>3, <1>4, <2>2
    <3>2. ~ShortAt(k) /\ ~NumberAt(k)
      BY <1>1, <3>1, Zenon DEF ShortAt, NumberAt
    <3>3. ~(text[at] \in 1..31)
      <4> DEFINE v == text[at]
      <4>1. v >= 32 /\ v \in Nat
        <5>1. at \in 1..Len(text) /\ text \in Seq(Nat)
          <6>1. step = "copy" /\ at < close
            BY <1>1 DEF InString
          <6> QED
            BY <6>1, LenProperties DEF CopyInv, Shape
        <5> QED
          BY <1>1, <5>1, ElementOfSeq
      <4> HIDE DEF v
      <4>2. ~(v \in 1..31)
        BY <4>1
      <4> QED
        BY <4>2 DEF v
    <3>4. ~BadAt(k)
      BY <1>1, <3>1, <3>3, Zenon DEF BadAt
    <3> QED
      BY <3>2, <3>4, UnitRead
  <2> QED
    BY <2>1, <2>2
<1> DEFINE c == Chars(k + 1)
           l == Len(c)
<1>6. c \in Seq(Nat) /\ l \in Nat
  <2>1. units[k + 1] \in Units
    BY <1>3, ElementOfSeq DEF Laid
  <2> QED
    BY <2>1, UnitsAssumption, LenProperties DEF Chars
<1>7. /\ l >= 1 /\ IsPlain(units[k + 1])
      /\ \A i \in 0..(l - 1) : text[StartOf(k) + i] = c[i + 1]
      /\ StartOf(k + 1) = StartOf(k) + l
  BY <1>5 DEF PlainAt
<1>8. output = w \o SubSeq(c, 1, j) /\ j < l
  <2>1. CASE j # 0
    BY <1>2, <2>1 DEF CopyAt
  <2>2. CASE j = 0
    <3>1. output = w
      BY <1>2, <2>2 DEF CopyAt
    <3>2. SubSeq(c, 1, 0) = <<>>
      BY SubSeqEmpty
    <3>3. w \o <<>> = w
      BY ConcatEmptySeq
    <3> QED
      BY <1>6, <1>7, <2>2, <3>1, <3>2, <3>3
  <2> QED
    BY <2>1, <2>2
<1>9. IsPlain(units[k + 1]) => /\ WellFormed(c) /\ Decoded(c) = <<Means(k + 1)>>
  BY DEF IsPlain, Means, Chars
<1> HIDE DEF l
<1>10. j \in 0..(l - 1) /\ j + 1 \in 1..l /\ 1 \in 1..l /\ (j + 1) - 1 = j /\ j + 1 \in Nat /\ j + 1 # 0
  BY <1>6, <1>8
<1>11. text[at] = c[j + 1]
  BY <1>4, <1>7, <1>10
<1> DEFINE d == SubSeq(c, 1, j)
           e == SubSeq(c, 1, j + 1)
           x == c[j + 1]
<1>12. e = d \o <<x>>
  <2> HIDE DEF c
  <2>1. 1 \in 1..Len(c) /\ j + 1 \in 1..Len(c)
    BY <1>10 DEF l
  <2>2. SubSeq(c, 1, j + 1) = SubSeq(c, 1, (j + 1) - 1) \o <<c[j + 1]>>
    BY <1>6, <2>1, SubSeqRecursiveSecond
  <2> QED
    BY <1>10, <2>2
<1>13. d \in Seq(Nat) /\ x \in Nat
  <2> HIDE DEF c
  <2>1. \A i \in 1..l : c[i] \in Nat
    BY <1>6, ElementOfSeq DEF l
  <2>2. \A i \in 1..j : i \in 1..l
    BY <1>6, <1>8
  <2>3. \A i \in 1..j : c[i] \in Nat
    BY <2>1, <2>2
  <2>4. d \in Seq(Nat)
    BY <2>3, SubSeqProperties
  <2> QED
    BY <1>10, <2>1, <2>4
<1>14. output' = w \o e
  <2>1. output' = (w \o d) \o <<x>>
    BY <1>1, <1>8, <1>11
  <2> HIDE DEF c, d, e, x
  <2>2. <<x>> \in Seq(Nat)
    BY <1>13
  <2> DEFINE y == <<x>>
  <2>3. output' = (w \o d) \o y /\ y \in Seq(Nat) /\ e = d \o y
    BY <1>12, <2>1, <2>2
  <2> HIDE DEF y
  <2>4. (w \o d) \o y = w \o (d \o y)
    BY <1>13, <2>3, ThreeTogether
  <2> QED
    BY <2>3, <2>4
<1>15. at' = StartOf(k) + (j + 1)
  BY <1>1, <1>3, <1>4
<1>16. CASE j + 1 < l
  <2>1. CopyAt(k, j + 1, w, at', output')
    BY <1>3, <1>4, <1>5, <1>10, <1>14, <1>15, <1>16, Zenon DEF CopyAt, l, c, e
  <2> QED
    BY <1>3, <1>10, <2>1, Zenon DEF Copying
<1>17. CASE j + 1 = l
  <2>1. e = c
    <3> HIDE DEF c
    <3>1. SubSeq(c, 1, Len(c)) = c
      BY <1>6, SubSeqFull
    <3> QED
      BY <1>17, <3>1 DEF l
  <2>2. at' = StartOf(k + 1) /\ output' = w \o c
    BY <1>7, <1>14, <1>15, <1>17, <2>1
  <2>3. Means(k + 1) \in Nat /\ ~Lead(Means(k + 1)) /\ ~Trail(Means(k + 1))
    BY <1>3, <1>5, MeansAlone
  <2>4. WellFormed(c) /\ Decoded(c) = <<Means(k + 1)>>
    BY <1>7, <1>9
  <2> HIDE DEF c
  <2>5. Copying(StartOf(k + 1), w \o c)
    BY <1>4, <1>6, <2>3, <2>4, OneMore
  <2> QED
    BY <2>2, <2>5
<1> QED
  BY <1>6, <1>8, <1>16, <1>17

(* At a backslash it is at a unit that is an escape, or a bad one.         *)
LEMMA AtEscapeUnit ==
  ASSUME Laid, Shape, CopyInv, CopyUnits, AtEscape
  PROVE  \E k \in 0..(Len(units) - 1) :
           /\ at = StartOf(k) /\ at + 2 <= Len(text)
           /\ Read(k) /\ WellFormed(output) /\ Decoded(output) = PointsTo(k)
           /\ ShortAt(k) \/ NumberAt(k) \/ BadAt(k)
<1>1. InString /\ text[at] = Backslash /\ step = "copy" /\ at < close
  BY DEF AtEscape, InString
<1>2. PICK k \in 0..(Len(units) - 1), j \in Nat, w \in Seq(Nat) :
        CopyAt(k, j, w, at, output) /\ j = 0 /\ ~PlainAt(k)
  BY <1>1, AtUnit
<1>3. /\ Read(k) /\ WellFormed(output) /\ Decoded(output) = PointsTo(k)
      /\ at = StartOf(k) + 0
  BY <1>2 DEF CopyAt
<1>4. ShortAt(k) \/ NumberAt(k) \/ BadAt(k)
  BY <1>2, UnitRead
<1>5. at = StartOf(k)
  <2>1. Len(units) \in Nat
    BY LenProperties DEF Laid
  <2>2. StartOf(k) \in Nat
    BY <2>1 DEF Laid
  <2> QED
    BY <1>3, <2>2
<1>6. at + 2 <= Len(text)
  <2>1. /\ at \in Nat /\ 2 <= at /\ close <= Len(text) /\ text[close] = Quote
        /\ Standing(text)[at] = "first" /\ Standing(text)[close] = "first"
        /\ close \in Nat /\ Len(text) \in Nat
    BY <1>1, LenProperties DEF CopyInv, Shape
  <2>2. at + 2 <= close
    BY <1>1, <2>1, AtBackslash
  <2> QED
    BY <2>1, <2>2
<1> QED
  BY <1>3, <1>4, <1>5, <1>6

(* The kinds apart: what is behind the backslash tells them.               *)
LEMMA KindsApart ==
  ASSUME NEW k, text[StartOf(k)] = Backslash
  PROVE  /\ ShortAt(k) => text[StartOf(k) + 1] # LetterU
         /\ NumberAt(k) => text[StartOf(k) + 1] \notin DOMAIN Escaped /\ text[StartOf(k) + 2] >= Hex
         /\ BadAt(k) => /\ text[StartOf(k) + 1] \notin DOMAIN Escaped
                        /\ text[StartOf(k) + 1] = LetterU => ~(text[StartOf(k) + 2] >= Hex)
<1>1. LetterU \notin DOMAIN Escaped
  BY DEF LetterU, Escaped, Quote, Backslash
<1>2. Backslash \notin 1..31
  BY DEF Backslash
<1>3. ShortAt(k) => text[StartOf(k) + 1] # LetterU
  BY <1>1, Zenon DEF ShortAt
<1>4. ASSUME NumberAt(k)
      PROVE  text[StartOf(k) + 1] \notin DOMAIN Escaped /\ text[StartOf(k) + 2] >= Hex
  <2>1. /\ text[StartOf(k) + 1] = LetterU /\ text[StartOf(k) + 2] = Hex + Means(k + 1)
        /\ Means(k + 1) \in 0..(Hex - 1)
    BY <1>4, Zenon DEF NumberAt
  <2> DEFINE m == Means(k + 1)
             v == text[StartOf(k) + 2]
  <2>2. m \in 0..(Hex - 1) /\ v = Hex + m
    BY <2>1
  <2> HIDE DEF m, v
  <2>3. v >= Hex
    BY <2>2 DEF Hex
  <2> QED
    BY <1>1, <2>1, <2>3 DEF v
<1>5. ASSUME BadAt(k)
      PROVE  /\ text[StartOf(k) + 1] \notin DOMAIN Escaped
             /\ text[StartOf(k) + 1] = LetterU => ~(text[StartOf(k) + 2] >= Hex)
  <2>1. \/ /\ text[StartOf(k) + 1] \in 1..255 \ {LetterU}
           /\ text[StartOf(k) + 1] \notin DOMAIN Escaped
        \/ text[StartOf(k) + 1] = LetterU /\ text[StartOf(k) + 2] \in 1..255
    BY <1>2, <1>5, Zenon DEF BadAt
  <2>2. \A x \in 1..255 : ~(x >= Hex)
    BY DEF Hex
  <2> QED
    BY <1>1, <2>1, <2>2, Zenon
<1> QED
  BY <1>3, <1>4, <1>5

(* An escape that becomes one byte is a short one. *)
LEMMA EscapedMoves ==
  ASSUME Laid, Shape, CopyInv, CopyUnits, CopyEscaped
  PROVE  Copying(at', output')
<1> DEFINE p == Escaped[text[at + 1]]
<1>1. /\ AtEscape /\ text[at] = Backslash /\ text[at + 1] \in DOMAIN Escaped
      /\ output' = output \o <<p>> /\ at' = at + 2 /\ output \in Seq(Nat)
  BY DEF CopyEscaped, AtEscape, Copies, Shape
<1>2. PICK k \in 0..(Len(units) - 1) :
        /\ at = StartOf(k) /\ at + 2 <= Len(text)
        /\ Read(k) /\ WellFormed(output) /\ Decoded(output) = PointsTo(k)
        /\ ShortAt(k) \/ NumberAt(k) \/ BadAt(k)
  BY <1>1, AtEscapeUnit
<1>3. ShortAt(k)
  BY <1>1, <1>2, KindsApart
<1>4. p = Means(k + 1) /\ p \in 0..127 /\ StartOf(k + 1) = StartOf(k) + 2
  BY <1>2, <1>3 DEF ShortAt
<1>5. k \in Nat
  OBVIOUS
<1>6. Means(k + 1) \in Nat /\ ~Lead(Means(k + 1)) /\ ~Trail(Means(k + 1))
  BY <1>3, <1>5, MeansAlone
<1> HIDE DEF p
<1> DEFINE b == <<p>>
<1>7. b \in Seq(Nat) /\ WellFormed(b) /\ Decoded(b) = <<Means(k + 1)>>
  BY <1>4, ByteDecodes
<1>8. output' = output \o b /\ at' = StartOf(k + 1)
  BY <1>1, <1>2, <1>4
<1> HIDE DEF b
<1>9. Copying(StartOf(k + 1), output \o b)
  BY <1>1, <1>2, <1>6, <1>7, OneMore
<1> QED
  BY <1>8, <1>9

(* At an escape with digits it is at a unit that is the number.            *)
LEMMA AtNumber ==
  ASSUME Laid, Shape, CopyInv, CopyUnits, AtUtf16, IsHex(at + 2)
  PROVE  \E k \in 0..(Len(units) - 1) :
           /\ at = StartOf(k) /\ NumberAt(k) /\ HexAt(at + 2) = Means(k + 1)
           /\ Read(k) /\ WellFormed(output) /\ Decoded(output) = PointsTo(k)
<1>1. AtEscape /\ text[at] = Backslash /\ text[at + 1] = LetterU /\ text[at + 2] >= Hex
  BY DEF AtUtf16, AtEscape, IsHex
<1>2. PICK k \in 0..(Len(units) - 1) :
        /\ at = StartOf(k) /\ at + 2 <= Len(text)
        /\ Read(k) /\ WellFormed(output) /\ Decoded(output) = PointsTo(k)
        /\ ShortAt(k) \/ NumberAt(k) \/ BadAt(k)
  BY <1>1, AtEscapeUnit
<1>3. NumberAt(k)
  BY <1>1, <1>2, KindsApart
<1>4. HexAt(at + 2) = Means(k + 1)
  <2> DEFINE m == Means(k + 1)
  <2>1. text[at + 2] = Hex + m /\ m \in 0..(Hex - 1)
    BY <1>2, <1>3 DEF NumberAt
  <2> HIDE DEF m
  <2>2. (Hex + m) - Hex = m
    BY <2>1, HexBack, Zenon
  <2> QED
    BY <2>1, <2>2 DEF HexAt, m
<1> QED
  BY <1>2, <1>3, <1>4

(* A number that is no half of a pair is written as its bytes. *)
LEMMA Utf16Moves ==
  ASSUME Laid, Shape, CopyInv, CopyUnits, CopyUtf16
  PROVE  Copying(at', output')
<1> DEFINE p == HexAt(at + 2)
<1>1. /\ AtUtf16 /\ IsHex(at + 2) /\ ~Lead(p) /\ ~Trail(p)
      /\ output' = output \o Bytes(p) /\ at' = at + 3 /\ output \in Seq(Nat)
  BY DEF CopyUtf16, Copies, Shape
<1>2. PICK k \in 0..(Len(units) - 1) :
        /\ at = StartOf(k) /\ NumberAt(k) /\ p = Means(k + 1)
        /\ Read(k) /\ WellFormed(output) /\ Decoded(output) = PointsTo(k)
  BY <1>1, AtNumber
<1> HIDE DEF p
<1>3. p \in 0..(Hex - 1) /\ StartOf(k + 1) = StartOf(k) + 3
  BY <1>2 DEF NumberAt
<1>4. p \in Nat /\ p <= LastPoint
  BY <1>3, HexPoint, Zenon
<1> DEFINE b == Bytes(p)
<1>5. b \in Seq(Nat) /\ WellFormed(b) /\ Decoded(b) = <<p>>
  BY <1>4, BytesDecode
<1>6. output' = output \o b /\ at' = StartOf(k + 1)
  BY <1>1, <1>2, <1>3
<1> HIDE DEF b
<1>7. Copying(StartOf(k + 1), output \o b)
  BY <1>1, <1>2, <1>4, <1>5, OneMore
<1> QED
  BY <1>6, <1>7

(* Two numbers that are a pair are written as the bytes of one point. *)
LEMMA PairMoves ==
  ASSUME Laid, Shape, CopyInv, CopyUnits, CopyPair
  PROVE  Copying(at', output')
<1> DEFINE lead == HexAt(at + 2)
           trail == HexAt(at + 5)
           p == PointOfPair(lead, trail)
<1>1. /\ AtUtf16 /\ IsHex(at + 2) /\ Lead(lead)
      /\ text[at + 3] = Backslash /\ text[at + 4] = LetterU /\ text[at + 5] >= Hex /\ Trail(trail)
      /\ output' = output \o Bytes(p) /\ at' = at + 6 /\ output \in Seq(Nat)
  BY DEF CopyPair, TrailFollows, IsHex, Copies, Shape
<1>2. PICK k \in 0..(Len(units) - 1) :
        /\ at = StartOf(k) /\ NumberAt(k) /\ lead = Means(k + 1)
        /\ Read(k) /\ WellFormed(output) /\ Decoded(output) = PointsTo(k)
  BY <1>1, AtNumber
<1> DEFINE m == k + 1
           q == k + 2
<1>3. Len(units) \in Nat /\ k \in Nat /\ k + 1 <= Len(units) /\ at \in Nat /\ Len(text) \in Nat
  BY LenProperties DEF Laid, Shape
<1>4. m \in 1..Len(units) /\ m \in 0..Len(units) /\ m + 1 = q /\ StartOf(m) = at + 3
  BY <1>2, <1>3 DEF NumberAt
<1>5. text[StartOf(m)] = Backslash /\ text[StartOf(m) + 1] = LetterU /\ text[StartOf(m) + 2] >= Hex
  <2>1. (at + 3) + 1 = at + 4 /\ (at + 3) + 2 = at + 5
    BY <1>3
  <2> QED
    BY <1>1, <1>4, <2>1
<1>6. m # Len(units)
  <2>1. Ends(StartOf(Len(units)))
    BY DEF Laid
  <2>2. Backslash # Quote /\ Backslash # NUL /\ LetterU # Quote
    BY DEF Backslash, Quote, NUL, LetterU
  <2> QED
    BY <1>5, <2>1, <2>2, Zenon DEF Ends
<1>7. m \in 0..(Len(units) - 1) /\ k \in 0..(Len(units) - 2)
  BY <1>3, <1>4, <1>6
<1> HIDE DEF m, q
<1>8. NumberAt(m)
  <2>1. ~PlainAt(m)
    <3>1. ASSUME PlainAt(m) PROVE FALSE
      <4> DEFINE l == Len(Chars(m + 1))
      <4>1. l \in Nat /\ l >= 1 /\ \A j \in 0..(l - 1) : text[StartOf(m) + j] # Backslash
        BY <3>1 DEF PlainAt
      <4> HIDE DEF l
      <4>2. 0 \in 0..(l - 1) /\ StartOf(m) + 0 = StartOf(m)
        BY <1>3, <1>4, <4>1
      <4> QED
        BY <1>5, <4>1, <4>2
    <3> QED
      BY <3>1
  <2>2. ShortAt(m) \/ NumberAt(m) \/ BadAt(m)
    BY <1>7, <2>1, UnitRead
  <2> QED
    BY <1>5, <2>2, KindsApart
<1>9. trail = Means(q) /\ StartOf(q) = at'
  <2> DEFINE v == Means(m + 1)
  <2>1. text[StartOf(m) + 2] = Hex + v /\ v \in 0..(Hex - 1) /\ StartOf(m + 1) = StartOf(m) + 3
    BY <1>8 DEF NumberAt
  <2> HIDE DEF v
  <2>2. (Hex + v) - Hex = v
    BY <2>1, HexBack, Zenon
  <2>3. (at + 3) + 2 = at + 5 /\ (at + 3) + 3 = at + 6
    BY <1>3
  <2>4. text[at + 5] = Hex + v
    BY <1>4, <2>1, <2>3
  <2>5. trail = v
    BY <2>2, <2>4 DEF HexAt
  <2> QED
    BY <1>1, <1>4, <2>1, <2>3, <2>5 DEF v
<1> HIDE DEF lead, trail
<1>10. /\ p = Hex + 1024 * (lead - 55296) + (trail - 56320)
       /\ p \in Nat /\ p <= LastPoint
  BY <1>1, PairIsPoint DEF LastPoint
<1>11. Lead(Means(m)) /\ Trail(Means(q)) /\ ~Lead(Means(q)) /\ q - 1 = m
  <2>1. q - 1 = m
    BY <1>3 DEF m, q
  <2> QED
    BY <1>1, <1>2, <1>9, <2>1, Halves DEF m
<1>12. Points(q) = <<p>>
  <2>1. Points(q) = <<Hex + 1024 * (Means(q - 1) - 55296) + (Means(q) - 56320)>>
    BY <1>11, SMT DEF Points
  <2>2. Means(q - 1) = lead
    BY <1>2, <1>11 DEF m
  <2> QED
    BY <1>9, <1>10, <2>1, <2>2
<1> DEFINE b == Bytes(p)
<1> HIDE DEF p
<1>13. b \in Seq(Nat) /\ WellFormed(b) /\ Decoded(b) = Points(q)
  BY <1>10, <1>12, BytesDecode
<1>14. output' = output \o b
  BY <1>1 DEF p
<1> HIDE DEF b
<1>15. m = k + 1 /\ q = k + 2
  BY DEF m, q
<1>16. Copying(StartOf(q), output \o b)
  BY <1>1, <1>2, <1>7, <1>11, <1>13, <1>15, PairMore
<1> QED
  BY <1>9, <1>14, <1>16

-----------------------------------------------------------------------------
(* skip_quotes, in a good string, is at a unit, in a plain one or at the   *)
(* digits of a number.                                                     *)
SkipAt(k, j, a) ==
  /\ a = StartOf(k) + j
  /\ j # 0 => /\ k < Len(units)
              /\ (PlainAt(k) /\ j < Len(Chars(k + 1))) \/ (NumberAt(k) /\ j = 2)

Skipping(a) == \E k \in 0..Len(units), j \in Nat : SkipAt(k, j, a)

SkipUnits == step = "skip" /\ Quoted /\ Good => Skipping(at)

MeansInv == Laid /\ StringInv /\ SkipUnits /\ CopyUnits /\ RefusesTheBad

(* What it can find there. *)
LEMMA SkipFinds ==
  ASSUME Laid, Quoted, Good, NEW k \in 0..Len(units), NEW j \in Nat, NEW a, SkipAt(k, j, a)
  PROVE  \/ text[a] = Quote
         \/ k < Len(units) /\ PlainAt(k) /\ j < Len(Chars(k + 1)) /\ text[a] \in 32..255 \ {Quote, Backslash}
         \/ k < Len(units) /\ a = StartOf(k) /\ ShortAt(k)
         \/ k < Len(units) /\ a = StartOf(k) /\ NumberAt(k)
         \/ k < Len(units) /\ a = StartOf(k) + 2 /\ NumberAt(k) /\ text[a] >= Hex
<1>1. Len(units) \in Nat /\ StartOf(k) \in Nat /\ a = StartOf(k) + j /\ DOMAIN units = 1..Len(units)
  BY LenProperties DEF Laid, SkipAt
<1>2. CASE j = 0
  <2>1. a = StartOf(k)
    BY <1>1, <1>2
  <2>2. CASE k = Len(units)
    BY <2>1, <2>2 DEF Laid
  <2>3. CASE k < Len(units)
    <3>1. k \in 0..(Len(units) - 1) /\ k + 1 \in DOMAIN units
      BY <1>1, <2>3
    <3>2. ~BadAt(k)
      BY <3>1 DEF Good, BadAt
    <3>3. PlainAt(k) \/ ShortAt(k) \/ NumberAt(k)
      BY <3>1, <3>2, UnitRead
    <3>4. ASSUME PlainAt(k)
          PROVE  j < Len(Chars(k + 1)) /\ text[a] \in 32..255 \ {Quote, Backslash}
      <4> DEFINE l == Len(Chars(k + 1))
                 P(x) == text[x] \in 32..255 \ {Quote, Backslash}
      <4>1. l \in Nat /\ l >= 1 /\ \A i \in 0..(l - 1) : P(StartOf(k) + i)
        BY <3>4 DEF PlainAt
      <4> HIDE DEF l, P
      <4>2. j \in 0..(l - 1) /\ j < l
        BY <1>2, <4>1
      <4>3. P(a)
        BY <1>1, <4>1, <4>2
      <4> QED
        BY <4>2, <4>3 DEF l, P
    <3> QED
      BY <2>1, <2>3, <3>3, <3>4, Zenon
  <2> QED
    BY <1>1, <2>2, <2>3, UpTo, Zenon
<1>3. CASE j # 0
  <2>1. k < Len(units) /\ ((PlainAt(k) /\ j < Len(Chars(k + 1))) \/ (NumberAt(k) /\ j = 2))
    BY <1>3, Zenon DEF SkipAt
  <2>2. ASSUME PlainAt(k), j < Len(Chars(k + 1)) PROVE text[a] \in 32..255 \ {Quote, Backslash}
    <3> DEFINE l == Len(Chars(k + 1))
               P(x) == text[x] \in 32..255 \ {Quote, Backslash}
    <3>1. l \in Nat /\ \A i \in 0..(l - 1) : P(StartOf(k) + i)
      BY <2>2 DEF PlainAt
    <3>2. j < l
      BY <2>2
    <3> HIDE DEF l, P
    <3>3. j \in 0..(l - 1)
      BY <3>1, <3>2
    <3>4. P(a)
      BY <1>1, <3>1, <3>3
    <3> QED
      BY <3>4 DEF P
  <2>3. ASSUME NumberAt(k), j = 2 PROVE a = StartOf(k) + 2 /\ text[a] >= Hex
    <3>1. a = StartOf(k) + 2
      BY <1>1, <2>3
    <3>2. text[StartOf(k)] = Backslash
      BY <2>3, Zenon DEF NumberAt
    <3> QED
      BY <2>3, <3>1, <3>2, KindsApart
  <2> QED
    BY <2>1, <2>2, <2>3, Zenon
<1> QED
  BY <1>2, <1>3

(* skip_quotes goes on by a character or by an escape. *)
LEMMA SkipMoves ==
  ASSUME Laid, Quoted, Good, SkipUnits, Skip \/ SkipEscaped
  PROVE  Skipping(at')
<1>1. /\ step = "skip"
      /\ \/ text[at] \notin {Quote, Backslash, NUL} /\ at' = at + 1
         \/ text[at] = Backslash /\ at' = at + 2
  BY DEF Skip, SkipEscaped
<1>2. PICK k \in 0..Len(units), j \in Nat : SkipAt(k, j, at)
  BY <1>1 DEF SkipUnits, Skipping
<1>3. Len(units) \in Nat /\ StartOf(k) \in Nat /\ at = StartOf(k) + j
  BY <1>2, LenProperties DEF Laid, SkipAt
<1>4. text[at] # Quote
  BY <1>1 DEF Quote, Backslash
<1>5. CASE /\ k < Len(units) /\ PlainAt(k) /\ j < Len(Chars(k + 1))
           /\ text[at] \in 32..255 \ {Quote, Backslash}
  <2> DEFINE l == Len(Chars(k + 1))
  <2>1. at' = at + 1
    BY <1>1, <1>5
  <2>2. l \in Nat /\ StartOf(k + 1) = StartOf(k) + l /\ j < l
    BY <1>5 DEF PlainAt
  <2>3. CASE j + 1 < l
    <3>1. at' = StartOf(k) + (j + 1) /\ j + 1 \in Nat
      BY <1>3, <2>1
    <3>2. SkipAt(k, j + 1, at')
      BY <1>5, <2>3, <3>1, Zenon DEF SkipAt
    <3> QED
      BY <3>1, <3>2, Zenon DEF Skipping
  <2>4. CASE j + 1 = l
    <3> HIDE DEF l
    <3>1. at' = StartOf(k + 1) + 0 /\ k + 1 \in 0..Len(units) /\ 0 \in Nat
      BY <1>3, <1>5, <2>1, <2>2, <2>4
    <3>2. SkipAt(k + 1, 0, at')
      BY <3>1, Zenon DEF SkipAt
    <3> QED
      BY <3>1, <3>2, Zenon DEF Skipping
  <2> HIDE DEF l
  <2>5. j + 1 < l \/ j + 1 = l
    BY <2>2
  <2> QED
    BY <2>3, <2>4, <2>5
<1>6. CASE k < Len(units) /\ at = StartOf(k) /\ ShortAt(k)
  <2>1. StartOf(k + 1) = StartOf(k) + 2 /\ text[at] = Backslash
    BY <1>6, Zenon DEF ShortAt
  <2>2. at' = at + 2
    BY <1>1, <2>1
  <2>3. at' = StartOf(k + 1) + 0 /\ k + 1 \in 0..Len(units) /\ 0 \in Nat
    BY <1>3, <1>6, <2>1, <2>2
  <2>4. SkipAt(k + 1, 0, at')
    BY <2>3, Zenon DEF SkipAt
  <2> QED
    BY <2>3, <2>4, Zenon DEF Skipping
<1>7. CASE k < Len(units) /\ at = StartOf(k) /\ NumberAt(k)
  <2>1. text[at] = Backslash
    BY <1>7, Zenon DEF NumberAt
  <2>2. at' = StartOf(k) + 2
    BY <1>1, <1>7, <2>1
  <2>3. SkipAt(k, 2, at')
    BY <1>7, <2>2, Zenon DEF SkipAt
  <2>4. 2 \in Nat
    OBVIOUS
  <2> QED
    BY <2>3, <2>4, Zenon DEF Skipping
<1>8. CASE k < Len(units) /\ at = StartOf(k) + 2 /\ NumberAt(k) /\ text[at] >= Hex
  <2>1. text[at] # Backslash
    BY <1>8 DEF Backslash, Hex
  <2>2. at' = at + 1
    BY <1>1, <2>1
  <2>3. StartOf(k + 1) = StartOf(k) + 3
    BY <1>8, Zenon DEF NumberAt
  <2>4. at' = StartOf(k + 1) + 0 /\ k + 1 \in 0..Len(units) /\ 0 \in Nat
    BY <1>3, <1>8, <2>2, <2>3
  <2>5. SkipAt(k + 1, 0, at')
    BY <2>4, Zenon DEF SkipAt
  <2> QED
    BY <2>4, <2>5, Zenon DEF Skipping
<1> QED
  BY <1>2, <1>4, <1>5, <1>6, <1>7, <1>8, SkipFinds

-----------------------------------------------------------------------------
(* What fails, fails for a reason: one lemma for each way out.  A quote is *)
(* missing, or a unit is bad.                                              *)
LEMMA NotClosedForReason ==
  ASSUME Laid, SkipUnits, NotClosed
  PROVE  ~Quoted \/ ~Good
<1> SUFFICES ASSUME Quoted, Good PROVE FALSE
  OBVIOUS
<1>1. step = "skip" /\ (text[at] = NUL \/ (text[at] = Backslash /\ text[at + 1] = NUL))
  BY DEF NotClosed
<1>2. PICK k \in 0..Len(units), j \in Nat : SkipAt(k, j, at)
  BY <1>1 DEF SkipUnits, Skipping
<1>3. text[at] # Quote /\ ~(text[at] >= Hex) /\ text[at] \notin 32..255 \ {Quote, Backslash}
  <2>1. /\ NUL # Quote /\ ~(NUL >= Hex) /\ NUL \notin 32..255 \ {Quote, Backslash}
        /\ Backslash # Quote /\ ~(Backslash >= Hex)
        /\ Backslash \notin 32..255 \ {Quote, Backslash}
    BY DEF Quote, Backslash, NUL, Hex
  <2> QED
    BY <1>1, <2>1
<1>4. NUL \notin DOMAIN Escaped /\ NUL # LetterU /\ NUL # Backslash
  BY DEF NUL, LetterU, Escaped, Quote, Backslash
<1>5. k < Len(units) /\ at = StartOf(k) /\ (ShortAt(k) \/ NumberAt(k))
  BY <1>2, <1>3, SkipFinds, Zenon
<1>6. ASSUME ShortAt(k) PROVE FALSE
  <2>1. text[at] = Backslash /\ text[at + 1] \in DOMAIN Escaped
    BY <1>5, <1>6, Zenon DEF ShortAt
  <2> QED
    BY <1>1, <1>4, <2>1, Zenon
<1>7. ASSUME NumberAt(k) PROVE FALSE
  <2>1. text[at] = Backslash /\ text[at + 1] = LetterU
    BY <1>5, <1>7, Zenon DEF NumberAt
  <2> QED
    BY <1>1, <1>4, <2>1, Zenon
<1> QED
  BY <1>5, <1>6, <1>7

(* A control character is the first of a bad unit. *)
LEMMA ControlForReason ==
  ASSUME Laid, Shape, CopyInv, CopyUnits, ControlCharacter
  PROVE  ~Good
<1> SUFFICES ASSUME Good PROVE FALSE
  OBVIOUS
<1>1. InString /\ text[at] < 32
  BY DEF ControlCharacter
<1>2. PICK k \in 0..(Len(units) - 1), j \in Nat, w \in Seq(Nat) :
        /\ CopyAt(k, j, w, at, output)
        /\ text[at] = Backslash => j = 0 /\ ~PlainAt(k)
  BY <1>1, AtUnit
<1>3. Len(units) \in Nat /\ StartOf(k) \in Nat /\ at = StartOf(k) + j /\ k + 1 \in DOMAIN units
  <2>1. Len(units) \in Nat /\ DOMAIN units = 1..Len(units)
    BY LenProperties DEF Laid
  <2> QED
    BY <1>2, <2>1 DEF Laid, CopyAt
<1>4. \A x \in 32..255 : ~(x < 32)
  OBVIOUS
<1>5. text[at] # Backslash
  BY <1>1 DEF Backslash
<1>6. ~BadAt(k)
  BY <1>3 DEF Good, BadAt
<1>7. PlainAt(k)
  <2>1. CASE j = 0
    <3>1. at = StartOf(k)
      BY <1>3, <2>1
    <3>2. ~ShortAt(k) /\ ~NumberAt(k)
      BY <1>5, <3>1, Zenon DEF ShortAt, NumberAt
    <3> QED
      BY <1>6, <3>2, UnitRead
  <2>2. CASE j # 0
    BY <1>2, <2>2, Zenon DEF CopyAt
  <2> QED
    BY <2>1, <2>2
<1> DEFINE l == Len(Chars(k + 1))
<1>8. l \in Nat /\ l >= 1 /\ \A i \in 0..(l - 1) : text[StartOf(k) + i] \in 32..255
  BY <1>7 DEF PlainAt
<1>9. j # 0 => j < l
  BY <1>2, Zenon DEF CopyAt
<1> HIDE DEF l
<1>10. j \in 0..(l - 1)
  BY <1>8, <1>9
<1> QED
  BY <1>1, <1>3, <1>4, <1>8, <1>10

(* An escape that is not known is a bad unit. *)
LEMMA BadEscapeForReason ==
  ASSUME Laid, Shape, CopyInv, CopyUnits, BadEscape
  PROVE  ~Good
<1> SUFFICES ASSUME Good PROVE FALSE
  OBVIOUS
<1>1. AtEscape /\ text[at + 1] \notin DOMAIN Escaped /\ text[at + 1] # LetterU
  BY DEF BadEscape
<1>2. PICK k \in 0..(Len(units) - 1) : at = StartOf(k) /\ (ShortAt(k) \/ NumberAt(k) \/ BadAt(k))
  BY <1>1, AtEscapeUnit
<1>3. k + 1 \in DOMAIN units
  BY LenProperties DEF Laid
<1>4. ~BadAt(k)
  BY <1>3 DEF Good, BadAt
<1> QED
  BY <1>1, <1>2, <1>4, Zenon DEF ShortAt, NumberAt

(* Digits that are missing are a bad unit, and a half that is left alone   *)
(* makes the text bad.                                                     *)
LEMMA BadUtf16ForReason ==
  ASSUME Laid, Shape, CopyInv, CopyUnits, BadUtf16
  PROVE  ~Good
<1> SUFFICES ASSUME Good PROVE FALSE
  OBVIOUS
<1>1. /\ AtUtf16 /\ AtEscape /\ text[at] = Backslash /\ text[at + 1] = LetterU
      /\ \/ ~IsHex(at + 2) \/ Trail(HexAt(at + 2))
         \/ Lead(HexAt(at + 2)) /\ ~TrailFollows
  BY DEF BadUtf16, AtUtf16, AtEscape
<1>2. PICK i \in 0..(Len(units) - 1) :
        /\ at = StartOf(i) /\ at + 2 <= Len(text) /\ (ShortAt(i) \/ NumberAt(i) \/ BadAt(i))
  BY <1>1, AtEscapeUnit
<1>3. Len(units) \in Nat /\ DOMAIN units = 1..Len(units) /\ Len(text) \in Nat /\ at \in Nat
  BY LenProperties DEF Laid, Shape
<1>4. ~BadAt(i)
  <2>1. i + 1 \in DOMAIN units
    BY <1>3
  <2> QED
    BY <2>1 DEF Good, BadAt
<1>5. IsHex(at + 2)
  BY <1>1, <1>2, <1>4, KindsApart DEF IsHex
<1>6. PICK k \in 0..(Len(units) - 1) :
        at = StartOf(k) /\ NumberAt(k) /\ HexAt(at + 2) = Means(k + 1) /\ Read(k)
  BY <1>1, <1>5, AtNumber
<1> DEFINE m == k + 1
<1>7. k \in Nat /\ m \in 1..Len(units) /\ m - 1 = k /\ m \notin 1..k
  BY <1>3
<1>8. /\ Lead(Means(m)) => m + 1 \in DOMAIN units /\ Trail(Means(m + 1))
      /\ Trail(Means(m)) => m - 1 \in DOMAIN units /\ Lead(Means(m - 1))
  BY <1>3, <1>7 DEF Good
<1>9. ~Trail(Means(m))
  <2>1. ASSUME Trail(Means(m)) PROVE FALSE
    <3>1. k \in DOMAIN units /\ Lead(Means(k))
      BY <1>7, <1>8, <2>1
    <3>2. k \in 1..k
      BY <1>3, <3>1
    <3>3. k + 1 \in 1..k
      BY <1>6, <3>1, <3>2, Zenon DEF Read
    <3> QED
      BY <1>7, <3>3
  <2> QED
    BY <2>1
<1>10. Lead(Means(m)) /\ ~TrailFollows
  BY <1>1, <1>5, <1>6, <1>9
<1>11. StartOf(m) = at + 3 /\ m + 1 \in 1..Len(units) /\ m \in 0..(Len(units) - 1) /\ m \in Nat
  <2>1. StartOf(m) = at + 3
    BY <1>6, Zenon DEF NumberAt
  <2>2. m + 1 \in 1..Len(units)
    BY <1>3, <1>8, <1>10
  <2> QED
    BY <1>3, <1>7, <2>1, <2>2
<1>12. Trail(Means(m + 1))
  BY <1>8, <1>10
<1> HIDE DEF m
<1>13. NumberAt(m)
  <2>1. ~PlainAt(m) /\ ~ShortAt(m) /\ ~BadAt(m)
    BY <1>11, <1>12, MeansAlone
  <2> QED
    BY <1>11, <2>1, UnitRead
<1> DEFINE v == Means(m + 1)
<1>14. /\ text[at + 3] = Backslash /\ text[(at + 3) + 1] = LetterU /\ text[(at + 3) + 2] = Hex + v
       /\ StartOf(m + 1) = (at + 3) + 3 /\ v \in 0..(Hex - 1)
  BY <1>11, <1>13, Zenon DEF NumberAt
<1>15. m + 1 \in 0..Len(units)
  BY <1>3, <1>11
<1>16. StartOf(m + 1) <= Len(text)
  BY <1>3, <1>15 DEF Laid
<1> HIDE DEF v
<1>17. /\ (at + 3) + 1 = at + 4 /\ (at + 3) + 2 = at + 5 /\ at + 5 <= Len(text)
       /\ Hex + v >= Hex /\ (Hex + v) - Hex = v
  <2>1. (at + 3) + 3 <= Len(text)
    BY <1>14, <1>16
  <2>2. (at + 3) + 1 = at + 4 /\ (at + 3) + 2 = at + 5 /\ at + 5 <= Len(text)
    BY <1>3, <2>1
  <2>3. v \in 0..(Hex - 1)
    BY <1>14
  <2>4. Hex + v >= Hex /\ (Hex + v) - Hex = v
    BY <2>3, HexBack
  <2> QED
    BY <2>2, <2>4
<1>18. IsHex(at + 5) /\ HexAt(at + 5) = v
  BY <1>14, <1>17 DEF IsHex, HexAt
<1>19. TrailFollows
  BY <1>12, <1>14, <1>17, <1>18 DEF TrailFollows, v
<1> QED
  BY <1>10, <1>19

-----------------------------------------------------------------------------
(* Every step keeps the units read and what was written for them. *)
LEMMA NextMeans == MeansInv /\ [Next]_vars => MeansInv'
<1> SUFFICES ASSUME MeansInv, [Next]_vars PROVE MeansInv'
  OBVIOUS
<1>1. Laid /\ StringInv /\ Shape /\ SkipInv /\ CopyInv /\ SkipUnits /\ CopyUnits /\ RefusesTheBad
  BY DEF MeansInv, StringInv
<1>2. Laid' /\ StringInv'
  BY <1>1, NextLaid, NextString
<1>3. units' = units /\ text' = text
  BY DEF Next, vars, OpeningQuote, NoQuote, Skip, SkipEscaped, NotClosed, ClosingQuote,
     CopyPlain, ControlCharacter, CopyEscaped, BadEscape, CopyUtf16, CopyPair, BadUtf16,
     Copied, Copies, Fails
<1>4. Quoted' = Quoted /\ Good' = Good /\ Len(units)' = Len(units)
  BY <1>3 DEF Quoted, Inside, Good, Means
<1>5. /\ \A k : StartOf(k)' = StartOf(k) /\ Chars(k)' = Chars(k)
      /\ \A k : PointsTo(k)' = PointsTo(k)
      /\ \A k : Read(k)' = Read(k)
  BY <1>3 DEF StartOf, AllChars, Chars, PointsTo, AllPoints, Points, Means, Read
<1>6. \A k : PlainAt(k)' = PlainAt(k) /\ NumberAt(k)' = NumberAt(k)
  <2> SUFFICES ASSUME NEW k PROVE PlainAt(k)' = PlainAt(k) /\ NumberAt(k)' = NumberAt(k)
    OBVIOUS
  <2>1. Means(k + 1)' = Means(k + 1)
    BY <1>3 DEF Means
  <2>2. StartOf(k)' = StartOf(k) /\ StartOf(k + 1)' = StartOf(k + 1) /\ Chars(k + 1)' = Chars(k + 1)
    BY <1>5
  <2>3. NumberAt(k)' = NumberAt(k)
    BY <1>3, <2>1, <2>2, Zenon DEF NumberAt
  <2>4. PlainAt(k)' = PlainAt(k)
    BY <1>3, <2>2, Zenon DEF PlainAt
  <2> QED
    BY <2>3, <2>4
<1>7. ASSUME Copying(at', output') PROVE Copying(at, output)'
  BY <1>3, <1>5, <1>6, <1>7, Zenon DEF Copying, CopyAt
<1>8. ASSUME Skipping(at') PROVE Skipping(at)'
  BY <1>3, <1>5, <1>6, <1>8, Zenon DEF Skipping, SkipAt
<1>9. 0 \in 0..Len(units) /\ 0 \in Nat /\ 2 = StartOf(0) + 0
  BY <1>1, LenProperties DEF Laid
<1>10. ASSUME Fails, ~Quoted \/ ~Good PROVE MeansInv'
  <2>1. step' = "failed"
    BY <1>10 DEF Fails
  <2> QED
    BY <1>2, <1>4, <1>10, <2>1 DEF MeansInv, SkipUnits, CopyUnits, RefusesTheBad
<1>11. CASE OpeningQuote
  <2>1. step = "open" /\ step' = "skip" /\ at' = at + 1
    BY <1>11 DEF OpeningQuote
  <2>2. at' = 2
    BY <1>1, <2>1 DEF SkipInv
  <2>3. Skipping(at')
    BY <1>9, <2>2 DEF Skipping, SkipAt
  <2> QED
    BY <1>2, <1>8, <2>1, <2>3 DEF MeansInv, SkipUnits, CopyUnits, RefusesTheBad
<1>12. CASE Skip \/ SkipEscaped
  <2>1. step = "skip" /\ step' = step
    BY <1>12 DEF Skip, SkipEscaped
  <2>2. Quoted /\ Good => Skipping(at')
    BY <1>1, <1>12, SkipMoves
  <2> QED
    BY <1>2, <1>4, <1>8, <2>1, <2>2 DEF MeansInv, SkipUnits, CopyUnits, RefusesTheBad
<1>13. CASE ClosingQuote
  <2>1. step = "skip" /\ step' = "copy" /\ at' = 2 /\ output' = output
    BY <1>13 DEF ClosingQuote
  <2>2. output = <<>>
    BY <1>1, <2>1 DEF SkipInv
  <2>3. PointsTo(0) = <<>>
    BY <1>1, <1>9, PointsByOne
  <2>4. Read(0)
    BY DEF Read
  <2>5. <<>> \in Seq(Nat)
    BY EmptySeq
  <2>6. CopyAt(0, 0, <<>>, at', output')
    BY <1>9, <2>1, <2>2, <2>3, <2>4, <2>5, DecodedNothing DEF CopyAt
  <2>7. Copying(at', output')
    BY <1>9, <2>5, <2>6 DEF Copying
  <2> QED
    BY <1>2, <1>7, <2>1, <2>7 DEF MeansInv, SkipUnits, CopyUnits, RefusesTheBad
<1>14. CASE CopyPlain \/ CopyEscaped \/ CopyUtf16 \/ CopyPair
  <2>1. step' = "copy"
    BY <1>14 DEF CopyPlain, CopyEscaped, CopyUtf16, CopyPair, AtUtf16, AtEscape, InString, Copies
  <2>2. Copying(at', output')
    BY <1>1, <1>14, PlainMoves, EscapedMoves, Utf16Moves, PairMoves
  <2> QED
    BY <1>2, <1>7, <2>1, <2>2 DEF MeansInv, SkipUnits, CopyUnits, RefusesTheBad
<1>15. CASE Copied
  <2>1. /\ step = "copy" /\ step' = "done" /\ at >= close
        /\ at' = at /\ close' = close /\ output' = output
    BY <1>15 DEF Copied
  <2>2. Copying(at', output')
    BY <1>1, <2>1 DEF CopyUnits
  <2> QED
    BY <1>2, <1>7, <2>1, <2>2 DEF MeansInv, SkipUnits, CopyUnits, RefusesTheBad
<1>16. CASE NoQuote
  <2>1. step = "open" /\ text[at] # Quote /\ Fails
    BY <1>16 DEF NoQuote
  <2>2. text[1] # Quote
    BY <1>1, <2>1 DEF SkipInv
  <2>3. ~Quoted
    BY <1>1, <2>2 DEF Laid
  <2> QED
    BY <1>10, <2>1, <2>3
<1>17. CASE NotClosed
  BY <1>1, <1>10, <1>17, NotClosedForReason DEF NotClosed
<1>18. CASE ControlCharacter
  BY <1>1, <1>10, <1>18, ControlForReason DEF ControlCharacter
<1>19. CASE BadEscape
  BY <1>1, <1>10, <1>19, BadEscapeForReason DEF BadEscape
<1>20. CASE BadUtf16
  BY <1>1, <1>10, <1>20, BadUtf16ForReason DEF BadUtf16
<1>21. CASE UNCHANGED vars
  <2>1. step' = step /\ at' = at /\ close' = close /\ output' = output
    BY <1>21 DEF vars
  <2>2. step \in {"copy", "done"} => Copying(at', output')
    BY <1>1, <2>1 DEF CopyUnits
  <2>3. step = "skip" /\ Quoted /\ Good => Skipping(at')
    BY <1>1, <2>1 DEF SkipUnits
  <2>4. SkipUnits'
    BY <1>4, <1>8, <2>1, <2>3 DEF SkipUnits
  <2>5. CopyUnits'
    BY <1>1, <1>7, <2>1, <2>2 DEF CopyUnits
  <2>6. RefusesTheBad'
    BY <1>1, <1>4, <2>1 DEF RefusesTheBad
  <2> QED
    BY <1>2, <2>4, <2>5, <2>6 DEF MeansInv
<1> QED
  BY <1>11, <1>12, <1>13, <1>14, <1>15, <1>16, <1>17, <1>18, <1>19, <1>20, <1>21 DEF Next

LEMMA MeansInvariant == Spec => []MeansInv
<1>1. Init => MeansInv
  <2>1. Init => step = "open"
    BY DEF Init
  <2> QED
    BY <2>1, InitLaid, InitString DEF MeansInv, SkipUnits, CopyUnits, RefusesTheBad
<1> QED
  BY <1>1, NextMeans, PTL DEF Spec

(* A string that is accepted is well-formed, and what is written for it is *)
(* UTF-8 for the code points that its units mean, pairs put together.      *)
THEOREM StringsMeanWhatTheySay == Spec => []MeansWhatItSays
<1>1. MeansInv => MeansWhatItSays
  <2> SUFFICES ASSUME MeansInv, step = "done"
               PROVE  Quoted /\ Good /\ WellFormed(output) /\ Decoded(output) = CodePoints
    BY DEF MeansWhatItSays
  <2>1. Laid /\ Shape /\ CopyInv /\ CopyUnits
    BY DEF MeansInv, StringInv
  <2>2. /\ text[1] = Quote /\ at = close /\ text[at] = Quote
    BY <2>1 DEF CopyInv, CopyUnits, Shape
  <2>3. PICK k \in 0..Len(units), j \in Nat, w \in Seq(Nat) : CopyAt(k, j, w, at, output)
    BY <2>1 DEF CopyUnits, Copying
  <2>4. /\ Len(units) \in Nat /\ DOMAIN units = 1..Len(units) /\ StartOf(k) \in Nat
        /\ at = StartOf(k) + j
    BY <2>1, <2>3, LenProperties DEF Laid, CopyAt
  <2>5. ~(k < Len(units))
    <3> SUFFICES ASSUME k < Len(units) PROVE FALSE
      OBVIOUS
    <3>1. k \in 0..(Len(units) - 1)
      BY <2>4
    <3>2. PlainAt(k)
      <4>1. CASE j # 0
        BY <2>3, <4>1, Zenon DEF CopyAt
      <4>2. CASE j = 0
        <5>1. at = StartOf(k)
          BY <2>4, <4>2
        <5>2. Quote # Backslash /\ Quote \notin 1..31
          BY DEF Quote, Backslash
        <5>3. ~ShortAt(k) /\ ~NumberAt(k) /\ ~BadAt(k)
          BY <2>2, <5>1, <5>2, Zenon DEF ShortAt, NumberAt, BadAt
        <5> QED
          BY <2>1, <3>1, <5>3, UnitRead
      <4> QED
        BY <4>1, <4>2
    <3> DEFINE l == Len(Chars(k + 1))
    <3>3. l \in Nat /\ l >= 1 /\ \A i \in 0..(l - 1) : text[StartOf(k) + i] # Quote
      BY <3>2 DEF PlainAt
    <3>4. j # 0 => j < l
      BY <2>3, Zenon DEF CopyAt
    <3> HIDE DEF l
    <3>5. j \in 0..(l - 1)
      BY <3>3, <3>4
    <3> QED
      BY <2>2, <2>4, <3>3, <3>5
  <2>6. k = Len(units)
    BY <2>4, <2>5, UpTo
  <2>7. j = 0 /\ at = StartOf(k)
    <3>1. j = 0
      BY <2>3, <2>5, Zenon DEF CopyAt
    <3> QED
      BY <2>4, <3>1
  <2>8. Read(Len(units)) /\ WellFormed(output) /\ Decoded(output) = PointsTo(Len(units))
    BY <2>3, <2>6, <2>7 DEF CopyAt
  <2>9. Quoted
    BY <2>1, <2>2, <2>6, <2>7 DEF Laid
  <2>10. Good
    BY <2>4, <2>8 DEF Good, Read
  <2>11. PointsTo(Len(units)) = CodePoints
    BY <2>1, <2>6, PointsByOne
  <2> QED
    BY <2>8, <2>9, <2>10, <2>11
<1> QED
  BY <1>1, MeansInvariant, PTL

(* A string is refused only for a missing quote, or for a unit that is bad *)
(* itself or half a pair.                                                  *)
THEOREM OnlyTheBadIsRefused == Spec => []RefusesTheBad
<1>1. MeansInv => RefusesTheBad
  BY DEF MeansInv
<1> QED
  BY <1>1, MeansInvariant, PTL
=============================================================================
