--------------------------- MODULE ConfigTextProofs ---------------------------
(***************************************************************************)
(* Proofs about ConfigText, for texts of any length over any characters.   *)
(***************************************************************************)
EXTENDS ConfigText, SequenceTheorems, WellFoundedInduction, TLAPS

(* The first of some places exists, and is one of them. *)
LEMMA FirstPlace ==
  ASSUME NEW S, S \subseteq Nat, S # {}
  PROVE  First(S) \in S /\ \A j \in S : First(S) <= j
<1>1. \E x \in S : \A y \in S : ~(<<y, x>> \in OpToRel(<, Nat))
  BY NatLessThanWellFounded, WFMin
<1>2. \E x \in S : \A y \in S : x <= y
  <2>1. PICK x \in S : \A y \in S : ~(<<y, x>> \in OpToRel(<, Nat))
    BY <1>1
  <2>2. \A y \in S : ~(y < x)
    <3>1. ASSUME NEW y \in S, y < x PROVE FALSE
      <4>1. <<y, x>> \in OpToRel(<, Nat)
        BY <3>1, Zenon DEF OpToRel
      <4>2. QED
        BY <2>1, <4>1
    <3>2. QED
      BY <3>1
  <2>3. QED
    BY <2>2
<1>3. QED
  BY <1>2 DEF First

(* Where a string of one or of two characters begins. *)
LEMMA OneBegins ==
  ASSUME NEW s, NEW i \in Nat, NEW a, Len(s) \in Nat
  PROVE  BeginsAt(s, i, <<a>>) <=> i <= Len(s) /\ s[i] = a
<1>1. Len(<<a>>) = 1 /\ <<a>>[1] = a
  OBVIOUS
<1>2. \A k \in 1..1 : k = 1
  OBVIOUS
<1>3. QED
  BY <1>1, <1>2 DEF BeginsAt

LEMMA TwoBegin ==
  ASSUME NEW s, NEW i \in Nat, NEW a, NEW b, Len(s) \in Nat
  PROVE  BeginsAt(s, i, <<a, b>>) <=> i + 1 <= Len(s) /\ s[i] = a /\ s[i + 1] = b
<1>1. Len(<<a, b>>) = 2 /\ <<a, b>>[1] = a /\ <<a, b>>[2] = b
  OBVIOUS
<1>2. 1..2 = {1, 2}
  OBVIOUS
<1>3. i + 2 - 1 = i + 1 /\ i + 1 - 1 = i
  OBVIOUS
<1>4. QED
  BY <1>1, <1>2, <1>3 DEF BeginsAt

(* Blanking keeps the length and the characters elsewhere. *)
LEMMA BlankedText ==
  ASSUME NEW s \in Seq(Chars), NEW places
  PROVE  /\ Blanked(s, places) \in Seq(Chars)
         /\ Len(Blanked(s, places)) = Len(s) /\ Len(s) \in Nat
         /\ DOMAIN Blanked(s, places) = 1..Len(s) /\ DOMAIN s = 1..Len(s)
         /\ \A i \in 1..Len(s) :
              Blanked(s, places)[i] = IF i \in places THEN Space ELSE s[i]
<1> DEFINE b == Blanked(s, places)
<1>1. DOMAIN s = 1..Len(s) /\ Len(s) \in Nat
  BY LenProperties
<1>2. DOMAIN b = 1..Len(s)
      /\ \A i \in 1..Len(s) : b[i] = IF i \in places THEN Space ELSE s[i]
  BY <1>1 DEF Blanked
<1>3. \A i \in 1..Len(s) : s[i] \in Chars
  BY ElementOfSeq
<1>4. b \in [1..Len(s) -> Chars]
  BY <1>1, <1>3, TextAssumption DEF Blanked
<1>5. b \in Seq(Chars) /\ Len(b) = Len(s)
  BY <1>1, <1>4, SeqDef, LenProperties
<1>6. QED
  BY <1>1, <1>2, <1>5

(* Two blanked texts are the same when they agree in every place. *)
LEMMA SameBlanked ==
  ASSUME NEW s \in Seq(Chars), NEW g \in Seq(Chars), Len(s) = Len(g), NEW P, NEW Q,
         \A i \in 1..Len(s) :
           (IF i \in P THEN Space ELSE s[i]) = (IF i \in Q THEN Space ELSE g[i])
  PROVE  Blanked(s, P) = Blanked(g, Q)
<1>1. DOMAIN s = 1..Len(s) /\ DOMAIN g = 1..Len(s)
  BY LenProperties
<1>2. Blanked(s, P) = [i \in 1..Len(s) |-> IF i \in P THEN Space ELSE s[i]]
  BY <1>1 DEF Blanked
<1>3. Blanked(g, Q) = [i \in 1..Len(s) |-> IF i \in Q THEN Space ELSE g[i]]
  BY <1>1 DEF Blanked
<1>4. QED
  BY <1>2, <1>3

(* Blanking puts no two characters together. *)
LEMMA NothingJoined ==
  ASSUME NEW s \in Seq(Chars), NEW places, NEW i \in 1..Len(s), NEW a, NEW b,
         a # Space, b # Space, BeginsAt(Blanked(s, places), i, <<a, b>>)
  PROVE  BeginsAt(s, i, <<a, b>>) /\ i \notin places
<1>1. /\ Len(Blanked(s, places)) = Len(s) /\ Len(s) \in Nat
      /\ \A k \in 1..Len(s) : Blanked(s, places)[k] = IF k \in places THEN Space ELSE s[k]
  BY BlankedText
<1>2. /\ i + 1 <= Len(s) /\ Blanked(s, places)[i] = a /\ Blanked(s, places)[i + 1] = b
  BY <1>1, TwoBegin
<1>3. i \notin places /\ s[i] = a
  BY <1>1, <1>2
<1>4. s[i + 1] = b
  <2>1. i + 1 \in 1..Len(s)
    BY <1>1, <1>2
  <2>2. QED
    BY <1>1, <1>2, <2>1
<1>5. QED
  BY <1>1, <1>2, <1>3, <1>4, TwoBegin

(* What the searches find. *)
LEMMA FirstOfPlaces ==
  ASSUME TypeOK, NEW p, NEW from \in Nat, Places(p, from) # {}
  PROVE  /\ First(Places(p, from)) \in from..Len(text)
         /\ BeginsAt(text, First(Places(p, from)), p)
         /\ \A i \in from..(First(Places(p, from)) - 1) : ~BeginsAt(text, i, p)
<1>1. Len(text) \in Nat
  BY LenProperties DEF TypeOK
<1>2. Places(p, from) \subseteq Nat
  BY <1>1 DEF Places
<1>3. /\ First(Places(p, from)) \in Places(p, from)
      /\ \A j \in Places(p, from) : First(Places(p, from)) <= j
  BY <1>2, FirstPlace
<1>4. QED
  BY <1>1, <1>3 DEF Places

LEMMA FirstOrEnd ==
  ASSUME TypeOK, NEW S, S \subseteq 1..Len(text)
  PROVE  /\ First(S \cup {End}) \in S \cup {End}
         /\ First(S \cup {End}) \in 1..End
         /\ \A i \in S : First(S \cup {End}) <= i
<1>1. Len(text) \in Nat /\ End = Len(text) + 1
  BY LenProperties DEF TypeOK, End
<1>2. S \cup {End} \subseteq Nat /\ S \cup {End} # {}
  <2>1. \A i \in S : i \in Nat /\ 1 <= i /\ i <= Len(text)
    BY <1>1
  <2>2. End \in Nat
    BY <1>1
  <2>3. QED
    BY <2>1, <2>2
<1>3. /\ First(S \cup {End}) \in S \cup {End}
      /\ \A j \in S \cup {End} : First(S \cup {End}) <= j
  BY <1>2, FirstPlace
<1>4. First(S \cup {End}) \in 1..End
  <2>1. \A i \in S : i \in 1..(Len(text) + 1)
    BY <1>1
  <2>2. End \in 1..End
    BY <1>1
  <2>3. QED
    BY <1>1, <1>3, <2>1, <2>2
<1>5. QED
  BY <1>3, <1>4

-----------------------------------------------------------------------------
(* fillLineComment and fillTailComma have done their work up to at, and    *)
(* fillBlockComment has left no comment before it.                         *)
LineInv ==
  step = "line" =>
    /\ text = Blanked(given[1], {i \in LineComments(given[1]) : i < at})
    /\ at = 1 \/ given[1][at - 1] = EndLine
BlockInv ==
  step = "block" => \A i \in 1..(at - 1) : ~BeginsAt(text, i, BlockCommentBegin)
(* The reader is between two comments where fillBlockComment looks on. *)
BlockReadInv ==
  step = "block" =>
    /\ text = Blanked(given[2], {i \in BlockComments(given[2]) : i < at})
    /\ Reader(given[2])[at - 1] \in {"text", "closed"}
CommaInv ==
  step = "comma" => text = Blanked(given[3], {i \in TailCommas(given[3]) : i < at})
NoneBegins ==
  /\ step # "line" => \A i \in 1..Len(text) : ~BeginsAt(text, i, LineCommentBegin)
  /\ step \in {"comma", "done"} =>
       \A i \in 1..Len(text) : ~BeginsAt(text, i, BlockCommentBegin)

TextInv ==
  /\ LineInv /\ BlockInv /\ BlockReadInv /\ CommaInv /\ NoneBegins
  /\ LineCommentsBlank /\ BlockCommentsBlank /\ TailCommasBlank

(* The parts of the type invariant that the steps below use. *)
LEMMA Shapes ==
  ASSUME TypeOK
  PROVE  /\ text \in Seq(Chars) /\ Len(text) \in Nat /\ End = Len(text) + 1
         /\ at \in Nat /\ 1 <= at /\ at <= Len(text) + 1
         /\ given \in Seq(Seq(Chars)) /\ Len(given) \in Nat /\ DOMAIN given = 1..Len(given)
         /\ \A k \in 1..Len(given) : given[k] \in Seq(Chars) /\ Len(given[k]) = Len(text)
<1>1. Len(text) \in Nat /\ Len(given) \in Nat /\ DOMAIN given = 1..Len(given)
  BY LenProperties DEF TypeOK
<1>2. \A k \in 1..Len(given) : given[k] \in Seq(Chars)
  BY ElementOfSeq DEF TypeOK
<1>3. at \in 1..End /\ End = Len(text) + 1
  BY DEF TypeOK, End
<1>4. at \in Nat /\ 1 <= at /\ at <= Len(text) + 1
  BY <1>1, <1>3
<1>5. \A k \in DOMAIN given : Len(given[k]) = Len(text)
  BY DEF TypeOK
<1>6. text \in Seq(Chars) /\ given \in Seq(Seq(Chars))
  BY DEF TypeOK
<1>7. QED
  BY <1>1, <1>2, <1>3, <1>4, <1>5, <1>6

(* A filter hands a text of the same length on. *)
LEMMA HandedOn ==
  ASSUME TypeOK, NEW to, HandOn(to), text' \in Seq(Chars), Len(text') = Len(text)
  PROVE  /\ step' = to /\ at' = 1 /\ at' \in 1..End'
         /\ given' \in Seq(Seq(Chars)) /\ Len(given') = Len(given) + 1
         /\ \A k \in 1..Len(given) : given'[k] = given[k]
         /\ given'[Len(given) + 1] = text'
         /\ \A k \in DOMAIN given' : Len(given'[k]) = Len(text')
<1>1. Len(text) \in Nat /\ Len(given) \in Nat
      /\ \A k \in 1..Len(given) : Len(given[k]) = Len(text)
  BY Shapes
<1>2. given' = Append(given, text')
  BY DEF HandOn
<1>3. /\ given' \in Seq(Seq(Chars)) /\ Len(given') = Len(given) + 1
      /\ \A k \in 1..Len(given) : given'[k] = given[k]
      /\ given'[Len(given) + 1] = text'
  BY <1>2, AppendProperties DEF TypeOK
<1>4. DOMAIN given' = 1..(Len(given) + 1)
  BY <1>3, LenProperties
<1>5. \A k \in DOMAIN given' : Len(given'[k]) = Len(text')
  BY <1>1, <1>3, <1>4
<1>6. QED
  BY <1>1, <1>3, <1>5 DEF HandOn, End

(* The places fillLineComment stops at. *)
LEMMA LineAhead ==
  ASSUME TypeOK, Places(LineCommentBegin, at) # {},
         NEW begin, begin = First(Places(LineCommentBegin, at)),
         NEW end, end = First(Places(<<EndLine>>, begin + 2) \cup {End})
  PROVE  /\ begin \in Nat /\ end \in Nat
         /\ at <= begin /\ begin + 1 <= Len(text)
         /\ begin + 2 <= end /\ end <= Len(text) + 1
         /\ text[begin] = "/" /\ text[begin + 1] = "/"
         /\ \A i \in at..(begin - 1) : ~BeginsAt(text, i, LineCommentBegin)
         /\ \A j \in (begin + 2)..(end - 1) : text[j] # EndLine
         /\ end # End => text[end] = EndLine
<1>1. Len(text) \in Nat /\ End = Len(text) + 1 /\ at \in Nat /\ 1 <= at
  BY Shapes
<1>2. /\ begin \in at..Len(text)
      /\ BeginsAt(text, begin, LineCommentBegin)
      /\ \A i \in at..(begin - 1) : ~BeginsAt(text, i, LineCommentBegin)
  BY <1>1, FirstOfPlaces
<1>3. begin \in Nat /\ at <= begin
  BY <1>1, <1>2
<1>4. begin + 1 <= Len(text) /\ text[begin] = "/" /\ text[begin + 1] = "/"
  BY <1>1, <1>2, <1>3, TwoBegin DEF LineCommentBegin
<1> DEFINE S == Places(<<EndLine>>, begin + 2)
<1>5. \A i \in (begin + 2)..Len(text) : i \in S <=> text[i] = EndLine
  <2>1. ASSUME NEW i \in (begin + 2)..Len(text)
        PROVE  i \in S <=> text[i] = EndLine
    <3>1. i \in Nat /\ i <= Len(text)
      BY <1>1, <1>3
    <3>2. BeginsAt(text, i, <<EndLine>>) <=> text[i] = EndLine
      BY <1>1, <3>1, OneBegins
    <3>3. QED
      BY <3>2 DEF Places
  <2>2. QED
    BY <2>1
<1>6. S \subseteq (begin + 2)..Len(text) /\ S \subseteq 1..Len(text)
  <2>1. S \subseteq (begin + 2)..Len(text)
    BY DEF Places
  <2>2. QED
    BY <1>1, <1>3, <2>1
<1>7. /\ end \in S \cup {End} /\ end \in 1..End
      /\ \A i \in S : end <= i
  BY <1>6, FirstOrEnd
<1>8. end \in Nat /\ begin + 2 <= end /\ end <= Len(text) + 1
  BY <1>1, <1>3, <1>4, <1>6, <1>7
<1>9. \A j \in (begin + 2)..(end - 1) : text[j] # EndLine
  <2>1. ASSUME NEW j \in (begin + 2)..(end - 1), text[j] = EndLine PROVE FALSE
    <3>1. j \in (begin + 2)..Len(text) /\ j < end /\ j \in Nat
      BY <1>1, <1>3, <1>8
    <3>2. j \in S
      BY <1>5, <2>1, <3>1
    <3>3. end <= j
      BY <1>7, <3>2
    <3>4. QED
      BY <1>8, <3>1, <3>3
  <2>2. QED
    BY <2>1
<1>10. end # End => text[end] = EndLine
  BY <1>5, <1>6, <1>7
<1>11. QED
  BY <1>2, <1>3, <1>4, <1>8, <1>9, <1>10

(* The places fillBlockComment stops at. *)
LEMMA BlockBegins ==
  ASSUME TypeOK, Places(BlockCommentBegin, at) # {},
         NEW begin, begin = First(Places(BlockCommentBegin, at))
  PROVE  /\ begin \in Nat /\ at <= begin /\ begin + 1 <= Len(text)
         /\ text[begin] = "/" /\ text[begin + 1] = "*"
         /\ \A i \in at..(begin - 1) : ~BeginsAt(text, i, BlockCommentBegin)
<1>1. Len(text) \in Nat /\ at \in Nat /\ 1 <= at
  BY Shapes
<1>2. /\ begin \in at..Len(text) /\ BeginsAt(text, begin, BlockCommentBegin)
      /\ \A i \in at..(begin - 1) : ~BeginsAt(text, i, BlockCommentBegin)
  BY <1>1, FirstOfPlaces
<1>3. begin \in Nat /\ at <= begin
  BY <1>1, <1>2
<1>4. begin + 1 <= Len(text) /\ text[begin] = "/" /\ text[begin + 1] = "*"
  BY <1>1, <1>2, <1>3, TwoBegin DEF BlockCommentBegin
<1>5. QED
  BY <1>2, <1>3, <1>4

LEMMA BlockAhead ==
  ASSUME TypeOK, Places(BlockCommentBegin, at) # {},
         NEW begin, begin = First(Places(BlockCommentBegin, at)), Ends(begin) # {},
         NEW last, last = First(Ends(begin))
  PROVE  /\ begin \in Nat /\ last \in Nat /\ at <= begin
         /\ begin + 2 <= last /\ last + 1 <= Len(text)
         /\ text[last] = "*" /\ text[last + 1] = "/"
         /\ \A i \in (begin + 2)..(last - 1) : ~BeginsAt(text, i, BlockCommentEnd)
<1>1. Len(text) \in Nat /\ at \in Nat /\ 1 <= at
  BY Shapes
<1>2. begin \in Nat /\ at <= begin
  BY BlockBegins
<1>3. /\ last \in (begin + 2)..Len(text) /\ BeginsAt(text, last, BlockCommentEnd)
      /\ \A i \in (begin + 2)..(last - 1) : ~BeginsAt(text, i, BlockCommentEnd)
  <2>1. begin + 2 \in Nat
    BY <1>2
  <2>2. QED
    BY <2>1, FirstOfPlaces DEF Ends
<1>4. last \in Nat /\ begin + 2 <= last
  BY <1>1, <1>2, <1>3
<1>5. last + 1 <= Len(text) /\ text[last] = "*" /\ text[last + 1] = "/"
  BY <1>1, <1>3, <1>4, TwoBegin DEF BlockCommentEnd
<1>6. QED
  BY <1>2, <1>3, <1>4, <1>5

(* The places fillTailComma stops at. *)
LEMMA CommaAhead ==
  ASSUME TypeOK, Places(<<Comma>>, at) # {},
         NEW comma, comma = First(Places(<<Comma>>, at))
  PROVE  /\ comma \in Nat /\ at <= comma /\ comma <= Len(text) /\ text[comma] = Comma
         /\ \A i \in at..(comma - 1) : text[i] # Comma
         /\ Behind(comma) \in Nat
         /\ comma < Behind(comma) /\ Behind(comma) <= Len(text) + 1
         /\ \A j \in (comma + 1)..(Behind(comma) - 1) : text[j] \in Spaces
         /\ Behind(comma) # End => text[Behind(comma)] \notin Spaces
<1>1. Len(text) \in Nat /\ End = Len(text) + 1 /\ at \in Nat /\ 1 <= at
  BY Shapes
<1>2. /\ comma \in at..Len(text) /\ BeginsAt(text, comma, <<Comma>>)
      /\ \A i \in at..(comma - 1) : ~BeginsAt(text, i, <<Comma>>)
  BY <1>1, FirstOfPlaces
<1>3. comma \in Nat /\ at <= comma /\ comma <= Len(text)
  BY <1>1, <1>2
<1>4. text[comma] = Comma
  BY <1>1, <1>2, <1>3, OneBegins
<1>5. \A i \in at..(comma - 1) : text[i] # Comma
  <2>1. ASSUME NEW i \in at..(comma - 1) PROVE text[i] # Comma
    <3>1. i \in Nat /\ i <= Len(text)
      BY <1>1, <1>3
    <3>2. QED
      BY <1>1, <1>2, <3>1, OneBegins
  <2>2. QED
    BY <2>1
<1> DEFINE S == {i \in (comma + 1)..Len(text) : text[i] \notin Spaces}
<1>6. S \subseteq (comma + 1)..Len(text) /\ S \subseteq 1..Len(text)
  BY <1>1, <1>3
<1>7. /\ Behind(comma) \in S \cup {End} /\ Behind(comma) \in 1..End
      /\ \A i \in S : Behind(comma) <= i
  BY <1>6, FirstOrEnd DEF Behind
<1>8. Behind(comma) \in Nat /\ comma < Behind(comma) /\ Behind(comma) <= Len(text) + 1
  BY <1>1, <1>3, <1>6, <1>7
<1>9. \A j \in (comma + 1)..(Behind(comma) - 1) : text[j] \in Spaces
  <2>1. ASSUME NEW j \in (comma + 1)..(Behind(comma) - 1), text[j] \notin Spaces PROVE FALSE
    <3>1. j \in (comma + 1)..Len(text) /\ j < Behind(comma) /\ j \in Nat
      BY <1>1, <1>3, <1>8
    <3>2. j \in S
      BY <2>1, <3>1
    <3>3. QED
      BY <1>7, <1>8, <3>1, <3>2
  <2>2. QED
    BY <2>1
<1>10. Behind(comma) # End => text[Behind(comma)] \notin Spaces
  BY <1>7
<1>11. QED
  BY <1>3, <1>4, <1>5, <1>8, <1>9, <1>10

-----------------------------------------------------------------------------
(* Induction over an interval, for a set of good places. *)
LEMMA PlaceByPlace ==
  ASSUME NEW S, NEW m \in Nat, NEW n \in Nat, m \in S,
         \A i \in Nat : m < i /\ i <= n /\ i - 1 \in S => i \in S
  PROVE  m..n \subseteq S
<1> DEFINE bad == {i \in m..n : i \notin S}
<1> SUFFICES ASSUME bad # {} PROVE FALSE
  OBVIOUS
<1>1. bad \subseteq Nat
  OBVIOUS
<1>2. /\ First(bad) \in bad
      /\ \A i \in bad : First(bad) <= i
  BY <1>1, FirstPlace
<1> DEFINE k == First(bad)
<1>3. k \in Nat /\ m < k /\ k <= n
  BY <1>2
<1>4. k - 1 \in S
  <2>1. k - 1 \in m..n /\ ~(k <= k - 1)
    BY <1>3
  <2> HIDE DEF k
  <2>2. QED
    BY <1>2, <2>1 DEF k
<1>5. QED
  BY <1>2, <1>3, <1>4

(* The reader's recursion is well-founded: there is one such reading.      *)
LEMMA ReaderReads ==
  ASSUME NEW s \in Seq(Chars)
  PROVE  /\ Reader(s)[0] = "text"
         /\ \A i \in 1..Len(s) : Reader(s)[i] = Reads(Reader(s)[i - 1], s[i])
<1> DEFINE Body(g, i) == IF i = 0 THEN "text" ELSE Reads(g[i - 1], s[i])
           Readable == {n \in Nat : \E g : g = [i \in 0..n |-> Body(g, i)]}
<1>1. Len(s) \in Nat
  BY LenProperties
<1>2. 0 \in Readable
  <2> DEFINE g == [i \in 0..0 |-> "text"]
  <2>1. g = [i \in 0..0 |-> Body(g, i)]
    OBVIOUS
  <2> QED
    BY <2>1
<1>3. ASSUME NEW n \in 1..Len(s), n - 1 \in Readable PROVE n \in Readable
  <2>1. PICK g : g = [i \in 0..(n - 1) |-> Body(g, i)]
    BY <1>3
  <2> DEFINE h == [i \in 0..n |-> IF i = n THEN Reads(g[n - 1], s[n]) ELSE g[i]]
  <2>2. ASSUME NEW i \in 0..n PROVE h[i] = Body(h, i)
    <3>1. CASE i = n
      BY <1>1, <3>1
    <3>2. CASE i # n
      <4>1. i \in 0..(n - 1) /\ h[i] = g[i] /\ g[i] = Body(g, i)
        BY <1>1, <2>1, <3>2
      <4>2. i # 0 => h[i - 1] = g[i - 1]
        BY <1>1, <3>2
      <4> QED
        BY <4>1, <4>2
    <3> QED
      BY <3>1, <3>2
  <2>3. h = [i \in 0..n |-> Body(h, i)]
    BY <2>2
  <2> HIDE DEF h, Body
  <2> QED
    BY <1>1, <2>3
<1>4. 0..Len(s) \subseteq Readable
  <2>1. \A i \in Nat : 0 < i /\ i <= Len(s) /\ i - 1 \in Readable => i \in Readable
    <3> HIDE DEF Readable
    <3> QED
      BY <1>1, <1>3
  <2> HIDE DEF Readable
  <2> QED
    BY <1>1, <1>2, <2>1, PlaceByPlace
<1>5. PICK g : g = [i \in 0..Len(s) |-> Body(g, i)]
  BY <1>1, <1>4
<1>6. Reader(s) = [i \in 0..Len(s) |-> Body(Reader(s), i)]
  BY <1>5 DEF Reader
<1> QED
  BY <1>1, <1>6

(* Outside of comments the reader stays outside, up to an opening.         *)
Outside == {"text", "closed", "slash"}
LEMMA StaysOutside ==
  ASSUME NEW s \in Seq(Chars), NEW from \in Nat, NEW upto \in Nat,
         1 <= from, from - 1 <= upto, upto <= Len(s),
         Reader(s)[from - 1] \in {"text", "closed"},
         \A i \in from..(upto - 1) : ~(s[i] = "/" /\ s[i + 1] = "*")
  PROVE  \A i \in (from - 1)..upto :
           /\ Reader(s)[i] \in Outside /\ (i >= from => Reader(s)[i] # "closed")
           /\ Reader(s)[i] = "slash" <=> i >= from /\ s[i] = "/"
<1> DEFINE R == Reader(s)
           good == {i \in Nat : R[i] \in Outside /\ (i >= from => R[i] # "closed")
                              /\ (R[i] = "slash" <=> i >= from /\ s[i] = "/")}
<1>1. Len(s) \in Nat
  BY LenProperties
<1>2. from - 1 \in good
  BY DEF Outside
<1>3. ASSUME NEW i \in from..upto, i - 1 \in good PROVE i \in good
  <2>1. R[i] = Reads(R[i - 1], s[i])
    BY <1>1, ReaderReads
  <2>2. R[i - 1] = "slash" => s[i] # "*"
    BY <1>3
  <2>3. R[i - 1] \in Outside
    BY <1>3
  <2>4. R[i] = IF s[i] = "/" THEN "slash" ELSE "text"
    <3> HIDE DEF R
    <3> QED
      BY <2>1, <2>2, <2>3 DEF Reads, Outside
  <2> QED
    BY <1>1, <2>4 DEF Outside
<1>4. (from - 1)..upto \subseteq good
  <2> HIDE DEF good
  <2>1. \A i \in Nat : from - 1 < i /\ i <= upto /\ i - 1 \in good => i \in good
    BY <1>3
  <2>2. from - 1 \in Nat
    OBVIOUS
  <2> QED
    BY <1>2, <2>1, <2>2, PlaceByPlace
<1> QED
  BY <1>4

(* Inside a comment it stays inside, up to the end.                        *)
Inside == {"opened", "inside", "star"}
LEMMA StaysInside ==
  ASSUME NEW s \in Seq(Chars), NEW from \in Nat, NEW upto \in Nat,
         1 <= from, from <= upto, upto <= Len(s),
         Reader(s)[from] = "opened",
         \A i \in (from + 1)..(upto - 1) : ~(s[i] = "*" /\ s[i + 1] = "/")
  PROVE  \A i \in from..upto :
           /\ Reader(s)[i] \in Inside
           /\ Reader(s)[i] = "star" <=> i > from /\ s[i] = "*"
<1> DEFINE R == Reader(s)
           good == {i \in Nat : R[i] \in Inside /\ (R[i] = "star" <=> i > from /\ s[i] = "*")}
<1>1. Len(s) \in Nat
  BY LenProperties
<1>2. from \in good
  BY DEF Inside
<1>3. ASSUME NEW i \in (from + 1)..upto, i - 1 \in good PROVE i \in good
  <2>1. R[i] = Reads(R[i - 1], s[i])
    BY <1>1, ReaderReads
  <2>2. R[i - 1] = "star" => s[i] # "/"
    BY <1>3
  <2>3. R[i - 1] \in Inside
    BY <1>3
  <2>4. R[i] = IF s[i] = "*" THEN "star" ELSE "inside"
    <3> HIDE DEF R
    <3> QED
      BY <2>1, <2>2, <2>3 DEF Reads, Inside
  <2> QED
    BY <1>1, <2>4 DEF Inside
<1>4. from..upto \subseteq good
  <2> HIDE DEF good
  <2>1. \A i \in Nat : from < i /\ i <= upto /\ i - 1 \in good => i \in good
    BY <1>3
  <2> QED
    BY <1>2, <2>1, PlaceByPlace
<1> QED
  BY <1>4

-----------------------------------------------------------------------------
(* The filters begin with a text of characters. *)
LEMMA InitType == Init => TypeOK
<1> SUFFICES ASSUME Init PROVE TypeOK
  OBVIOUS
<1>1. PICK n \in 0..MaxLength : text \in [1..n -> Chars]
  BY DEF Init
<1>2. text \in Seq(Chars) /\ Len(text) \in Nat
  BY <1>1, TextAssumption, SeqDef, LenProperties
<1>3. /\ given \in Seq(Seq(Chars)) /\ Len(given) = 1
      /\ \A k \in DOMAIN given : Len(given[k]) = Len(text)
  <2>1. given = <<text>>
    BY DEF Init
  <2>2. QED
    BY <1>2, <2>1
<1>4. step = "line" /\ at \in 1..End
  BY <1>2 DEF Init, End
<1>5. QED
  BY <1>2, <1>3, <1>4 DEF TypeOK

(* Every iteration keeps the types. *)
LEMMA NextType == TypeOK /\ [Next]_vars => TypeOK'
<1> SUFFICES ASSUME TypeOK, [Next]_vars PROVE TypeOK'
  OBVIOUS
<1>1. /\ text \in Seq(Chars) /\ Len(text) \in Nat /\ End = Len(text) + 1
      /\ at \in Nat /\ 1 <= at /\ at <= Len(text) + 1
      /\ given \in Seq(Seq(Chars)) /\ Len(given) \in Nat /\ DOMAIN given = 1..Len(given)
      /\ \A k \in 1..Len(given) : given[k] \in Seq(Chars) /\ Len(given[k]) = Len(text)
  BY Shapes
<1>2. /\ step = "line" => Len(given) = 1
      /\ step \in {"block", "failed"} => Len(given) = 2
      /\ step = "comma" => Len(given) = 3
      /\ step = "done" => Len(given) = 4
  BY DEF TypeOK
(* A filter that runs on, and one that hands on. *)
<1>3. ASSUME text' \in Seq(Chars), Len(text') = Len(text), at' \in 1..(Len(text) + 1),
             step' = step, given' = given
      PROVE  TypeOK'
  <2>1. End' = Len(text) + 1
    BY <1>3 DEF End
  <2>2. \A k \in DOMAIN given' : Len(given'[k]) = Len(text')
    BY <1>1, <1>3
  <2>3. QED
    BY <1>2, <1>3, <2>1, <2>2 DEF TypeOK
<1>4. ASSUME NEW to, HandOn(to), text' \in Seq(Chars), Len(text') = Len(text),
             \/ to = "block" /\ step = "line"
             \/ to = "comma" /\ step = "block"
             \/ to = "done" /\ step = "comma"
      PROVE  TypeOK'
  <2>1. /\ step' = to /\ at' \in 1..End'
        /\ given' \in Seq(Seq(Chars)) /\ Len(given') = Len(given) + 1
        /\ \A k \in DOMAIN given' : Len(given'[k]) = Len(text')
    BY <1>4, HandedOn
  <2>2. \/ step' = "block" /\ Len(given') = 2
        \/ step' = "comma" /\ Len(given') = 3
        \/ step' = "done" /\ Len(given') = 4
    <3>1. CASE to = "block" /\ step = "line"
      <4>1. Len(given) = 1
        BY <1>2, <3>1
      <4>2. step' = "block" /\ Len(given') = Len(given) + 1
        BY <2>1, <3>1
      <4>3. QED
        BY <4>1, <4>2
    <3>2. CASE to = "comma" /\ step = "block"
      <4>1. Len(given) = 2
        BY <1>2, <3>2
      <4>2. step' = "comma" /\ Len(given') = Len(given) + 1
        BY <2>1, <3>2
      <4>3. QED
        BY <4>1, <4>2
    <3>3. CASE to = "done" /\ step = "comma"
      <4>1. Len(given) = 3
        BY <1>2, <3>3
      <4>2. step' = "done" /\ Len(given') = Len(given) + 1
        BY <2>1, <3>3
      <4>3. QED
        BY <4>1, <4>2
    <3>4. QED
      BY <1>4, <3>1, <3>2, <3>3
  <2>3. QED
    BY <1>4, <2>1, <2>2 DEF TypeOK
<1>5. CASE LineComment
  <2> DEFINE begin == First(Places(LineCommentBegin, at))
             end == First(Places(<<EndLine>>, begin + 2) \cup {End})
  <2>1. step = "line" /\ Places(LineCommentBegin, at) # {}
    BY <1>5 DEF LineComment
  <2>2. /\ begin \in Nat /\ end \in Nat /\ at <= begin /\ begin + 1 <= Len(text)
        /\ begin + 2 <= end /\ end <= Len(text) + 1
    BY <2>1, LineAhead
  <2>3. /\ text' = Blanked(text, begin..(end - 1))
        /\ IF end = End THEN HandOn("block")
           ELSE step' = step /\ at' = end + 1 /\ given' = given
    BY <1>5 DEF LineComment
  <2>4. text' \in Seq(Chars) /\ Len(text') = Len(text)
    BY <1>1, <2>3, BlankedText
  <2>5. CASE end = End
    BY <1>4, <2>1, <2>3, <2>4, <2>5
  <2>6. CASE end # End
    <3>1. end + 1 \in 1..(Len(text) + 1)
      BY <1>1, <2>2, <2>6
    <3>2. QED
      BY <1>3, <2>3, <2>4, <2>6, <3>1
  <2>7. QED
    BY <2>5, <2>6
<1>6. CASE NoLineComment
  BY <1>1, <1>4, <1>6 DEF NoLineComment
<1>7. CASE BlockComment
  <2> DEFINE begin == First(Places(BlockCommentBegin, at))
             last == First(Ends(begin))
  <2>1. /\ Places(BlockCommentBegin, at) # {} /\ Ends(begin) # {}
        /\ text' = Blanked(text, begin..((last + 2) - 1)) /\ at' = last + 2
        /\ step' = step /\ given' = given
    <3>1. Places(BlockCommentBegin, at) # {} /\ step' = step /\ given' = given
      BY <1>7 DEF BlockComment
    <3>2. /\ Ends(begin) # {} /\ at' = last + 2
          /\ text' = Blanked(text, begin..((last + 2) - 1))
      BY <1>7, Zenon DEF BlockComment
    <3>3. QED
      BY <3>1, <3>2
  <2>2. last \in Nat /\ last + 1 <= Len(text)
    BY <2>1, BlockAhead
  <2>3. text' \in Seq(Chars) /\ Len(text') = Len(text)
    BY <1>1, <2>1, BlankedText
  <2>4. at' \in 1..(Len(text) + 1)
    BY <1>1, <2>1, <2>2
  <2>5. QED
    BY <1>3, <2>1, <2>3, <2>4
<1>8. CASE BlockCommentOpen
  <2>1. step = "block" /\ step' = "failed" /\ text' = text /\ at' = at /\ given' = given
    BY <1>8 DEF BlockCommentOpen
  <2>2. QED
    BY <2>1 DEF TypeOK, End
<1>9. CASE NoBlockComment
  BY <1>1, <1>4, <1>9 DEF NoBlockComment
<1>10. CASE TailComma
  <2> DEFINE comma == First(Places(<<Comma>>, at))
  <2>1. /\ Places(<<Comma>>, at) # {}
        /\ text' = IF Behind(comma) # End /\ text[Behind(comma)] \in EndJson
                   THEN Blanked(text, {comma}) ELSE text
        /\ at' = Behind(comma) /\ step' = step /\ given' = given
    BY <1>10 DEF TailComma
  <2>2. /\ comma \in Nat /\ at <= comma /\ Behind(comma) \in Nat
        /\ comma < Behind(comma) /\ Behind(comma) <= Len(text) + 1
    BY <2>1, CommaAhead
  <2>3. text' \in Seq(Chars) /\ Len(text') = Len(text)
    BY <1>1, <2>1, BlankedText
  <2>4. at' \in 1..(Len(text) + 1)
    BY <1>1, <2>1, <2>2
  <2>5. QED
    BY <1>3, <2>1, <2>3, <2>4
<1>11. CASE NoComma
  BY <1>1, <1>4, <1>11 DEF NoComma
<1>12. CASE UNCHANGED vars
  BY <1>12 DEF vars, TypeOK, End
<1>13. QED
  BY <1>5, <1>6, <1>7, <1>8, <1>9, <1>10, <1>11, <1>12 DEF Next

(* The filters stay inside a text of any length and keep its length:       *)
(* contentsPtr never gets past the NUL.                                    *)
THEOREM TypeCorrect == Spec => []TypeOK
<1>1. Init => TypeOK
  BY InitType
<1>2. TypeOK /\ [Next]_vars => TypeOK'
  BY NextType
<1>3. QED
  BY <1>1, <1>2, PTL DEF Spec

-----------------------------------------------------------------------------
(* What a place in a line comment is, without sequences. *)
LEMMA LineCommentPlaces ==
  ASSUME NEW s \in Seq(Chars), NEW i \in 1..Len(s)
  PROVE  i \in LineComments(s) <=>
           \E b \in 1..i : /\ b + 1 <= Len(s) /\ s[b] = "/" /\ s[b + 1] = "/"
                          /\ \A j \in b..i : s[j] # EndLine
<1>1. Len(s) \in Nat /\ DOMAIN s = 1..Len(s)
  BY LenProperties
<1>2. \A b \in 1..i : BeginsAt(s, b, LineCommentBegin) <=>
                         b + 1 <= Len(s) /\ s[b] = "/" /\ s[b + 1] = "/"
  <2>1. ASSUME NEW b \in 1..i
        PROVE  BeginsAt(s, b, LineCommentBegin) <=>
                 b + 1 <= Len(s) /\ s[b] = "/" /\ s[b + 1] = "/"
    BY <1>1, TwoBegin DEF LineCommentBegin
  <2>2. QED
    BY <2>1
<1>3. QED
  BY <1>1, <1>2 DEF LineComments

(* While fillLineComment runs: the text as it was given, place by place. *)
LEMMA LineSoFar ==
  ASSUME TypeOK, LineInv, step = "line"
  PROVE  /\ given[1] \in Seq(Chars) /\ Len(given[1]) = Len(text)
         /\ \A i \in 1..Len(text) :
              text[i] = IF i \in LineComments(given[1]) /\ i < at THEN Space ELSE given[1][i]
         /\ \A i \in at..Len(text) : text[i] = given[1][i]
<1>1. /\ Len(text) \in Nat /\ at \in Nat /\ 1 <= at
      /\ \A k \in 1..Len(given) : given[k] \in Seq(Chars) /\ Len(given[k]) = Len(text)
  BY Shapes
<1>2. Len(given) = 1
  BY DEF TypeOK
<1>3. given[1] \in Seq(Chars) /\ Len(given[1]) = Len(text)
  BY <1>1, <1>2
<1> DEFINE done == {i \in LineComments(given[1]) : i < at}
<1>4. text = Blanked(given[1], done)
  BY DEF LineInv
<1>5. \A i \in 1..Len(text) : text[i] = IF i \in done THEN Space ELSE given[1][i]
  BY <1>3, <1>4, BlankedText
<1>6. \A i \in at..Len(text) : text[i] = given[1][i]
  BY <1>1, <1>5
<1>7. QED
  BY <1>3, <1>5, <1>6

(* Where the search finds no comment, there is none. *)
LEMMA NotCommented ==
  ASSUME TypeOK, LineInv, step = "line", NEW upto \in Nat, upto <= Len(text) + 1,
         \A b \in at..(upto - 1) : ~BeginsAt(text, b, LineCommentBegin),
         NEW i \in at..(upto - 1)
  PROVE  i \notin LineComments(given[1])
<1> DEFINE g == given[1]
<1>1. Len(text) \in Nat /\ at \in Nat /\ 1 <= at /\ i \in 1..Len(text) /\ i \in Nat
  BY Shapes
<1>2. /\ g \in Seq(Chars) /\ Len(g) = Len(text)
      /\ \A k \in at..Len(text) : text[k] = g[k]
  BY LineSoFar
<1>3. at = 1 \/ g[at - 1] = EndLine
  BY DEF LineInv
<1>4. ASSUME NEW b \in 1..i, b + 1 <= Len(g), g[b] = "/", g[b + 1] = "/",
             \A j \in b..i : g[j] # EndLine
      PROVE  FALSE
  <2>1. b \in Nat /\ 1 <= b /\ b <= i
    BY <1>1
  <2>2. CASE b < at
    <3>1. at - 1 \in b..i /\ at # 1
      BY <1>1, <2>1, <2>2
    <3>2. QED
      BY <1>3, <1>4, <3>1
  <2>3. CASE at <= b
    <3>1. b \in at..Len(text) /\ b + 1 \in at..Len(text) /\ b \in at..(upto - 1)
      BY <1>1, <1>2, <1>4, <2>1, <2>3
    <3>2. text[b] = "/" /\ text[b + 1] = "/" /\ b + 1 <= Len(text)
      BY <1>2, <1>4, <3>1
    <3>3. BeginsAt(text, b, LineCommentBegin)
      BY <1>1, <2>1, <3>2, TwoBegin DEF LineCommentBegin
    <3>4. QED
      BY <3>1, <3>3
  <2>4. QED
    BY <1>1, <2>1, <2>2, <2>3
<1>5. i \in 1..Len(g)
  BY <1>1, <1>2
<1>6. i \in LineComments(g) =>
        \E b \in 1..i : /\ b + 1 <= Len(g) /\ g[b] = "/" /\ g[b + 1] = "/"
                       /\ \A j \in b..i : g[j] # EndLine
  BY <1>2, <1>5, LineCommentPlaces
<1>7. QED
  BY <1>4, <1>6

(* An iteration of fillLineComment blanks the comments up to its end. *)
LEMMA LineCommentDone ==
  ASSUME TypeOK, LineInv, step = "line", Places(LineCommentBegin, at) # {},
         NEW begin, begin = First(Places(LineCommentBegin, at)),
         NEW end, end = First(Places(<<EndLine>>, begin + 2) \cup {End}),
         text' = Blanked(text, begin..(end - 1))
  PROVE  /\ end = End => text' = Blanked(given[1], LineComments(given[1]))
         /\ end # End =>
              /\ text' = Blanked(given[1], {i \in LineComments(given[1]) : i < end + 1})
              /\ given[1][end] = EndLine
<1> DEFINE g == given[1]
           comments == LineComments(g)
<1>1. /\ text \in Seq(Chars) /\ Len(text) \in Nat /\ End = Len(text) + 1
      /\ at \in Nat /\ 1 <= at
  BY Shapes
<1>2. /\ begin \in Nat /\ end \in Nat /\ at <= begin /\ begin + 1 <= Len(text)
      /\ begin + 2 <= end /\ end <= Len(text) + 1
      /\ text[begin] = "/" /\ text[begin + 1] = "/"
      /\ \A i \in at..(begin - 1) : ~BeginsAt(text, i, LineCommentBegin)
      /\ \A j \in (begin + 2)..(end - 1) : text[j] # EndLine
      /\ end # End => text[end] = EndLine
  BY LineAhead
<1>3. /\ begin \in Nat /\ end \in Nat /\ at <= begin /\ begin + 1 <= Len(text)
       /\ begin + 2 <= end /\ end <= Len(text) + 1
  BY <1>2
<1>4. /\ g \in Seq(Chars) /\ Len(g) = Len(text)
      /\ \A i \in 1..Len(text) :
           text[i] = IF i \in comments /\ i < at THEN Space ELSE g[i]
      /\ \A i \in at..Len(text) : text[i] = g[i]
  BY LineSoFar
<1>5. end # End => g[end] = EndLine
  BY <1>1, <1>2, <1>4
<1>6. \A i \in at..(begin - 1) : i \notin comments
  <2>1. begin \in Nat /\ begin <= Len(text) + 1
    BY <1>1, <1>3
  <2>2. \A i \in at..(begin - 1) : ~BeginsAt(text, i, LineCommentBegin)
    BY <1>2
  <2>3. ASSUME NEW i \in at..(begin - 1) PROVE i \notin comments
    BY <2>1, <2>2, NotCommented
  <2>4. QED
    BY <2>3
<1>7. ASSUME NEW i \in begin..(end - 1) PROVE i \in comments
  <2>1. begin \in 1..i /\ i \in 1..Len(g) /\ begin + 1 <= Len(g)
    BY <1>1, <1>3, <1>4
  <2>2. g[begin] = "/" /\ g[begin + 1] = "/"
    BY <1>1, <1>2, <1>4
  <2>3. ASSUME NEW j \in begin..i PROVE g[j] # EndLine
    <3>1. j = begin \/ j = begin + 1 \/ j \in (begin + 2)..(end - 1)
      BY <1>3
    <3>2. g[j] = text[j]
      BY <1>1, <1>2, <1>4
    <3>3. QED
      BY <1>2, <2>2, <3>1, <3>2 DEF EndLine
  <2>4. QED
    BY <1>4, <2>1, <2>2, <2>3, LineCommentPlaces
<1>8. end # End => end \notin comments
  <2>1. SUFFICES ASSUME end # End, end \in comments PROVE FALSE
    OBVIOUS
  <2>2. end \in 1..Len(g)
    BY <1>1, <1>2, <1>4, <2>1
  <2>3. PICK b \in 1..end : \A j \in b..end : g[j] # EndLine
    BY <1>4, <2>1, <2>2, LineCommentPlaces
  <2>4. end \in b..end
    BY <2>2
  <2>5. QED
    BY <1>5, <2>1, <2>3, <2>4
<1>9. ASSUME NEW P, \A i \in 1..Len(text) : i \in P <=> i \in comments /\ i < end
      PROVE  text' = Blanked(g, P)
  <2> DEFINE lost == begin..(end - 1)
  <2>1. ASSUME NEW i \in 1..Len(text)
        PROVE  (IF i \in lost THEN Space ELSE text[i])
                 = (IF i \in P THEN Space ELSE g[i])
    <3>1. CASE i < at
      <4>1. i \notin begin..(end - 1) /\ i < end
        BY <1>1, <1>3, <3>1
      <4>2. QED
        BY <1>4, <1>9, <3>1, <4>1
    <3>2. CASE at <= i /\ i < begin
      <4>1. i \in at..(begin - 1) /\ i \in at..Len(text) /\ i \notin begin..(end - 1)
        BY <1>1, <1>3, <3>2
      <4>2. QED
        BY <1>4, <1>6, <1>9, <4>1
    <3>3. CASE begin <= i /\ i < end
      <4>1. i \in begin..(end - 1)
        BY <1>1, <1>3, <3>3
      <4>2. QED
        BY <1>7, <1>9, <3>3, <4>1
    <3>4. CASE end <= i
      <4>1. i \in at..Len(text) /\ i \notin begin..(end - 1) /\ ~(i < end)
        BY <1>1, <1>3, <3>4
      <4>2. QED
        BY <1>4, <1>9, <4>1
    <3>5. QED
      BY <1>1, <1>3, <3>1, <3>2, <3>3, <3>4
  <2>2. text' = Blanked(text, lost) /\ text \in Seq(Chars) /\ g \in Seq(Chars) /\ Len(text) = Len(g)
    BY <1>1, <1>4
  <2>3. QED
    <3> HIDE DEF lost, g
    <3>1. Blanked(text, lost) = Blanked(g, P)
      BY <2>1, <2>2, SameBlanked
    <3>2. QED
      BY <2>2, <3>1
<1>10. ASSUME end = End PROVE text' = Blanked(g, comments)
  <2>1. \A i \in 1..Len(text) : i \in comments <=> i \in comments /\ i < end
    BY <1>1, <1>10
  <2>2. QED
    BY <1>9, <2>1
<1>11. ASSUME end # End PROVE text' = Blanked(g, {i \in comments : i < end + 1})
  <2>1. \A i \in 1..Len(text) :
          i \in {k \in comments : k < end + 1} <=> i \in comments /\ i < end
    <3>1. ASSUME NEW i \in 1..Len(text) PROVE i < end + 1 <=> i < end \/ i = end
      <4>1. i \in Nat /\ end \in Nat
        BY <1>1, <1>3
      <4>2. QED
        BY <4>1
    <3>2. QED
      BY <1>8, <1>11, <3>1
  <2>2. QED
    BY <1>9, <2>1
<1>12. QED
  BY <1>5, <1>10, <1>11

(* The search that finds no comment ends fillLineComment. *)
LEMMA LineCommentsOver ==
  ASSUME TypeOK, LineInv, step = "line", Places(LineCommentBegin, at) = {}
  PROVE  text = Blanked(given[1], LineComments(given[1]))
<1> DEFINE g == given[1]
           comments == LineComments(g)
<1>1. /\ text \in Seq(Chars) /\ Len(text) \in Nat /\ at \in Nat /\ 1 <= at
      /\ at <= Len(text) + 1
  BY Shapes
<1>2. /\ g \in Seq(Chars) /\ Len(g) = Len(text)
      /\ \A i \in 1..Len(text) :
           text[i] = IF i \in comments /\ i < at THEN Space ELSE g[i]
  BY LineSoFar
<1>3. \A i \in at..Len(text) : i \notin comments
  <2>1. Len(text) + 1 \in Nat /\ (Len(text) + 1) - 1 = Len(text)
    BY <1>1
  <2>2. \A i \in at..((Len(text) + 1) - 1) : ~BeginsAt(text, i, LineCommentBegin)
    BY <2>1 DEF Places
  <2>3. ASSUME NEW i \in at..((Len(text) + 1) - 1) PROVE i \notin comments
    BY <2>1, <2>2, NotCommented
  <2>4. QED
    BY <2>1, <2>3
<1>4. \A i \in 1..Len(text) :
        (IF i \in {} THEN Space ELSE text[i]) = (IF i \in comments THEN Space ELSE g[i])
  <2>1. ASSUME NEW i \in 1..Len(text)
        PROVE  text[i] = IF i \in comments THEN Space ELSE g[i]
    <3>1. i < at \/ i \in at..Len(text)
      BY <1>1
    <3>2. QED
      BY <1>2, <1>3, <3>1
  <2>2. QED
    BY <2>1
<1>5. Blanked(text, {}) = Blanked(g, comments)
  <2> HIDE DEF comments, g
  <2>1. QED
    BY <1>1, <1>2, <1>4, SameBlanked
<1>6. Blanked(text, {}) = text
  BY <1>1, LenProperties DEF Blanked
<1>7. QED
  BY <1>5, <1>6

(* Without its line comments, no line comment begins in the text. *)
LEMMA NoLineCommentLeft ==
  ASSUME NEW g \in Seq(Chars), NEW i \in 1..Len(g)
  PROVE  ~BeginsAt(Blanked(g, LineComments(g)), i, LineCommentBegin)
<1> SUFFICES ASSUME BeginsAt(Blanked(g, LineComments(g)), i, LineCommentBegin) PROVE FALSE
  OBVIOUS
<1>1. Len(g) \in Nat
  BY LenProperties
<1>2. BeginsAt(g, i, <<"/", "/">>) /\ i \notin LineComments(g)
  <2>1. "/" # Space
    BY DEF Space
  <2>2. QED
    BY <2>1, NothingJoined DEF LineCommentBegin
<1>3. i + 1 <= Len(g) /\ g[i] = "/" /\ g[i + 1] = "/" /\ i \in Nat
  BY <1>1, <1>2, TwoBegin
<1>4. i \in 1..i /\ \A j \in i..i : g[j] # EndLine
  BY <1>3 DEF EndLine
<1>5. QED
  BY <1>2, <1>3, <1>4, LineCommentPlaces

(* fillLineComment: what it has done while it runs, and when it hands on.  *)
LEMMA LineStep ==
  ASSUME TypeOK, LineInv, LineComment \/ NoLineComment
  PROVE  LineInv' /\ (step' # step =>
           /\ step' = "block" /\ at' = 1 /\ Len(given') = 2 /\ text' \in Seq(Chars)
           /\ given'[2] = text' /\ given'[1] \in Seq(Chars)
           /\ text' = Blanked(given'[1], LineComments(given'[1])))
<1>1. /\ step = "line" /\ Len(given) = 1 /\ text \in Seq(Chars) /\ at \in Nat
      /\ given[1] \in Seq(Chars)
  <2>1. step = "line"
    BY DEF LineComment, NoLineComment
  <2>2. QED
    BY <2>1, Shapes DEF TypeOK
<1>2. ASSUME HandOn("block"), text' \in Seq(Chars), Len(text') = Len(text),
             text' = Blanked(given[1], LineComments(given[1]))
      PROVE  /\ LineInv' /\ step' = "block" /\ at' = 1 /\ Len(given') = 2
             /\ given'[2] = text' /\ given'[1] = given[1]
  <2>1. /\ step' = "block" /\ at' = 1 /\ Len(given') = Len(given) + 1
        /\ \A k \in 1..Len(given) : given'[k] = given[k]
        /\ given'[Len(given) + 1] = text'
    BY <1>2, HandedOn
  <2>2. Len(given) + 1 = 2 /\ 1 \in 1..Len(given)
    BY <1>1
  <2>3. LineInv'
    BY <2>1 DEF LineInv
  <2>4. QED
    BY <2>1, <2>2, <2>3
<1>3. CASE LineComment
  <2> DEFINE begin == First(Places(LineCommentBegin, at))
             end == First(Places(<<EndLine>>, begin + 2) \cup {End})
  <2>1. /\ Places(LineCommentBegin, at) # {}
        /\ text' = Blanked(text, begin..(end - 1))
        /\ IF end = End THEN HandOn("block")
           ELSE step' = step /\ at' = end + 1 /\ given' = given
    BY <1>3 DEF LineComment
  <2>2. /\ end = End => text' = Blanked(given[1], LineComments(given[1]))
        /\ end # End =>
             /\ text' = Blanked(given[1], {i \in LineComments(given[1]) : i < end + 1})
             /\ given[1][end] = EndLine
    BY <1>1, <2>1, LineCommentDone
  <2>3. text' \in Seq(Chars) /\ Len(text') = Len(text)
    BY <1>1, <2>1, BlankedText
  <2>4. CASE end = End
    BY <1>1, <1>2, <2>1, <2>2, <2>3, <2>4
  <2>5. CASE end # End
    <3>1. step' = step /\ at' = end + 1 /\ given' = given
      BY <2>1, <2>5
    <3>2. end \in Nat /\ (end + 1) - 1 = end
      BY <2>1, LineAhead
    <3>3. given'[1][at' - 1] = EndLine
      BY <2>2, <2>5, <3>1, <3>2
    <3>4. text' = Blanked(given'[1], {i \in LineComments(given'[1]) : i < at'})
      BY <2>2, <2>5, <3>1
    <3>5. QED
      BY <3>1, <3>3, <3>4 DEF LineInv
  <2>6. QED
    BY <2>4, <2>5
<1>4. CASE NoLineComment
  <2>1. Places(LineCommentBegin, at) = {} /\ text' = text /\ HandOn("block")
    BY <1>4 DEF NoLineComment
  <2>2. text' = Blanked(given[1], LineComments(given[1]))
    BY <1>1, <2>1, LineCommentsOver
  <2>3. QED
    BY <1>1, <1>2, <2>1, <2>2
<1>5. QED
  BY <1>3, <1>4

-----------------------------------------------------------------------------
(* Blanking begins no comment. *)
LEMMA NoneBegun ==
  ASSUME NEW s \in Seq(Chars), NEW places, NEW i \in 1..Len(s)
  PROVE  /\ BeginsAt(Blanked(s, places), i, LineCommentBegin) => BeginsAt(s, i, LineCommentBegin)
         /\ BeginsAt(Blanked(s, places), i, BlockCommentBegin) =>
              BeginsAt(s, i, BlockCommentBegin) /\ i \notin places
<1>1. "/" # Space /\ "*" # Space
  BY DEF Space
<1>2. QED
  BY <1>1, NothingJoined DEF LineCommentBegin, BlockCommentBegin

(* An iteration of fillBlockComment leaves no comment before the place it  *)
(* gets to.                                                                *)
LEMMA BlockStep ==
  ASSUME TypeOK, BlockInv, BlockComment
  PROVE  BlockInv'
<1> DEFINE begin == First(Places(BlockCommentBegin, at))
           last == First(Ends(begin))
           lost == begin..((last + 2) - 1)
<1>1. step = "block" /\ Places(BlockCommentBegin, at) # {} /\ step' = step
  BY DEF BlockComment
<1>2. Ends(begin) # {} /\ at' = last + 2 /\ text' = Blanked(text, lost)
  BY Zenon DEF BlockComment
<1>3. text \in Seq(Chars) /\ Len(text) \in Nat /\ at \in Nat /\ 1 <= at
  BY Shapes
<1>4. /\ begin \in Nat /\ last \in Nat /\ at <= begin
      /\ begin + 2 <= last /\ last + 1 <= Len(text)
      /\ \A i \in at..(begin - 1) : ~BeginsAt(text, i, BlockCommentBegin)
  BY <1>1, <1>2, BlockBegins, BlockAhead
<1>5. \A i \in 1..(at - 1) : ~BeginsAt(text, i, BlockCommentBegin)
  BY <1>1 DEF BlockInv
<1>6. ASSUME NEW i \in 1..(at' - 1), BeginsAt(text', i, BlockCommentBegin) PROVE FALSE
  <2>1. i \in 1..Len(text) /\ i \in Nat /\ i < last + 2
    BY <1>2, <1>3, <1>4
  <2>2. BeginsAt(text, i, BlockCommentBegin) /\ i \notin lost
    <3> HIDE DEF lost
    <3>1. BeginsAt(Blanked(text, lost), i, BlockCommentBegin)
      BY <1>2, <1>6
    <3>2. QED
      BY <1>3, <2>1, <3>1, NoneBegun
  <2>3. i < begin
    BY <1>4, <2>1, <2>2
  <2>4. i \in 1..(at - 1) \/ i \in at..(begin - 1)
    BY <1>3, <1>4, <2>1, <2>3
  <2>5. QED
    BY <1>4, <1>5, <2>2, <2>4
<1>7. QED
  BY <1>6 DEF BlockInv

(* While fillBlockComment runs: the text as it was given, place by place. *)
LEMMA BlockSoFar ==
  ASSUME TypeOK, BlockReadInv, step = "block"
  PROVE  /\ given[2] \in Seq(Chars) /\ Len(given[2]) = Len(text)
         /\ \A i \in 1..Len(text) :
              text[i] = IF i \in BlockComments(given[2]) /\ i < at THEN Space ELSE given[2][i]
         /\ \A i \in at..Len(text) : text[i] = given[2][i]
<1>1. /\ Len(text) \in Nat /\ at \in Nat /\ 1 <= at
      /\ \A k \in 1..Len(given) : given[k] \in Seq(Chars) /\ Len(given[k]) = Len(text)
  BY Shapes
<1>2. Len(given) = 2 /\ 2 \in 1..2
  BY DEF TypeOK
<1>3. given[2] \in Seq(Chars) /\ Len(given[2]) = Len(text)
  BY <1>1, <1>2
<1> DEFINE done == {i \in BlockComments(given[2]) : i < at}
<1>4. text = Blanked(given[2], done)
  BY DEF BlockReadInv
<1>5. \A i \in 1..Len(text) : text[i] = IF i \in done THEN Space ELSE given[2][i]
  BY <1>3, <1>4, BlankedText
<1>6. \A i \in at..Len(text) : text[i] = given[2][i]
  BY <1>1, <1>5
<1>7. QED
  BY <1>3, <1>5, <1>6

(* The reader of the text that fillBlockComment was given, up to the       *)
(* comment it finds next: no comment before it, and then its opening.      *)
LEMMA ReadToOpening ==
  ASSUME TypeOK, BlockReadInv, step = "block", Places(BlockCommentBegin, at) # {},
         NEW begin, begin = First(Places(BlockCommentBegin, at))
  PROVE  /\ \A i \in at..(begin - 1) : i \notin BlockComments(given[2])
         /\ Reader(given[2])[begin + 1] = "opened"
<1> DEFINE g == given[2]
           R == Reader(g)
<1>1. text \in Seq(Chars) /\ Len(text) \in Nat /\ at \in Nat /\ 1 <= at
  BY Shapes
<1>2. /\ begin \in Nat /\ at <= begin /\ begin + 1 <= Len(text)
      /\ text[begin] = "/" /\ text[begin + 1] = "*"
      /\ \A i \in at..(begin - 1) : ~BeginsAt(text, i, BlockCommentBegin)
  BY BlockBegins
<1>3. g \in Seq(Chars) /\ Len(g) = Len(text) /\ \A i \in at..Len(text) : text[i] = g[i]
  BY BlockSoFar
<1>4. R[at - 1] \in {"text", "closed"}
  BY DEF BlockReadInv
<1>5. \A i \in at..(begin - 1) : ~(g[i] = "/" /\ g[i + 1] = "*")
  <2>1. ASSUME NEW i \in at..(begin - 1), g[i] = "/", g[i + 1] = "*" PROVE FALSE
    <3>1. i \in Nat /\ i + 1 <= Len(text) /\ i \in at..Len(text) /\ i + 1 \in at..Len(text)
      BY <1>1, <1>2
    <3>2. text[i] = "/" /\ text[i + 1] = "*"
      BY <1>3, <2>1, <3>1
    <3> QED
      BY <1>1, <1>2, <3>1, <3>2, TwoBegin DEF BlockCommentBegin
  <2> QED
    BY <2>1
<1>6. \A i \in (at - 1)..begin :
        /\ R[i] \in Outside /\ (i >= at => R[i] # "closed")
        /\ R[i] = "slash" <=> i >= at /\ g[i] = "/"
  <2>1. at - 1 <= begin /\ begin <= Len(g)
    BY <1>1, <1>2, <1>3
  <2> QED
    BY <1>1, <1>2, <1>3, <1>4, <1>5, <2>1, StaysOutside
<1>7. R[begin + 1] = "opened"
  <2>1. R[begin] = "slash"
    BY <1>1, <1>2, <1>3, <1>6
  <2>2. begin + 1 \in 1..Len(g) /\ (begin + 1) - 1 = begin /\ g[begin + 1] = "*"
    BY <1>1, <1>2, <1>3
  <2>3. R[begin + 1] = Reads(R[begin], g[begin + 1])
    BY <1>3, <2>2, ReaderReads
  <2> QED
    BY <2>1, <2>2, <2>3 DEF Reads
<1>8. ASSUME NEW i \in at..(begin - 1) PROVE i \notin BlockComments(g)
  <2>1. i \in (at - 1)..begin /\ i + 1 \in (at - 1)..begin /\ i >= at /\ i + 1 >= at
    BY <1>1, <1>2
  <2>2. R[i] \in Outside /\ R[i] # "closed" /\ R[i + 1] \in Outside
    BY <1>6, <2>1
  <2> QED
    BY <2>2 DEF BlockComments, Outside
<1> QED
  BY <1>7, <1>8

(* A comment that ends: the reader is inside to its last star, and closed  *)
(* behind its last slash.                                                  *)
LEMMA ReadToClosing ==
  ASSUME TypeOK, BlockReadInv, step = "block", Places(BlockCommentBegin, at) # {},
         NEW begin, begin = First(Places(BlockCommentBegin, at)), Ends(begin) # {},
         NEW last, last = First(Ends(begin))
  PROVE  /\ \A i \in begin..(last + 1) : i \in BlockComments(given[2])
         /\ Reader(given[2])[last + 1] = "closed"
<1> DEFINE g == given[2]
           R == Reader(g)
<1>1. text \in Seq(Chars) /\ Len(text) \in Nat /\ at \in Nat /\ 1 <= at
  BY Shapes
<1>2. /\ begin \in Nat /\ last \in Nat /\ at <= begin
      /\ begin + 2 <= last /\ last + 1 <= Len(text)
      /\ text[last] = "*" /\ text[last + 1] = "/"
      /\ \A i \in (begin + 2)..(last - 1) : ~BeginsAt(text, i, BlockCommentEnd)
  BY BlockAhead
<1>3. g \in Seq(Chars) /\ Len(g) = Len(text) /\ \A i \in at..Len(text) : text[i] = g[i]
  BY BlockSoFar
<1>4. R[begin + 1] = "opened"
  BY ReadToOpening
<1>5. \A i \in ((begin + 1) + 1)..(last - 1) : ~(g[i] = "*" /\ g[i + 1] = "/")
  <2>1. ASSUME NEW i \in ((begin + 1) + 1)..(last - 1), g[i] = "*", g[i + 1] = "/" PROVE FALSE
    <3>1. /\ i \in Nat /\ i + 1 <= Len(text) /\ i \in at..Len(text) /\ i + 1 \in at..Len(text)
          /\ i \in (begin + 2)..(last - 1)
      BY <1>1, <1>2
    <3>2. text[i] = "*" /\ text[i + 1] = "/"
      BY <1>3, <2>1, <3>1
    <3> QED
      BY <1>1, <1>2, <3>1, <3>2, TwoBegin DEF BlockCommentEnd
  <2> QED
    BY <2>1
<1>6. \A i \in (begin + 1)..last :
        /\ R[i] \in Inside
        /\ R[i] = "star" <=> i > begin + 1 /\ g[i] = "*"
  <2>1. begin + 1 \in Nat /\ 1 <= begin + 1 /\ begin + 1 <= last /\ last <= Len(g)
    BY <1>1, <1>2, <1>3
  <2> QED
    BY <1>2, <1>3, <1>4, <1>5, <2>1, StaysInside
<1>7. R[last + 1] = "closed"
  <2>1. R[last] = "star"
    <3>1. last \in at..Len(text) /\ last \in (begin + 1)..last /\ last > begin + 1
      BY <1>1, <1>2
    <3>2. g[last] = "*"
      BY <1>2, <1>3, <3>1
    <3> HIDE DEF R
    <3> QED
      BY <1>6, <3>1, <3>2
  <2>2. last + 1 \in 1..Len(g) /\ (last + 1) - 1 = last /\ g[last + 1] = "/"
    BY <1>1, <1>2, <1>3
  <2>3. R[last + 1] = Reads(R[last], g[last + 1])
    BY <1>3, <2>2, ReaderReads
  <2> QED
    BY <2>1, <2>2, <2>3 DEF Reads
<1>8. ASSUME NEW i \in begin..(last + 1) PROVE i \in BlockComments(g)
  <2>1. i \in 1..Len(g) /\ i \in DOMAIN g
    BY <1>1, <1>2, <1>3, LenProperties
  <2>2. CASE i = begin
    BY <1>2, <1>3, <1>4, <2>1, <2>2 DEF BlockComments
  <2>3. CASE i \in (begin + 1)..last
    <3>1. R[i] \in Inside
      BY <1>6, <2>3
    <3> QED
      BY <2>1, <3>1 DEF BlockComments, Inside
  <2>4. CASE i = last + 1
    BY <1>7, <2>1, <2>4 DEF BlockComments
  <2> QED
    BY <1>2, <2>2, <2>3, <2>4
<1> QED
  BY <1>7, <1>8

(* An iteration of fillBlockComment blanks the comments up to where it     *)
(* gets.                                                                   *)
LEMMA BlockReadStep ==
  ASSUME TypeOK, BlockReadInv, BlockComment
  PROVE  BlockReadInv'
<1> DEFINE begin == First(Places(BlockCommentBegin, at))
           last == First(Ends(begin))
           lost == begin..((last + 2) - 1)
           g == given[2]
           all == BlockComments(g)
           now == {i \in all : i < last + 2}
<1>1. /\ step = "block" /\ Places(BlockCommentBegin, at) # {} /\ step' = step
      /\ given' = given
  BY DEF BlockComment
<1>2. Ends(begin) # {} /\ at' = last + 2 /\ text' = Blanked(text, lost)
  BY Zenon DEF BlockComment
<1>3. text \in Seq(Chars) /\ Len(text) \in Nat /\ at \in Nat /\ 1 <= at
  BY Shapes
<1>4. /\ begin \in Nat /\ last \in Nat /\ at <= begin
      /\ begin + 2 <= last /\ last + 1 <= Len(text)
  BY <1>1, <1>2, BlockAhead
<1>5. /\ g \in Seq(Chars) /\ Len(g) = Len(text)
      /\ \A i \in 1..Len(text) : text[i] = IF i \in all /\ i < at THEN Space ELSE g[i]
      /\ \A i \in at..Len(text) : text[i] = g[i]
  BY <1>1, BlockSoFar
<1>6. \A i \in at..(begin - 1) : i \notin all
  BY <1>1, ReadToOpening
<1>7. (\A i \in begin..(last + 1) : i \in all) /\ Reader(g)[last + 1] = "closed"
  BY <1>1, <1>2, ReadToClosing
<1>8. ASSUME NEW i \in 1..Len(text)
      PROVE  (IF i \in lost THEN Space ELSE text[i]) = (IF i \in now THEN Space ELSE g[i])
  <2> HIDE DEF all, begin, last, g
  <2>1. CASE i < at
    <3>1. i \notin lost /\ i < last + 2
      BY <1>3, <1>4, <2>1
    <3>2. QED
      BY <1>5, <2>1, <3>1
  <2>2. CASE at <= i /\ i < begin
    <3>1. i \in at..Len(text) /\ i \in at..(begin - 1) /\ i \notin lost
      BY <1>3, <1>4, <2>2
    <3>2. QED
      BY <1>5, <1>6, <3>1
  <2>3. CASE begin <= i /\ i < last + 2
    <3>1. i \in begin..(last + 1) /\ i \in lost
      BY <1>3, <1>4, <2>3
    <3>2. QED
      BY <1>7, <2>3, <3>1
  <2>4. CASE last + 2 <= i
    <3>1. i \in at..Len(text) /\ i \notin lost /\ ~(i < last + 2)
      BY <1>3, <1>4, <2>4
    <3>2. QED
      BY <1>5, <3>1
  <2>5. QED
    BY <1>3, <1>4, <2>1, <2>2, <2>3, <2>4
<1>9. Blanked(text, lost) = Blanked(g, now)
  <2> HIDE DEF lost, now, g
  <2>1. QED
    BY <1>3, <1>5, <1>8, SameBlanked
<1>10. Reader(g)[at' - 1] = "closed"
  <2>1. at' - 1 = last + 1
    BY <1>2, <1>4
  <2> QED
    BY <1>7, <2>1
<1>11. QED
  BY <1>1, <1>2, <1>9, <1>10 DEF BlockReadInv

(* A comment that nothing ends is one that the reader ends in. *)
LEMMA BlockLeftOpen ==
  ASSUME TypeOK, BlockReadInv, step = "block", Places(BlockCommentBegin, at) # {},
         Ends(First(Places(BlockCommentBegin, at))) = {}
  PROVE  Unclosed(given[2])
<1> DEFINE begin == First(Places(BlockCommentBegin, at))
           g == given[2]
           R == Reader(g)
<1>1. text \in Seq(Chars) /\ Len(text) \in Nat /\ at \in Nat /\ 1 <= at
  BY Shapes
<1>2. begin \in Nat /\ at <= begin /\ begin + 1 <= Len(text)
  BY BlockBegins
<1>3. g \in Seq(Chars) /\ Len(g) = Len(text) /\ \A i \in at..Len(text) : text[i] = g[i]
  BY BlockSoFar
<1>4. R[begin + 1] = "opened"
  BY ReadToOpening
<1>5. \A i \in ((begin + 1) + 1)..(Len(text) - 1) : ~(g[i] = "*" /\ g[i + 1] = "/")
  <2>1. ASSUME NEW i \in ((begin + 1) + 1)..(Len(text) - 1), g[i] = "*", g[i + 1] = "/"
        PROVE  FALSE
    <3>1. /\ i \in Nat /\ i + 1 <= Len(text) /\ i \in at..Len(text) /\ i + 1 \in at..Len(text)
          /\ i \in (begin + 2)..Len(text)
      BY <1>1, <1>2, <1>3
    <3>2. text[i] = "*" /\ text[i + 1] = "/"
      BY <1>3, <2>1, <3>1
    <3>3. BeginsAt(text, i, BlockCommentEnd)
      BY <1>1, <3>1, <3>2, TwoBegin DEF BlockCommentEnd
    <3> QED
      BY <3>1, <3>3 DEF Ends, Places
  <2> QED
    BY <2>1
<1>6. R[Len(g)] \in Inside
  <2>1. /\ begin + 1 \in Nat /\ 1 <= begin + 1 /\ begin + 1 <= Len(text)
        /\ Len(text) <= Len(g) /\ Len(text) \in (begin + 1)..Len(text)
    BY <1>1, <1>2, <1>3
  <2> HIDE DEF g, begin
  <2>2. \A i \in (begin + 1)..Len(text) : R[i] \in Inside
    BY <1>1, <1>3, <1>4, <1>5, <2>1, StaysInside
  <2> QED
    BY <1>3, <2>1, <2>2
<1> QED
  BY <1>6 DEF Unclosed, Inside

(* The search that finds no opening ends fillBlockComment: the reader is   *)
(* outside of comments from there to the end.                              *)
LEMMA BlocksOver ==
  ASSUME TypeOK, BlockReadInv, step = "block", Places(BlockCommentBegin, at) = {}
  PROVE  ~Unclosed(given[2]) /\ text = Blanked(given[2], BlockComments(given[2]))
<1> DEFINE g == given[2]
           R == Reader(g)
           all == BlockComments(g)
<1>1. /\ text \in Seq(Chars) /\ Len(text) \in Nat /\ at \in Nat /\ 1 <= at
      /\ at <= Len(text) + 1
  BY Shapes
<1>2. /\ g \in Seq(Chars) /\ Len(g) = Len(text)
      /\ \A i \in 1..Len(text) : text[i] = IF i \in all /\ i < at THEN Space ELSE g[i]
      /\ \A i \in at..Len(text) : text[i] = g[i]
  BY BlockSoFar
<1>3. \A i \in at..(Len(text) - 1) : ~(g[i] = "/" /\ g[i + 1] = "*")
  <2>1. ASSUME NEW i \in at..(Len(text) - 1), g[i] = "/", g[i + 1] = "*" PROVE FALSE
    <3>1. /\ i \in Nat /\ i + 1 <= Len(text) /\ i \in at..Len(text) /\ i + 1 \in at..Len(text)
      BY <1>1, <1>2
    <3>2. text[i] = "/" /\ text[i + 1] = "*"
      BY <1>2, <2>1, <3>1
    <3>3. BeginsAt(text, i, BlockCommentBegin)
      BY <1>1, <3>1, <3>2, TwoBegin DEF BlockCommentBegin
    <3> QED
      BY <3>1, <3>3 DEF Places
  <2> QED
    BY <2>1
<1>4. \A i \in (at - 1)..Len(text) :
        /\ R[i] \in Outside /\ (i >= at => R[i] # "closed")
        /\ R[i] = "slash" <=> i >= at /\ g[i] = "/"
  <2>1. R[at - 1] \in {"text", "closed"}
    BY DEF BlockReadInv
  <2>2. at - 1 <= Len(text) /\ Len(text) <= Len(g)
    BY <1>1, <1>2
  <2> HIDE DEF g
  <2> QED
    BY <1>1, <1>2, <1>3, <2>1, <2>2, StaysOutside
<1>5. ~Unclosed(g)
  <2>1. Len(g) \in (at - 1)..Len(text)
    BY <1>1, <1>2
  <2>2. R[Len(g)] \in Outside
    BY <1>4, <2>1
  <2> QED
    BY <2>2 DEF Unclosed, Outside
<1>6. ASSUME NEW i \in at..Len(text) PROVE i \notin all
  <2>1. i \in (at - 1)..Len(text) /\ i >= at /\ (i < Len(text) => i + 1 \in (at - 1)..Len(text))
    BY <1>1, <1>2
  <2>2. R[i] \in Outside /\ R[i] # "closed" /\ (i < Len(text) => R[i + 1] \in Outside)
    BY <1>4, <2>1
  <2> QED
    BY <1>2, <2>2 DEF BlockComments, Outside
<1>7. ASSUME NEW i \in 1..Len(text)
      PROVE  (IF i \in {} THEN Space ELSE text[i]) = (IF i \in all THEN Space ELSE g[i])
  <2>1. i < at \/ i \in at..Len(text)
    BY <1>1
  <2> HIDE DEF all, g
  <2> QED
    BY <1>2, <1>6, <2>1
<1>8. Blanked(text, {}) = Blanked(g, all)
  <2> HIDE DEF all, g
  <2> QED
    BY <1>1, <1>2, <1>7, SameBlanked
<1>9. Blanked(text, {}) = text
  BY <1>1, LenProperties DEF Blanked
<1> QED
  BY <1>5, <1>8, <1>9

(* The filter that begins has blanked nothing yet. *)
LEMMA NothingBlanked ==
  ASSUME NEW s \in Seq(Chars), NEW places, places \subseteq DOMAIN s
  PROVE  s = Blanked(s, {i \in places : i < 1})
<1>1. \A i \in DOMAIN s : i \notin {k \in places : k < 1}
  BY LenProperties
<1>2. s = [i \in DOMAIN s |-> s[i]]
  BY LenProperties
<1>3. QED
  BY <1>1, <1>2 DEF Blanked

(* No filter that runs later begins a comment anew. *)
LEMMA GoneStep ==
  ASSUME TypeOK, BlockInv, NoneBegins, LineInv, [Next]_vars
  PROVE  NoneBegins'
<1>1. text \in Seq(Chars) /\ Len(text) \in Nat /\ at \in Nat /\ 1 <= at
  BY Shapes
(* Blanking while the same filter runs on. *)
<1>2. ASSUME NEW places, text' = Blanked(text, places), step' = step, step # "line"
      PROVE  NoneBegins'
  <2>1. Len(text') = Len(text)
    BY <1>1, <1>2, BlankedText
  <2>2. \A i \in 1..Len(text) :
          /\ BeginsAt(text', i, LineCommentBegin) => BeginsAt(text, i, LineCommentBegin)
          /\ BeginsAt(text', i, BlockCommentBegin) => BeginsAt(text, i, BlockCommentBegin)
    BY <1>1, <1>2, NoneBegun
  <2>3. QED
    BY <1>2, <2>1, <2>2 DEF NoneBegins
(* The same text in the hands of a filter for which it is good enough. *)
<1>3. ASSUME text' = text, step # "line",
             step' \in {"comma", "done"} =>
               \A i \in 1..Len(text) : ~BeginsAt(text, i, BlockCommentBegin)
      PROVE  NoneBegins'
  BY <1>3 DEF NoneBegins
<1>4. CASE LineComment \/ NoLineComment
  <2>1. CASE step' = step
    BY <1>4, <2>1 DEF NoneBegins, LineComment, NoLineComment
  <2>2. CASE step' # step
    <3>1. /\ step' = "block" /\ given'[1] \in Seq(Chars)
          /\ text' = Blanked(given'[1], LineComments(given'[1]))
      BY <1>4, <2>2, LineStep
    <3>2. Len(text') = Len(given'[1])
      BY <3>1, BlankedText
    <3>3. \A i \in 1..Len(text') : ~BeginsAt(text', i, LineCommentBegin)
      BY <3>1, <3>2, NoLineCommentLeft
    <3>4. QED
      BY <3>1, <3>3 DEF NoneBegins
  <2>3. QED
    BY <2>1, <2>2
<1>5. CASE BlockComment
  <2> DEFINE begin == First(Places(BlockCommentBegin, at))
             lost == begin..((First(Ends(begin)) + 2) - 1)
  <2>1. text' = Blanked(text, lost)
    BY <1>5, Zenon DEF BlockComment
  <2>2. step' = step /\ step # "line"
    BY <1>5 DEF BlockComment
  <2>3. QED
    BY <1>2, <2>1, <2>2
<1>6. CASE BlockCommentOpen
  BY <1>3, <1>6 DEF BlockCommentOpen
<1>7. CASE NoBlockComment
  <2>1. /\ step = "block" /\ text' = text /\ Places(BlockCommentBegin, at) = {}
    BY <1>7 DEF NoBlockComment
  <2>2. \A i \in at..Len(text) : ~BeginsAt(text, i, BlockCommentBegin)
    BY <2>1 DEF Places
  <2>3. \A i \in 1..(at - 1) : ~BeginsAt(text, i, BlockCommentBegin)
    BY <2>1 DEF BlockInv
  <2>4. \A i \in 1..Len(text) : ~BeginsAt(text, i, BlockCommentBegin)
    <3>1. \A i \in 1..Len(text) : i \in 1..(at - 1) \/ i \in at..Len(text)
      BY <1>1
    <3>2. QED
      BY <2>2, <2>3, <3>1
  <2>5. QED
    BY <1>3, <2>1, <2>4
<1>8. CASE TailComma
  <2> DEFINE comma == First(Places(<<Comma>>, at))
  <2>1. /\ step = "comma" /\ step' = step
        /\ text' = Blanked(text, {comma}) \/ text' = text
    BY <1>8 DEF TailComma
  <2>2. CASE text' = Blanked(text, {comma})
    BY <1>2, <2>1, <2>2
  <2>3. CASE text' = text
    BY <1>3, <2>1, <2>3 DEF NoneBegins
  <2>4. QED
    BY <2>1, <2>2, <2>3
<1>9. CASE NoComma
  BY <1>3, <1>9 DEF NoComma, NoneBegins
<1>10. CASE UNCHANGED vars
  BY <1>10 DEF vars, NoneBegins
<1>11. QED
  BY <1>4, <1>5, <1>6, <1>7, <1>8, <1>9, <1>10 DEF Next

-----------------------------------------------------------------------------
(* While fillTailComma runs: the text as it was given, place by place. *)
LEMMA CommaSoFar ==
  ASSUME TypeOK, CommaInv, step = "comma"
  PROVE  /\ given[3] \in Seq(Chars) /\ Len(given[3]) = Len(text)
         /\ \A i \in 1..Len(text) :
              text[i] = IF i \in TailCommas(given[3]) /\ i < at THEN Space ELSE given[3][i]
         /\ \A i \in at..Len(text) : text[i] = given[3][i]
<1>1. /\ Len(text) \in Nat /\ at \in Nat /\ 1 <= at
      /\ \A k \in 1..Len(given) : given[k] \in Seq(Chars) /\ Len(given[k]) = Len(text)
  BY Shapes
<1>2. Len(given) = 3 /\ 3 \in 1..3
  BY DEF TypeOK
<1>3. given[3] \in Seq(Chars) /\ Len(given[3]) = Len(text)
  BY <1>1, <1>2
<1> DEFINE done == {i \in TailCommas(given[3]) : i < at}
<1>4. text = Blanked(given[3], done)
  BY DEF CommaInv
<1>5. \A i \in 1..Len(text) : text[i] = IF i \in done THEN Space ELSE given[3][i]
  BY <1>3, <1>4, BlankedText
<1>6. \A i \in at..Len(text) : text[i] = given[3][i]
  BY <1>1, <1>5
<1>7. QED
  BY <1>3, <1>5, <1>6

(* The comma that fillTailComma looks at is a tail comma exactly when what *)
(* is behind it is a bracket.                                              *)
LEMMA TailCommaFound ==
  ASSUME TypeOK, CommaInv, step = "comma", Places(<<Comma>>, at) # {},
         NEW comma, comma = First(Places(<<Comma>>, at))
  PROVE  comma \in TailCommas(given[3]) <=>
           Behind(comma) # End /\ text[Behind(comma)] \in EndJson
<1> DEFINE h == given[3]
           n == Behind(comma)
<1>1. Len(text) \in Nat /\ End = Len(text) + 1 /\ at \in Nat /\ 1 <= at
  BY Shapes
<1>2. /\ comma \in Nat /\ at <= comma /\ comma <= Len(text) /\ text[comma] = Comma
      /\ n \in Nat /\ comma < n /\ n <= Len(text) + 1
      /\ \A j \in (comma + 1)..(n - 1) : text[j] \in Spaces
      /\ n # End => text[n] \notin Spaces
  BY CommaAhead
<1>3. /\ h \in Seq(Chars) /\ Len(h) = Len(text)
      /\ \A i \in at..Len(text) : text[i] = h[i]
  BY CommaSoFar
<1>4. DOMAIN h = 1..Len(text)
  BY <1>3, LenProperties
<1>5. h[comma] = Comma /\ comma \in DOMAIN h
  BY <1>1, <1>2, <1>3, <1>4
<1>6. /\ n # End => n \in (comma + 1)..Len(h) /\ h[n] = text[n]
      /\ \A j \in (comma + 1)..(n - 1) : h[j] \in Spaces
  BY <1>1, <1>2, <1>3
<1>7. ASSUME n # End, text[n] \in EndJson PROVE comma \in TailCommas(h)
  BY <1>5, <1>6, <1>7 DEF TailCommas
<1>8. ASSUME comma \in TailCommas(h) PROVE n # End /\ text[n] \in EndJson
  <2>1. PICK b \in (comma + 1)..Len(h) :
          h[b] \in EndJson /\ \A j \in (comma + 1)..(b - 1) : h[j] \in Spaces
    BY <1>8 DEF TailCommas
  <2>2. b \in Nat /\ comma < b /\ b <= Len(text)
    BY <1>1, <1>2, <1>3
  <2>3. ~(b < n)
    <3>1. SUFFICES ASSUME b < n PROVE FALSE
      OBVIOUS
    <3>2. h[b] \in Spaces
      BY <1>2, <1>6, <2>2, <3>1
    <3>3. QED
      BY <2>1, <3>2 DEF Spaces, EndJson, Space, EndLine
  <2>4. ~(n < b)
    <3>1. SUFFICES ASSUME n < b PROVE FALSE
      OBVIOUS
    <3>2. n \in (comma + 1)..(b - 1) /\ n # End
      BY <1>1, <1>2, <2>2, <3>1
    <3>3. QED
      BY <1>2, <1>6, <2>1, <3>2
  <2>5. b = n
    BY <1>2, <2>2, <2>3, <2>4
  <2>6. QED
    BY <1>1, <1>6, <2>1, <2>2, <2>5
<1>9. QED
  BY <1>7, <1>8

(* An iteration of fillTailComma blanks the tail commas up to where it     *)
(* gets.                                                                   *)
LEMMA CommaStep ==
  ASSUME TypeOK, CommaInv, TailComma
  PROVE  CommaInv'
<1> DEFINE comma == First(Places(<<Comma>>, at))
           h == given[3]
           tails == TailCommas(h)
           n == Behind(comma)
           tail == n # End /\ text[n] \in EndJson
<1>1. /\ step = "comma" /\ Places(<<Comma>>, at) # {}
      /\ text' = IF tail THEN Blanked(text, {comma}) ELSE text
      /\ at' = n /\ step' = step /\ given' = given
  BY DEF TailComma
<1>2. text \in Seq(Chars) /\ Len(text) \in Nat /\ at \in Nat /\ 1 <= at
  BY Shapes
<1>3. /\ comma \in Nat /\ at <= comma /\ comma <= Len(text) /\ text[comma] = Comma
      /\ \A i \in at..(comma - 1) : text[i] # Comma
      /\ n \in Nat /\ comma < n /\ n <= Len(text) + 1
      /\ \A j \in (comma + 1)..(n - 1) : text[j] \in Spaces
  BY <1>1, CommaAhead
<1>4. /\ h \in Seq(Chars) /\ Len(h) = Len(text)
      /\ \A i \in 1..Len(text) :
           text[i] = IF i \in tails /\ i < at THEN Space ELSE h[i]
      /\ \A i \in at..Len(text) : text[i] = h[i]
  BY <1>1, CommaSoFar
<1>5. comma \in tails <=> tail
  BY <1>1, TailCommaFound
<1>6. ASSUME NEW i \in at..(n - 1), i # comma PROVE i \notin tails
  <2>1. i \in at..Len(text) /\ i \in Nat
    BY <1>2, <1>3
  <2>2. i \in at..(comma - 1) \/ i \in (comma + 1)..(n - 1)
    BY <1>2, <1>3, <1>6, <2>1
  <2>3. Comma \notin Spaces
    BY DEF Comma, Spaces, Space, EndLine
  <2>4. h[i] # Comma
    BY <1>3, <1>4, <2>1, <2>2, <2>3
  <2>5. QED
    BY <2>4 DEF TailCommas
<1> DEFINE lost == IF tail THEN {comma} ELSE {}
           now == {i \in tails : i < n}
<1>7. text' = Blanked(text, lost)
  <2>1. text = Blanked(text, {})
    BY <1>2, LenProperties DEF Blanked
  <2>2. QED
    BY <1>1, <2>1
<1>8. ASSUME NEW i \in 1..Len(text)
      PROVE  (IF i \in lost THEN Space ELSE text[i]) = (IF i \in now THEN Space ELSE h[i])
  <2>1. CASE i < at
    <3>1. i \notin lost /\ i < n
      BY <1>2, <1>3, <2>1
    <3>2. QED
      BY <1>4, <2>1, <3>1
  <2>2. CASE i = comma
    <3>1. i \in at..Len(text) /\ i < n
      BY <1>2, <1>3, <2>2
    <3>2. i \in lost <=> i \in now
      BY <1>5, <2>2, <3>1
    <3>3. QED
      BY <1>4, <3>1, <3>2
  <2>3. CASE at <= i /\ i < n /\ i # comma
    <3>1. i \in at..Len(text) /\ i \in at..(n - 1) /\ i \notin lost
      BY <1>2, <1>3, <2>3
    <3>2. QED
      BY <1>4, <1>6, <2>3, <3>1
  <2>4. CASE n <= i
    <3>1. i \in at..Len(text) /\ i \notin lost /\ ~(i < n)
      BY <1>2, <1>3, <2>4
    <3>2. QED
      BY <1>4, <3>1
  <2>5. QED
    BY <1>2, <1>3, <2>1, <2>2, <2>3, <2>4
<1>9. Blanked(text, lost) = Blanked(h, now)
  <2>1. text \in Seq(Chars) /\ h \in Seq(Chars) /\ Len(text) = Len(h)
    BY <1>2, <1>4
  <2> HIDE DEF lost, now, h
  <2>2. QED
    BY <1>8, <2>1, SameBlanked
<1>10. QED
  BY <1>1, <1>7, <1>9 DEF CommaInv

(* The search that finds no comma ends fillTailComma. *)
LEMMA CommasOver ==
  ASSUME TypeOK, CommaInv, step = "comma", Places(<<Comma>>, at) = {}
  PROVE  text = Blanked(given[3], TailCommas(given[3]))
<1> DEFINE h == given[3]
           tails == TailCommas(h)
<1>1. text \in Seq(Chars) /\ Len(text) \in Nat /\ at \in Nat /\ 1 <= at
  BY Shapes
<1>2. /\ h \in Seq(Chars) /\ Len(h) = Len(text)
      /\ \A i \in 1..Len(text) :
           text[i] = IF i \in tails /\ i < at THEN Space ELSE h[i]
      /\ \A i \in at..Len(text) : text[i] = h[i]
  BY CommaSoFar
<1>3. ASSUME NEW i \in at..Len(text) PROVE i \notin tails
  <2>1. i \in Nat /\ i <= Len(text) /\ ~BeginsAt(text, i, <<Comma>>)
    BY <1>1 DEF Places
  <2>2. h[i] # Comma
    BY <1>1, <1>2, <2>1, OneBegins
  <2>3. QED
    BY <2>2 DEF TailCommas
<1>4. ASSUME NEW i \in 1..Len(text)
      PROVE  (IF i \in {} THEN Space ELSE text[i]) = (IF i \in tails THEN Space ELSE h[i])
  <2>1. i < at \/ i \in at..Len(text)
    BY <1>1
  <2>2. QED
    BY <1>2, <1>3, <2>1
<1>5. Blanked(text, {}) = Blanked(h, tails)
  <2> HIDE DEF tails, h
  <2>1. QED
    BY <1>1, <1>2, <1>4, SameBlanked
<1>6. Blanked(text, {}) = text
  BY <1>1, LenProperties DEF Blanked
<1>7. QED
  BY <1>5, <1>6

-----------------------------------------------------------------------------
(* The first filter has done nothing yet. *)
LEMMA InitText == Init => TextInv
<1> SUFFICES ASSUME Init PROVE TextInv
  OBVIOUS
<1>1. step = "line" /\ at = 1 /\ given = <<text>> /\ TypeOK
  BY InitType DEF Init
<1>2. Len(given) = 1 /\ given[1] = text /\ text \in Seq(Chars)
  BY <1>1 DEF TypeOK
<1>3. text = Blanked(given[1], {i \in LineComments(given[1]) : i < at})
  <2>1. \A i \in DOMAIN text : i \notin {k \in LineComments(text) : k < 1}
    BY <1>2, LenProperties
  <2>2. QED
    BY <1>1, <1>2, <2>1, LenProperties DEF Blanked
<1>4. LineInv /\ BlockInv /\ BlockReadInv /\ CommaInv /\ NoneBegins
  BY <1>1, <1>3 DEF LineInv, BlockInv, BlockReadInv, CommaInv, NoneBegins
<1>5. LineCommentsBlank /\ BlockCommentsBlank /\ TailCommasBlank
  BY <1>1, <1>2 DEF LineCommentsBlank, BlockCommentsBlank, TailCommasBlank
<1>6. QED
  BY <1>4, <1>5 DEF TextInv

(* Every iteration keeps what the filters have done. *)
LEMMA NextText == TypeOK /\ TextInv /\ [Next]_vars => TextInv'
<1> SUFFICES ASSUME TypeOK, TextInv, [Next]_vars PROVE TextInv'
  OBVIOUS
<1>1. /\ LineInv /\ BlockInv /\ BlockReadInv /\ CommaInv /\ NoneBegins
      /\ LineCommentsBlank /\ BlockCommentsBlank /\ TailCommasBlank
  BY DEF TextInv
<1>2. NoneBegins'
  BY <1>1, GoneStep
<1>3. /\ Len(given) \in Nat /\ text \in Seq(Chars)
      /\ \A k \in 1..Len(given) : given[k] \in Seq(Chars)
  BY Shapes
<1>4. /\ step = "line" => Len(given) = 1
      /\ step = "block" => Len(given) = 2
      /\ step = "comma" => Len(given) = 3
  BY DEF TypeOK
<1>5. CASE LineComment \/ NoLineComment
  <2>1. step = "line" /\ Len(given) = 1
    BY <1>4, <1>5 DEF LineComment, NoLineComment
  <2>2. LineInv'
    BY <1>1, <1>5, LineStep
  <2>3. CASE step' = step
    <3>1. Len(given') = 1
      BY <2>1, <2>3, NextType DEF TypeOK
    <3>2. BlockInv' /\ BlockReadInv' /\ CommaInv' /\ TailCommasBlank'
      BY <2>1, <2>3 DEF BlockInv, BlockReadInv, CommaInv, TailCommasBlank
    <3>3. LineCommentsBlank' /\ BlockCommentsBlank'
      BY <2>1, <2>3, <3>1 DEF LineCommentsBlank, BlockCommentsBlank
    <3>4. QED
      BY <1>2, <2>2, <3>2, <3>3 DEF TextInv
  <2>4. CASE step' # step
    <3>1. /\ step' = "block" /\ at' = 1
          /\ given'[2] = text' /\ text' = Blanked(given'[1], LineComments(given'[1]))
          /\ text' \in Seq(Chars) /\ Len(given') = 2
      BY <1>1, <1>5, <2>4, LineStep
    <3>2. BlockInv' /\ CommaInv' /\ TailCommasBlank'
      BY <3>1 DEF BlockInv, CommaInv, TailCommasBlank
    <3>3. LineCommentsBlank' /\ BlockCommentsBlank'
      BY <3>1 DEF LineCommentsBlank, BlockCommentsBlank
    <3>4. BlockReadInv'
      <4>1. text' = Blanked(text', {i \in BlockComments(text') : i < 1})
        BY <3>1, NothingBlanked DEF BlockComments
      <4>2. Reader(text')[1 - 1] = "text"
        BY <3>1, ReaderReads
      <4> QED
        BY <3>1, <4>1, <4>2 DEF BlockReadInv
    <3>5. QED
      BY <1>2, <2>2, <3>2, <3>3, <3>4 DEF TextInv
  <2>5. QED
    BY <2>3, <2>4
(* A step that hands the text on leaves the histories before it alone. *)
<1>6. ASSUME NEW to, HandOn(to), text' = text, Len(given) >= 2
      PROVE  /\ step' = to /\ at' = 1 /\ LineCommentsBlank'
             /\ \A k \in 1..Len(given) : given'[k] = given[k]
             /\ given'[Len(given) + 1] = text'
  <2>1. /\ step' = to /\ at' = 1
        /\ \A k \in 1..Len(given) : given'[k] = given[k]
        /\ given'[Len(given) + 1] = text'
    BY <1>3, <1>6, HandedOn
  <2>2. 1 \in 1..Len(given) /\ 2 \in 1..Len(given)
    BY <1>3, <1>6
  <2>3. given'[1] = given[1] /\ given'[2] = given[2]
    BY <2>1, <2>2
  <2>4. given[2] = Blanked(given[1], LineComments(given[1]))
    BY <1>1, <1>6 DEF LineCommentsBlank
  <2>5. LineCommentsBlank'
    BY <2>3, <2>4 DEF LineCommentsBlank
  <2>6. QED
    BY <2>1, <2>5
<1>7. CASE BlockComment
  <2>1. BlockInv'
    BY <1>1, <1>7, BlockStep
  <2>2. step = "block" /\ step' = step /\ given' = given
    BY <1>7 DEF BlockComment
  <2>3. LineInv' /\ CommaInv' /\ TailCommasBlank'
    BY <2>2 DEF LineInv, CommaInv, TailCommasBlank
  <2>4. LineCommentsBlank' /\ BlockCommentsBlank'
    BY <1>1, <2>2 DEF LineCommentsBlank, BlockCommentsBlank
  <2>5. BlockReadInv'
    BY <1>1, <1>7, BlockReadStep
  <2>6. QED
    BY <1>2, <2>1, <2>3, <2>4, <2>5 DEF TextInv
<1>8. CASE BlockCommentOpen
  <2>1. /\ step = "block" /\ step' = "failed" /\ given' = given /\ Len(given) = 2
        /\ Places(BlockCommentBegin, at) # {}
        /\ Ends(First(Places(BlockCommentBegin, at))) = {}
    BY <1>4, <1>8 DEF BlockCommentOpen
  <2>2. LineInv' /\ BlockInv' /\ BlockReadInv' /\ CommaInv' /\ TailCommasBlank'
    BY <2>1 DEF LineInv, BlockInv, BlockReadInv, CommaInv, TailCommasBlank
  <2>3. LineCommentsBlank'
    BY <1>1, <2>1 DEF LineCommentsBlank
  <2>4. BlockCommentsBlank'
    BY <1>1, <2>1, BlockLeftOpen DEF BlockCommentsBlank
  <2>5. QED
    BY <1>2, <2>2, <2>3, <2>4 DEF TextInv
<1>9. CASE NoBlockComment
  <2>1. /\ step = "block" /\ text' = text /\ HandOn("comma") /\ Len(given) = 2
        /\ Places(BlockCommentBegin, at) = {}
    BY <1>4, <1>9 DEF NoBlockComment
  <2>2. /\ step' = "comma" /\ at' = 1 /\ LineCommentsBlank'
        /\ \A k \in 1..Len(given) : given'[k] = given[k]
        /\ given'[Len(given) + 1] = text'
    BY <1>6, <2>1
  <2>3. given'[3] = text' /\ given'[2] = given[2]
    BY <2>1, <2>2
  <2>4. text' = Blanked(text', {i \in TailCommas(text') : i < 1})
    BY <1>3, <2>1, NothingBlanked DEF TailCommas
  <2>5. CommaInv'
    BY <2>2, <2>3, <2>4 DEF CommaInv
  <2>6. LineInv' /\ BlockInv' /\ BlockReadInv' /\ TailCommasBlank'
    BY <2>2 DEF LineInv, BlockInv, BlockReadInv, TailCommasBlank
  <2>7. BlockCommentsBlank'
    <3>1. ~Unclosed(given[2]) /\ text = Blanked(given[2], BlockComments(given[2]))
      BY <1>1, <2>1, BlocksOver
    <3> QED
      BY <2>1, <2>2, <2>3, <3>1 DEF BlockCommentsBlank
  <2>8. QED
    BY <1>2, <2>2, <2>5, <2>6, <2>7 DEF TextInv
<1>10. CASE TailComma
  <2>1. CommaInv'
    BY <1>1, <1>10, CommaStep
  <2>2. step = "comma" /\ step' = step /\ given' = given
    BY <1>10 DEF TailComma
  <2>3. LineInv' /\ BlockInv' /\ BlockReadInv' /\ TailCommasBlank'
    BY <2>2 DEF LineInv, BlockInv, BlockReadInv, TailCommasBlank
  <2>4. LineCommentsBlank' /\ BlockCommentsBlank'
    BY <1>1, <2>2 DEF LineCommentsBlank, BlockCommentsBlank
  <2>5. QED
    BY <1>2, <2>1, <2>3, <2>4 DEF TextInv
<1>11. CASE NoComma
  <2>1. /\ step = "comma" /\ text' = text /\ HandOn("done") /\ Len(given) = 3
        /\ Places(<<Comma>>, at) = {}
    BY <1>4, <1>11 DEF NoComma
  <2>2. /\ step' = "done" /\ LineCommentsBlank' /\ \A k \in 1..Len(given) : given'[k] = given[k]
    BY <1>6, <2>1
  <2>3. given'[3] = given[3] /\ given'[2] = given[2]
    BY <2>1, <2>2
  <2>4. text' = Blanked(given'[3], TailCommas(given'[3]))
    BY <1>1, <2>1, <2>3, CommasOver
  <2>5. LineInv' /\ BlockInv' /\ BlockReadInv' /\ CommaInv' /\ TailCommasBlank'
    BY <2>2, <2>4 DEF LineInv, BlockInv, BlockReadInv, CommaInv, TailCommasBlank
  <2>6. BlockCommentsBlank'
    BY <1>1, <2>1, <2>2, <2>3 DEF BlockCommentsBlank
  <2>7. QED
    BY <1>2, <2>2, <2>5, <2>6 DEF TextInv
<1>12. CASE UNCHANGED vars
  <2>1. step' = step /\ text' = text /\ at' = at /\ given' = given
    BY <1>12 DEF vars
  <2>2. LineInv' /\ BlockInv' /\ BlockReadInv' /\ CommaInv'
    BY <1>1, <2>1 DEF LineInv, BlockInv, BlockReadInv, CommaInv
  <2>3. LineCommentsBlank' /\ BlockCommentsBlank' /\ TailCommasBlank'
    BY <1>1, <2>1 DEF LineCommentsBlank, BlockCommentsBlank, TailCommasBlank
  <2>4. QED
    BY <1>2, <2>2, <2>3 DEF TextInv
<1>13. QED
  BY <1>5, <1>7, <1>8, <1>9, <1>10, <1>11, <1>12 DEF Next

LEMMA TextInvariant == Spec => [](TypeOK /\ TextInv)
<1>1. Init => TypeOK /\ TextInv
  BY InitType, InitText
<1>2. (TypeOK /\ TextInv) /\ [Next]_vars => (TypeOK /\ TextInv)'
  BY NextType, NextText
<1>3. QED
  BY <1>1, <1>2, PTL DEF Spec

(* fillLineComment blanks the line comments of any text, and nothing else. *)
THEOREM LineCommentsAreBlank == Spec => []LineCommentsBlank
<1>1. TypeOK /\ TextInv => LineCommentsBlank
  BY DEF TextInv
<1>2. QED
  BY <1>1, TextInvariant, PTL

(* fillBlockComment blanks what a reader of single characters takes for    *)
(* block comments in any text, and nothing else; it fails exactly on the   *)
(* texts that end inside one.                                              *)
THEOREM BlockCommentsAreBlank == Spec => []BlockCommentsBlank
<1>1. TypeOK /\ TextInv => BlockCommentsBlank
  BY DEF TextInv
<1>2. QED
  BY <1>1, TextInvariant, PTL

(* fillTailComma blanks the tail commas of any text, and nothing else.     *)
THEOREM TailCommasAreBlank == Spec => []TailCommasBlank
<1>1. TypeOK /\ TextInv => TailCommasBlank
  BY DEF TextInv
<1>2. QED
  BY <1>1, TextInvariant, PTL

(* In the text that is parsed, no comment begins. *)
THEOREM CommentsAreGone == Spec => []CommentsGone
<1>1. TypeOK /\ TextInv => CommentsGone
  <2>1. SUFFICES ASSUME TypeOK, TextInv PROVE CommentsGone
    OBVIOUS
  <2>2. DOMAIN text = 1..Len(text)
    BY <2>1, LenProperties DEF TypeOK
  <2>3. QED
    BY <2>1, <2>2 DEF TextInv, NoneBegins, CommentsGone
<1>2. QED
  BY <1>1, TextInvariant, PTL
=============================================================================
