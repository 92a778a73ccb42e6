------------------------------ MODULE ParsonString ------------------------------
(***************************************************************************)
(* get_quoted_string of src/parson/parson.c: skip_quotes finds the closing *)
(* quote, and process_string copies what is between, one character or      *)
(* escape at a time, into a block as long as the input.  Escapes of UTF-16 *)
(* become UTF-8, a pair of surrogates one sequence of four bytes.          *)
(*                                                                         *)
(* A text is made of units, each with what it means.  Characters are bytes *)
(* but for the four hexadecimal digits of an escape, which are one element *)
(* of the text here: Hex + their value.                                    *)
(***************************************************************************)
EXTENDS Integers, Sequences, FiniteSets, SequencesExt

CONSTANTS
  Units,         (* [chars, means]: a piece of text, and the code point or *)
                 (* the surrogate it stands for, or Bad                    *)
  MaxUnits       (* bound: the units of a text                             *)

(* The elements of a text are characters and digits of an escape. *)
ASSUME UnitsAssumption == \A unit \in Units : unit.chars \in Seq(Nat)
ASSUME MaxUnitsAssumption == MaxUnits \in Nat

VARIABLES
  step,          (* the loop that runs                                     *)
  units,         (* the text as its units                                  *)
  text,          (* the text                                               *)
  at,            (* *string of skip_quotes, input_ptr of process_string    *)
  close,         (* the place of the closing quote                         *)
  output         (* the bytes between output and output_ptr                *)

vars == <<step, units, text, at, close, output>>

-----------------------------------------------------------------------------
Hex == 65536
Quote == 34
Backslash == 92
LetterU == 117
NUL == 0
Comma == 44

Bad == -1

(* The characters an element of the text stands for. *)
Width(c) == IF c >= Hex THEN 4 ELSE 1

(* Lengths(s)[i]: the characters that the first i elements of s stand for. *)
Lengths(s) ==
  LET f[i \in 0..Len(s)] == IF i = 0 THEN 0 ELSE f[i - 1] + Width(s[i]) IN f

(* The characters between string_start and place i, the quote left out. *)
LengthTo(i) == Lengths(text)[i - 1] - Lengths(text)[1]

(* INPUT_STRING_LEN. *)
InputLength == LengthTo(close)

(* The characters behind a backslash, other than u, and what they become.  *)
Escaped ==
  [c \in {Quote, Backslash, 47, 98, 102, 110, 114, 116} |->
     CASE c = 98  -> 8
       [] c = 102 -> 12
       [] c = 110 -> 10
       [] c = 114 -> 13
       [] c = 116 -> 9
       [] OTHER   -> c]

Lead(u) == u \in 55296..56319
Trail(u) == u \in 56320..57343

(* The code point of a pair. *)
PointOfPair(lead, trail) == 1024 * ((lead - 55296) % 1024) + ((trail - 56320) % 1024) + 65536

(* Six bits of cp, those from k on, as a byte that continues a sequence.   *)
Rest(cp, k) == ((cp \div k) % 64) + 128

(* Mutant: < 0x7FF for < 0x800. *)
BytesOff(cp) ==
  IF cp < 128 THEN <<cp>>
  ELSE IF cp < 2047 THEN <<((cp \div 64) % 32) + 192, Rest(cp, 1)>>
  ELSE IF cp < Hex THEN <<((cp \div 4096) % 16) + 224, Rest(cp, 64), Rest(cp, 1)>>
  ELSE <<((cp \div 262144) % 8) + 240, Rest(cp, 4096), Rest(cp, 64), Rest(cp, 1)>>

(* The bytes parse_utf16 writes for a code point. *)
Bytes(cp) ==
  IF cp < 128 THEN <<cp>>
  ELSE IF cp < 2048 THEN <<((cp \div 64) % 32) + 192, Rest(cp, 1)>>
  ELSE IF cp < Hex THEN <<((cp \div 4096) % 16) + 224, Rest(cp, 64), Rest(cp, 1)>>
  ELSE <<((cp \div 262144) % 8) + 240, Rest(cp, 4096), Rest(cp, 64), Rest(cp, 1)>>

(* parse_utf16_hex of the four characters at i: there, and what they are.  *)
IsHex(i) == i <= Len(text) /\ text[i] >= Hex
HexAt(i) == text[i] - Hex

-----------------------------------------------------------------------------
(* What is between the quotes, as its units. *)
Inside == FlattenSeq([i \in DOMAIN units |-> units[i].chars])

Init ==
  /\ step = "open"
  /\ units \in UNION {[1..n -> Units] : n \in 0..MaxUnits}
  /\ \E first \in {Quote, 120},
        last \in {<<Quote, Comma, NUL>>, <<NUL>>, <<Backslash, Quote, NUL>>} :
       text = <<first>> \o Inside \o last
  /\ at = 1
  /\ close = 0
  /\ output = <<>>

Fails ==
  /\ step' = "failed"
  /\ UNCHANGED <<units, text, at, close, output>>

(* skip_quotes. *)
OpeningQuote ==
  /\ step = "open"
  /\ text[at] = Quote
  /\ step' = "skip"
  /\ at' = at + 1
  /\ UNCHANGED <<units, text, close, output>>

NoQuote ==
  /\ step = "open"
  /\ text[at] # Quote
  /\ Fails

Skip ==
  /\ step = "skip"
  /\ text[at] \notin {Quote, Backslash, NUL}
  /\ at' = at + 1
  /\ UNCHANGED <<step, units, text, close, output>>

(* Mutant: only the backslash is skipped. *)
SkipBackslash ==
  /\ step = "skip"
  /\ text[at] = Backslash /\ text[at + 1] # NUL
  /\ at' = at + 1
  /\ UNCHANGED <<step, units, text, close, output>>

SkipEscaped ==
  /\ step = "skip"
  /\ text[at] = Backslash /\ text[at + 1] # NUL
  /\ at' = at + 2
  /\ UNCHANGED <<step, units, text, close, output>>

NotClosed ==
  /\ step = "skip"
  /\ text[at] = NUL \/ (text[at] = Backslash /\ text[at + 1] = NUL)
  /\ Fails

ClosingQuote ==
  /\ step = "skip"
  /\ text[at] = Quote
  /\ step' = "copy"
  /\ close' = at
  /\ at' = 2
  /\ UNCHANGED <<units, text, output>>

(* One iteration of process_string writes bytes and goes past n elements.  *)
Copies(bytes, n) ==
  /\ output' = output \o bytes
  /\ at' = at + n
  /\ UNCHANGED <<step, units, text, close>>

InString == step = "copy" /\ at < close
AtEscape == InString /\ text[at] = Backslash

CopyPlain ==
  /\ InString
  /\ text[at] # Backslash /\ text[at] >= 32
  /\ Copies(<<text[at]>>, 1)

(* Mutant: characters are compared as signed ones. *)
ControlSigned ==
  /\ InString
  /\ text[at] < 32 \/ text[at] >= 128
  /\ Fails

ControlCharacter ==
  /\ InString
  /\ text[at] < 32
  /\ Fails

CopyEscaped ==
  /\ AtEscape
  /\ text[at + 1] \in DOMAIN Escaped
  /\ Copies(<<Escaped[text[at + 1]]>>, 2)

BadEscape ==
  /\ AtEscape
  /\ text[at + 1] \notin DOMAIN Escaped \cup {LetterU}
  /\ Fails

AtUtf16 == AtEscape /\ text[at + 1] = LetterU

CopyUtf16 ==
  /\ AtUtf16
  /\ IsHex(at + 2)
  /\ ~Lead(HexAt(at + 2)) /\ ~Trail(HexAt(at + 2))
  /\ Copies(Bytes(HexAt(at + 2)), 3)

(* A lead has to be followed by the escape of a trail. *)
TrailFollows ==
  /\ text[at + 3] = Backslash
  /\ text[at + 4] = LetterU
  /\ IsHex(at + 5)
  /\ Trail(HexAt(at + 5))

CopyPair ==
  /\ AtUtf16
  /\ IsHex(at + 2)
  /\ Lead(HexAt(at + 2))
  /\ TrailFollows
  /\ Copies(Bytes(PointOfPair(HexAt(at + 2), HexAt(at + 5))), 6)

BadUtf16 ==
  /\ AtUtf16
  /\ \/ ~IsHex(at + 2)
     \/ Trail(HexAt(at + 2))
     \/ Lead(HexAt(at + 2)) /\ ~TrailFollows
  /\ Fails

Copied ==
  /\ step = "copy"
  /\ at >= close
  /\ step' = "done"
  /\ UNCHANGED <<units, text, at, close, output>>

Next ==
  \/ OpeningQuote \/ NoQuote \/ Skip \/ SkipEscaped \/ NotClosed \/ ClosingQuote
  \/ CopyPlain \/ ControlCharacter \/ CopyEscaped \/ BadEscape
  \/ CopyUtf16 \/ CopyPair \/ BadUtf16 \/ Copied

Spec == Init /\ [][Next]_vars
-----------------------------------------------------------------------------
(* The reference.  UTF-8 read back: a sequence begins at each byte that is *)
(* no continuation and says how long it is; it has to be the shortest of   *)
(* its code point.                                                         *)
Continues(b) == b \in 128..191
Begins(s) == {i \in DOMAIN s : ~Continues(s[i])}

SequenceLength(b) == IF b < 192 THEN 1 ELSE IF b < 224 THEN 2 ELSE IF b < 240 THEN 3 ELSE 4

PointAt(s, i) ==
  LET n      == SequenceLength(s[i])
      Six(k) == s[i + k] - 128
  IN  IF n = 1 THEN s[i]
      ELSE IF n = 2 THEN 64 * (s[i] - 192) + Six(1)
      ELSE IF n = 3 THEN 4096 * (s[i] - 224) + 64 * Six(1) + Six(2)
      ELSE 262144 * (s[i] - 240) + 4096 * Six(1) + 64 * Six(2) + Six(3)

Shortest(p) == IF p < 128 THEN 1 ELSE IF p < 2048 THEN 2 ELSE IF p < Hex THEN 3 ELSE 4

WellFormed(s) ==
  /\ s # <<>> => 1 \in Begins(s)
  /\ \A i \in Begins(s) :
       LET n == SequenceLength(s[i])
       IN  /\ i + n - 1 \in DOMAIN s
           /\ \A j \in (i + 1)..(i + n - 1) : Continues(s[j])
           /\ i + n \in Begins(s) \cup {Len(s) + 1}
           /\ Shortest(PointAt(s, i)) = n

Decoded(s) ==
  FlattenSeq([i \in DOMAIN s |-> IF i \in Begins(s) THEN <<PointAt(s, i)>> ELSE <<>>])

(* What a unit can be: a character, a short escape, a number; or it is bad *)
(* for what it begins with, a control character, a backslash with nothing  *)
(* that it could escape, or one with u and no digits.                      *)
IsPlain(unit) ==
  /\ \A i \in DOMAIN unit.chars : unit.chars[i] \in 32..255 \ {Quote, Backslash}
  /\ WellFormed(unit.chars) /\ Decoded(unit.chars) = <<unit.means>>
  /\ unit.means \in Nat /\ ~Lead(unit.means) /\ ~Trail(unit.means)

ShortEscapes ==
  {<<Quote, Quote>>, <<Backslash, Backslash>>, <<47, 47>>,
   <<98, 8>>, <<102, 12>>, <<110, 10>>, <<114, 13>>, <<116, 9>>}

IsShort(unit) ==
  \E e \in ShortEscapes : unit.chars = <<Backslash, e[1]>> /\ unit.means = e[2]

IsNumber(unit) ==
  /\ unit.means \in 0..(Hex - 1)
  /\ unit.chars = <<Backslash, LetterU, Hex + unit.means>>

IsBad(unit) ==
  LET chars == unit.chars
  IN  /\ unit.means = Bad
      /\ \/ Len(chars) >= 1 /\ chars[1] \in 1..31
         \/ /\ Len(chars) >= 2 /\ chars[1] = Backslash
            /\ chars[2] \in 1..255 \ {LetterU}
            /\ \A e \in ShortEscapes : chars[2] # e[1]
         \/ /\ Len(chars) >= 3 /\ chars[1] = Backslash /\ chars[2] = LetterU
            /\ chars[3] \in 1..255

ASSUME MeansAssumption ==
  \A unit \in Units : IsPlain(unit) \/ IsShort(unit) \/ IsNumber(unit) \/ IsBad(unit)

(* Units are good when each lead is followed by a trail and each trail     *)
(* follows a lead; a pair of them means one code point.                    *)
Means(i) == units[i].means

Good ==
  \A i \in DOMAIN units :
    /\ Means(i) # Bad
    /\ Lead(Means(i)) => i + 1 \in DOMAIN units /\ Trail(Means(i + 1))
    /\ Trail(Means(i)) => i - 1 \in DOMAIN units /\ Lead(Means(i - 1))

Points(i) ==
  IF Lead(Means(i)) THEN <<>>
  ELSE IF Trail(Means(i))
       THEN <<Hex + 1024 * (Means(i - 1) - 55296) + (Means(i) - 56320)>>
       ELSE <<Means(i)>>

CodePoints == FlattenSeq([i \in DOMAIN units |-> Points(i)])

Quoted == text = <<Quote>> \o Inside \o <<Quote, Comma, NUL>>

-----------------------------------------------------------------------------
(* process_string stops at the closing quote that skip_quotes has found:   *)
(* no escape takes input_ptr past it, and what is written is no longer     *)
(* than what is read, so that it stays in a block of the input's length    *)
(* with the closing NUL.                                                   *)
StaysInside ==
  step \in {"copy", "done"} =>
    /\ at <= close /\ text[close] = Quote
    /\ Len(output) <= LengthTo(at)
    /\ Len(output) <= InputLength

(* A string that is accepted is well-formed, and its bytes are UTF-8, in   *)
(* the shortest form, for the code points it means: pairs of surrogates    *)
(* are put together, and none is left alone.                               *)
MeansWhatItSays ==
  step = "done" =>
    /\ Quoted /\ Good
    /\ WellFormed(output)
    /\ Decoded(output) = CodePoints

(* A string is refused only for a missing quote, or for a unit that is bad *)
(* itself or half a pair.                                                  *)
RefusesTheBad ==
  step = "failed" => ~Quoted \/ ~Good
=============================================================================
