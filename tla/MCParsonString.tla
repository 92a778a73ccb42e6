----------------------------- MODULE MCParsonString -----------------------------
(* An instance of ParsonString for TLC: the numbers of escapes lie around  *)
(* each bound of parse_utf16.                                              *)
EXTENDS ParsonString

Unit(chars, means) == [chars |-> chars, means |-> means]

Numbers ==
  {0, 65, 127, 128, 2047, 2048, 55295, 55296, 56319, 56320, 57343, 57344, 65535}

(* A letter, a comma, a letter of two bytes, three short escapes, and the  *)
(* numbers; a control character, an unknown escape, two without digits.    *)
AllUnits ==
  {Unit(<<120>>, 120), Unit(<<Comma>>, Comma), Unit(<<195, 169>>, 233),
   Unit(<<Backslash, 110>>, 10), Unit(<<Backslash, Quote>>, Quote),
   Unit(<<Backslash, Backslash>>, Backslash),
   Unit(<<9>>, Bad), Unit(<<Backslash, 120>>, Bad), Unit(<<Backslash, LetterU, 120>>, Bad),
   Unit(<<Backslash, LetterU, Quote>>, Bad)}
  \cup {Unit(<<Backslash, LetterU, Hex + n>>, n) : n \in Numbers}
=============================================================================
