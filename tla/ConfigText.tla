------------------------------ MODULE ConfigText ------------------------------
(***************************************************************************)
(* The filters that parseConfigFile of src/tktusbmanager/config/config.c   *)
(* passes the text of the configuration through before it is parsed:       *)
(* fillLineComment, fillBlockComment and fillTailComma, which overwrite    *)
(* with spaces what JSON does not allow.  One action is one iteration of   *)
(* the loop of one filter; the NUL that ends the text is the place behind  *)
(* its last character.                                                     *)
(***************************************************************************)
EXTENDS Integers, Sequences

CONSTANTS
  Chars,      (* the characters of the texts considered                    *)
  MaxLength   (* bound: the length of a text                               *)

Space == " "
Comma == ","
EndLine == "\n"
LineCommentBegin == <<"/", "/">>
BlockCommentBegin == <<"/", "*">>
BlockCommentEnd == <<"*", "/">>
EndJson == {"]", "}"}

(* What isspace accepts; VT stands for the vertical tab, which has no      *)
(* escape here.                                                            *)
Spaces == {Space, EndLine, "\t", "\r", "\f", "VT"}

ASSUME TextAssumption == Space \in Chars /\ MaxLength \in Nat

VARIABLES
  step,       (* the filter that runs, or how parseConfigFile goes on      *)
  text,       (* the contents, without their NUL                           *)
  at,         (* contentsPtr: the place the filter looks on from           *)
  given       (* history: the text as each filter so far was given it      *)

vars == <<step, text, at, given>>

-----------------------------------------------------------------------------
(* The string p begins at place i of s. *)
BeginsAt(s, i, p) ==
  i + Len(p) - 1 <= Len(s) /\ \A k \in 1..Len(p) : s[i + k - 1] = p[k]

(* strstr and strchr from a place on: all the places they could stop at,   *)
(* of which they take the first.                                           *)
Places(p, from) == {i \in from..Len(text) : BeginsAt(text, i, p)}
First(places) == CHOOSE i \in places : \A j \in places : i <= j

End == Len(text) + 1

(* memset to SPACE: s with a space in each of the places. *)
Blanked(s, places) == [i \in DOMAIN s |-> IF i \in places THEN Space ELSE s[i]]

Init ==
  /\ step = "line"
  /\ text \in UNION {[1..n -> Chars] : n \in 0..MaxLength}
  /\ at = 1
  /\ given = <<text>>

(* A filter is through, and the next one begins at the first character. *)
HandOn(to) ==
  /\ step' = to
  /\ at' = 1
  /\ given' = Append(given, text')

-----------------------------------------------------------------------------
(* Mutants: the end of the line goes with the comment; a comment that no   *)
(* line ends is left; the search goes on behind the end of the text.       *)
LineCommentWithEnd ==
  /\ step = "line"
  /\ Places(LineCommentBegin, at) # {}
  /\ LET begin == First(Places(LineCommentBegin, at))
         end == First(Places(<<EndLine>>, begin + 2) \cup {End})
     IN /\ text' = Blanked(text, begin..end)
        /\ IF end = End THEN HandOn("block")
           ELSE step' = step /\ at' = end + 1 /\ given' = given

LineCommentLeft ==
  /\ step = "line"
  /\ Places(LineCommentBegin, at) # {}
  /\ LET begin == First(Places(LineCommentBegin, at))
         end == First(Places(<<EndLine>>, begin + 2) \cup {End})
     IN IF end = End THEN text' = text /\ HandOn("block")
        ELSE text' = Blanked(text, begin..(end - 1)) /\ step' = step /\ at' = end + 1 /\ given' = given

LineCommentPastEnd ==
  /\ step = "line"
  /\ Places(LineCommentBegin, at) # {}
  /\ LET begin == First(Places(LineCommentBegin, at))
         end == First(Places(<<EndLine>>, begin + 2) \cup {End})
     IN text' = Blanked(text, begin..(end - 1)) /\ at' = end + 1
  /\ UNCHANGED <<step, given>>

(* fillLineComment: a comment ends before the end of its line, or with the *)
(* text.                                                                   *)
LineComment ==
  /\ step = "line"
  /\ Places(LineCommentBegin, at) # {}
  /\ LET begin == First(Places(LineCommentBegin, at))
         end == First(Places(<<EndLine>>, begin + 2) \cup {End})
     IN /\ text' = Blanked(text, begin..(end - 1))
        /\ IF end = End THEN HandOn("block")
           ELSE step' = step /\ at' = end + 1 /\ given' = given

NoLineComment ==
  /\ step = "line"
  /\ Places(LineCommentBegin, at) = {}
  /\ text' = text
  /\ HandOn("block")

(* Mutant: the star that begins a comment may end it.                      *)
EndsOverlapping(begin) == Places(BlockCommentEnd, begin + 1)

(* Where the end of the block comment that begins there may be. *)
Ends(begin) == Places(BlockCommentEnd, begin + 2)

(* fillBlockComment: a comment with no end makes the text no configuration. *)
BlockComment ==
  /\ step = "block"
  /\ Places(BlockCommentBegin, at) # {}
  /\ LET begin == First(Places(BlockCommentBegin, at))
         end == First(Ends(begin)) + 2
     IN /\ Ends(begin) # {}
        /\ text' = Blanked(text, begin..(end - 1))
        /\ at' = end
  /\ UNCHANGED <<step, given>>

BlockCommentOpen ==
  /\ step = "block"
  /\ Places(BlockCommentBegin, at) # {}
  /\ Ends(First(Places(BlockCommentBegin, at))) = {}
  /\ step' = "failed"
  /\ UNCHANGED <<text, at, given>>

NoBlockComment ==
  /\ step = "block"
  /\ Places(BlockCommentBegin, at) = {}
  /\ text' = text
  /\ HandOn("comma")

(* Mutant: spaces behind the comma are not skipped. *)
BehindComma(comma) == comma + 1

(* The first place behind a comma that is no space. *)
Behind(comma) == First({i \in (comma + 1)..Len(text) : text[i] \notin Spaces} \cup {End})

(* Mutant: contentsPtr is left at the comma. *)
TailCommaAgain ==
  /\ step = "comma"
  /\ Places(<<Comma>>, at) # {}
  /\ LET comma == First(Places(<<Comma>>, at)) IN
     /\ text' = IF Behind(comma) # End /\ text[Behind(comma)] \in EndJson
                THEN Blanked(text, {comma}) ELSE text
     /\ at' = comma
  /\ UNCHANGED <<step, given>>

(* fillTailComma. *)
TailComma ==
  /\ step = "comma"
  /\ Places(<<Comma>>, at) # {}
  /\ LET comma == First(Places(<<Comma>>, at)) IN
     /\ text' = IF Behind(comma) # End /\ text[Behind(comma)] \in EndJson
                THEN Blanked(text, {comma}) ELSE text
     /\ at' = Behind(comma)
  /\ UNCHANGED <<step, given>>

NoComma ==
  /\ step = "comma"
  /\ Places(<<Comma>>, at) = {}
  /\ text' = text
  /\ HandOn("done")

Next ==
  \/ LineComment \/ NoLineComment
  \/ BlockComment \/ BlockCommentOpen \/ NoBlockComment
  \/ TailComma \/ NoComma

Spec == Init /\ [][Next]_vars

(* The thread that loads the configuration runs on. *)
FairSpec == Spec /\ WF_vars(Next)
-----------------------------------------------------------------------------
(* Every variable has its type: above all, contentsPtr never gets past the *)
(* NUL, and the text keeps its length.                                     *)
TypeOK ==
  /\ step \in {"line", "block", "comma", "done", "failed"}
  /\ text \in Seq(Chars)
  /\ at \in 1..End
  /\ given \in Seq(Seq(Chars))
  /\ step = "line" => Len(given) = 1
  /\ step \in {"block", "failed"} => Len(given) = 2
  /\ step = "comma" => Len(given) = 3
  /\ step = "done" => Len(given) = 4
  /\ \A k \in DOMAIN given : Len(given[k]) = Len(text)

(* The places of s in a line comment: two slashes somewhere before them on *)
(* their line.                                                             *)
LineComments(s) ==
  {i \in DOMAIN s : \E b \in 1..i :
     BeginsAt(s, b, LineCommentBegin) /\ \A j \in b..i : s[j] # EndLine}

(* fillLineComment blanks the line comments, and changes nothing else.     *)
LineCommentsBlank ==
  Len(given) >= 2 => given[2] = Blanked(given[1], LineComments(given[1]))

(* A reader of texts, one character at a time: "text" outside of comments, *)
(* "slash" behind a slash there, "opened" at the star of an opening,       *)
(* "inside" a comment, "star" behind a star in it, "closed" at its last    *)
(* slash.                                                                  *)
Reads(before, c) ==
  CASE before = "slash" /\ c = "*" -> "opened"
    [] before \in {"text", "closed", "slash"} /\ c = "/" -> "slash"
    [] before = "star" /\ c = "/" -> "closed"
    [] before \in {"opened", "inside", "star"} /\ c = "*" -> "star"
    [] \/ before \in {"opened", "inside"} /\ c # "*"
       \/ before = "star" /\ c \notin {"*", "/"} -> "inside"
    [] OTHER -> "text"

(* How the reader stands behind each character of s. *)
Reader(s) ==
  LET f[i \in 0..Len(s)] == IF i = 0 THEN "text" ELSE Reads(f[i - 1], s[i]) IN f

BlockComments(s) ==
  {i \in DOMAIN s :
     \/ Reader(s)[i] \in {"opened", "inside", "star", "closed"}
     \/ i < Len(s) /\ Reader(s)[i + 1] = "opened"}

Unclosed(s) == Reader(s)[Len(s)] \in {"opened", "inside", "star"}

(* fillBlockComment blanks what a reader of single characters takes for    *)
(* block comments, and nothing else; it fails exactly when that reader     *)
(* ends inside one.                                                        *)
BlockCommentsBlank ==
  /\ Len(given) >= 3 =>
       ~Unclosed(given[2]) /\ given[3] = Blanked(given[2], BlockComments(given[2]))
  /\ step = "failed" => Unclosed(given[2])

(* The commas of s with nothing but spaces between them and a closing      *)
(* bracket.                                                                *)
TailCommas(s) ==
  {i \in DOMAIN s : s[i] = Comma /\ \E n \in (i + 1)..Len(s) :
     s[n] \in EndJson /\ \A j \in (i + 1)..(n - 1) : s[j] \in Spaces}

(* fillTailComma blanks the tail commas, and nothing else.                 *)
TailCommasBlank ==
  step = "done" => text = Blanked(given[3], TailCommas(given[3]))

(* What is parsed begins no comment: no filter puts together what another  *)
(* one has taken apart.                                                    *)
CommentsGone ==
  step \in {"comma", "done"} =>
    \A i \in DOMAIN text :
      ~BeginsAt(text, i, LineCommentBegin) /\ ~BeginsAt(text, i, BlockCommentBegin)

(* The loops, none of which has a condition, end on every text.            *)
FiltersEnd == <>(step \in {"done", "failed"})
=============================================================================
