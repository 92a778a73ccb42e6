------------------------------ MODULE ParsonParse ------------------------------
(***************************************************************************)
(* json_parse_string of src/parson/parson.c, and json_value_free: a        *)
(* recursive descent that builds values out of blocks of the kernel's      *)
(* memory.  Any allocation may fail at any depth, and each error path      *)
(* frees by hand what its function holds.                                  *)
(*                                                                         *)
(* The text is a sequence of tokens, drawn one by one as the parser gets   *)
(* to them; white space is left out.  A string is one token, and so is a   *)
(* literal: strings themselves are the subject of ParsonString.  The hash  *)
(* table of an object is the subject of ParsonObject, which shows that its *)
(* seven tables come and go together: they are one block here.             *)
(***************************************************************************)
EXTENDS Integers, Sequences, FiniteSets, FiniteSetsExt, SequencesExt

CONSTANTS
  Scalars,           (* numbers, true, false and null                      *)
  Strings,           (* strings that get_quoted_string accepts             *)
  NulStrings,        (* those of them with a NUL inside                    *)
  Broken,            (* tokens that begin no value, bad strings and        *)
                     (* numbers out of range                               *)
  StartingCapacity,  (* STARTING_CAPACITY                                  *)
  MaxNesting,        (* MAX_NESTING                                        *)
  MaxTokens          (* bound: the tokens of the text                      *)

VARIABLES
  text,          (* the tokens up to *string, and the one there            *)
  stack,         (* the calls of parse_object_value and parse_array_value  *)
                 (* under way, innermost first                             *)
  mode,          (* where the innermost call, or json_parse_string, stands *)
  ret,           (* what the last call returned                            *)
  blocks,        (* live blocks                                            *)
  short,         (* history: an allocation has failed                      *)
  wildFree       (* history: a block was freed that was not live           *)

vars == <<text, stack, mode, ret, blocks, short, wildFree>>

-----------------------------------------------------------------------------
End == "end of text"
Minus == "-"
Brackets == {"{", "}", "[", "]"}
Tokens == Brackets \cup {":", ",", Minus} \cup Scalars \cup Strings \cup NulStrings \cup Broken

(* A token is of one kind, that of the characters it begins with. *)
ASSUME TokensAssumption ==
  /\ (Scalars \cup Strings \cup NulStrings) \cap (Brackets \cup {":", ",", Minus, End}) = {}
  /\ Broken \cap (Scalars \cup Strings \cup NulStrings \cup Brackets \cup {":", ",", Minus, End}) = {}
  /\ Strings \cap NulStrings = {}

ASSUME BoundsAssumption == MaxTokens \in Nat \ {0} /\ MaxNesting \in Nat

Ahead == text[Len(text)]

(* SKIP_CHAR, strtol and the like: the token at *string is passed over.    *)
Consume ==
  \E t \in (IF Len(text) < MaxTokens THEN Tokens ELSE {}) \cup {End} : text' = Append(text, t)

(* A JSON_Value: its block, the block of its characters, object or array,  *)
(* the tables in that one, and its items, of which the parser looks again  *)
(* only at the names.  What they mean is kept with their names; their      *)
(* blocks and those of the names are below, in the order in which they are *)
(* freed; and bare says whether an array among them has never grown.       *)
Value(kind, id, inner) ==
  [kind |-> kind, id |-> id, inner |-> inner, capacity |-> 0, tables |-> <<>>,
   items |-> <<>>, below |-> <<>>, bare |-> FALSE]
NULL == Value("error", 0, 0)

Meant(kind, items) == [kind |-> kind, items |-> items]
Meaning(v) == Meant(v.kind, v.items)

Item(n, m) == [name |-> n, value |-> m]
NoKey == [name |-> "", id |-> 0]

(* The k ids the kernel hands out next, at most two.  Which they are tells *)
(* nothing: ids are only ever freed.                                       *)
NewId(used) == CHOOSE id \in 1..(Cardinality(used) + 1) : id \notin used
Fresh(k) ==
  LET first == NewId(blocks)
  IN  SubSeq(<<first, NewId(blocks \cup {first})>>, 1, k)

(* The allocation of new, and the parson_free of each of freed in turn. *)
AllocAndFree(new, freed) ==
  /\ blocks' = (blocks \cup new) \ Range(freed)
  /\ wildFree' = (wildFree \/ ~IsInjective(freed) \/ ~(Range(freed) \subseteq blocks \cup new))

(* What json_value_free frees, with json_object_free, json_object_deinit   *)
(* and json_array_free under it: the items with their names, the tables,   *)
(* and the two blocks.  There is no block 0.                               *)
Block(id) == IF id = 0 THEN <<>> ELSE <<id>>
Owned(v) == v.below \o v.tables \o Block(v.inner) \o Block(v.id)

(* json_array_make leaves itemIdsId and itemsId unset: an array that has   *)
(* not grown is freed with whatever ids its block held before.             *)
NeverGrown(v) == v.kind = "array" /\ v.tables = <<>>
HasNeverGrown(v) == NeverGrown(v) \/ v.bare

(* Such ids may be another block's, and then nothing more can be said, or  *)
(* no block's, which does nothing.                                         *)
Strays ==
  /\ mode' = "undefined"
  /\ UNCHANGED <<text, stack, ret, blocks, wildFree>>

-----------------------------------------------------------------------------
Init ==
  /\ text \in {<<t>> : t \in Tokens \cup {End}}
  /\ stack = <<>>
  /\ mode = "value"
  /\ ret = NULL
  /\ blocks = {}
  /\ short = FALSE
  /\ wildFree = FALSE

Returns(v) == mode' = "return" /\ ret' = v

Top == Head(stack)
SetTop(frame) == stack' = <<frame>> \o Tail(stack)

(* parse_value that allocates nothing: nested too deep, or at no value.    *)
ParseNothing ==
  /\ mode = "value"
  /\ \/ Len(stack) > MaxNesting
     \/ Ahead \in Broken \cup {"}", "]", ":", ",", End}
  /\ Returns(NULL)
  /\ UNCHANGED <<text, stack, blocks, short, wildFree>>

AtValue(tokens) ==
  /\ mode = "value"
  /\ Len(stack) <= MaxNesting
  /\ Ahead \in tokens

(* parse_boolean_value, parse_null_value and parse_number_value. *)
ParseScalar ==
  /\ AtValue(Scalars)
  /\ Returns(Value(Ahead, Fresh(1)[1], 0))
  /\ AllocAndFree({Fresh(1)[1]}, <<>>)
  /\ Consume
  /\ UNCHANGED <<stack, short>>

(* strtol finds no digits behind the sign: it returns 0 and passes over    *)
(* nothing, which is no error.                                             *)
ParseMinus ==
  /\ AtValue({Minus})
  /\ Returns(Value("0", Fresh(1)[1], 0))
  /\ AllocAndFree({Fresh(1)[1]}, <<>>)
  /\ UNCHANGED <<text, stack, short>>

ScalarFails ==
  /\ AtValue(Scalars \cup {Minus})
  /\ Returns(NULL)
  /\ short' = TRUE
  /\ UNCHANGED <<text, stack, blocks, wildFree>>

(* process_string works in one block, copies the result to another that    *)
(* fits, and frees the first; parse_string_value adds that of the value.   *)
ParseString ==
  /\ AtValue(Strings \cup NulStrings)
  /\ LET output == Fresh(2)[1]
         chars  == Fresh(2)[2]
     IN  /\ Returns(Value(Ahead, output, chars))
         /\ AllocAndFree({output, chars}, <<>>)
  /\ Consume
  /\ UNCHANGED <<stack, short>>

(* The allocation behind the first got of a string fails. *)
StringFails ==
  /\ AtValue(Strings \cup NulStrings)
  /\ \E got \in 0..2 : AllocAndFree(Range(Fresh(got)), Fresh(got))
  /\ Returns(NULL)
  /\ short' = TRUE
  /\ UNCHANGED <<text, stack>>

-----------------------------------------------------------------------------
(* parse_object_value and parse_array_value begin: json_value_init_object  *)
(* or json_value_init_array.                                               *)
Open ==
  /\ AtValue({"{", "["})
  /\ LET kind == IF Ahead = "{" THEN "object" ELSE "array"
     IN  stack' = <<[value |-> Value(kind, Fresh(2)[1], Fresh(2)[2]), key |-> NoKey]>> \o stack
  /\ AllocAndFree(Range(Fresh(2)), <<>>)
  /\ Consume
  /\ mode' = "first"
  /\ UNCHANGED <<ret, short>>

(* Without a block for the object or the array, that of the value goes. *)
OpenFails ==
  /\ AtValue({"{", "["})
  /\ \E got \in 0..1 : AllocAndFree(Range(Fresh(got)), Fresh(got))
  /\ Returns(NULL)
  /\ short' = TRUE
  /\ UNCHANGED <<text, stack>>

InObject == stack # <<>> /\ Top.value.kind = "object"
InArray == stack # <<>> /\ Top.value.kind = "array"

Close ==
  /\ stack' = Tail(stack)
  /\ Consume

(* An empty object or array. *)
CloseEmpty ==
  /\ mode = "first"
  /\ Ahead = IF InObject THEN "}" ELSE "]"
  /\ Close
  /\ Returns(Top.value)
  /\ UNCHANGED <<blocks, short, wildFree>>

First ==
  /\ mode = "first"
  /\ Ahead # IF InObject THEN "}" ELSE "]"
  /\ mode' = IF InObject THEN "key" ELSE "value"
  /\ UNCHANGED <<text, stack, ret, blocks, short, wildFree>>

(* The error paths of the innermost call: it frees ids it has allocated    *)
(* and not yet given away, and then its value.                             *)
GivesUp(new, ids) ==
  \/ /\ AllocAndFree(new, ids \o Owned(Top.value))
     /\ stack' = Tail(stack)
     /\ Returns(NULL)
     /\ UNCHANGED text
  \/ /\ HasNeverGrown(Top.value)
     /\ Strays

(* Mutant: a key that cannot be used is forgotten. *)
KeyForgotten(key) == <<>>

(* The parson_free of a key on an error path. *)
KeyFreed(key) == <<key>>

Key ==
  /\ mode = "key"
  /\ Ahead \in Strings
  /\ SetTop([Top EXCEPT !.key = [name |-> Ahead, id |-> Fresh(2)[2]]])
  /\ AllocAndFree(Range(Fresh(2)), <<Fresh(2)[1]>>)
  /\ Consume
  /\ mode' = "colon"
  /\ UNCHANGED <<ret, short>>

NoKeyThere ==
  /\ mode = "key"
  /\ Ahead \notin Strings \cup NulStrings
  /\ GivesUp({}, <<>>)
  /\ UNCHANGED short

KeyWithNul ==
  /\ mode = "key"
  /\ Ahead \in NulStrings
  /\ GivesUp(Range(Fresh(2)), <<Fresh(2)[1]>> \o KeyFreed(Fresh(2)[2]))
  /\ UNCHANGED short

KeyFails ==
  /\ mode = "key"
  /\ Ahead \in Strings \cup NulStrings
  /\ \E got \in 0..1 : GivesUp(Range(Fresh(got)), Fresh(got))
  /\ short' = TRUE

Colon ==
  /\ mode = "colon"
  /\ Ahead = ":"
  /\ Consume
  /\ mode' = "value"
  /\ UNCHANGED <<stack, ret, blocks, short, wildFree>>

NoColon ==
  /\ mode = "colon"
  /\ Ahead # ":"
  /\ GivesUp({}, KeyFreed(Top.key.id))
  /\ UNCHANGED short

-----------------------------------------------------------------------------
(* A value has returned to an object. *)
(* Mutant: the answer of json_object_get_cell_ix is not looked at. *)
HoldsNothing(object, n) == FALSE

Holds(object, n) == \E i \in DOMAIN object.items : object.items[i].name = n
ObjectIsFull(object) == Len(object.items) >= (7 * object.capacity) \div 10
Doubled(capacity) == IF capacity = 0 THEN StartingCapacity ELSE 2 * capacity

(* The container with v as one more item, whose blocks it takes over. *)
Extended(container, n, id, v, tables, capacity) ==
  [container EXCEPT !.items = Append(@, Item(n, Meaning(v))),
                    !.below = @ \o Block(id) \o Owned(v),
                    !.bare = @ \/ HasNeverGrown(v),
                    !.tables = tables,
                    !.capacity = capacity]

Add(container, n, id, tables, capacity) ==
  /\ SetTop([value |-> Extended(container, n, id, ret, tables, capacity), key |-> NoKey])
  /\ mode' = "after"
  /\ UNCHANGED <<text, ret, short>>

Returned == mode = "return" /\ ret # NULL

ObjectAdd ==
  /\ Returned /\ InObject
  /\ ~Holds(Top.value, Top.key.name)
  /\ ~ObjectIsFull(Top.value)
  /\ Add(Top.value, Top.key.name, Top.key.id, Top.value.tables, Top.value.capacity)
  /\ UNCHANGED <<blocks, wildFree>>

ObjectAddGrows ==
  /\ Returned /\ InObject
  /\ ~Holds(Top.value, Top.key.name)
  /\ ObjectIsFull(Top.value)
  /\ Add(Top.value, Top.key.name, Top.key.id, Fresh(1), Doubled(Top.value.capacity))
  /\ AllocAndFree(Range(Fresh(1)), Top.value.tables)

(* json_object_add fails: the name is there already, or the object cannot  *)
(* grow.                                                                   *)
ObjectAddFails ==
  /\ Returned /\ InObject
  /\ \/ Holds(Top.value, Top.key.name) /\ UNCHANGED short
     \/ ~Holds(Top.value, Top.key.name) /\ ObjectIsFull(Top.value) /\ short' = TRUE
  /\ \/ GivesUp({}, KeyFreed(Top.key.id) \o Owned(ret))
     \/ HasNeverGrown(ret) /\ Strays

(* No value has returned. *)
ObjectGivesUp ==
  /\ mode = "return" /\ ret = NULL /\ InObject
  /\ GivesUp({}, KeyFreed(Top.key.id))
  /\ UNCHANGED short

(* json_array_add, with room. *)
ArrayAdd ==
  /\ Returned /\ InArray
  /\ Len(Top.value.items) < Top.value.capacity
  /\ Add(Top.value, "", 0, Top.value.tables, Top.value.capacity)
  /\ UNCHANGED <<blocks, wildFree>>

(* json_array_resize to a new capacity, which frees the ids there were. *)
ArrayAddGrows ==
  /\ Returned /\ InArray
  /\ Len(Top.value.items) >= Top.value.capacity
  /\ \/ /\ Add(Top.value, "", 0, Fresh(2), Doubled(Top.value.capacity))
        /\ AllocAndFree(Range(Fresh(2)), Top.value.tables)
     \/ /\ NeverGrown(Top.value)
        /\ Strays
        /\ UNCHANGED short

ArrayAddFails ==
  /\ Returned /\ InArray
  /\ Len(Top.value.items) >= Top.value.capacity
  /\ \/ \E got \in 0..1 : GivesUp(Range(Fresh(got)), Fresh(got) \o Owned(ret))
     \/ HasNeverGrown(ret) /\ Strays
  /\ short' = TRUE

ArrayGivesUp ==
  /\ mode = "return" /\ ret = NULL /\ InArray
  /\ GivesUp({}, <<>>)
  /\ UNCHANGED short

-----------------------------------------------------------------------------
(* Behind an item: another one, a comma and the end, or the end. *)
Comma ==
  /\ mode = "after"
  /\ Ahead = ","
  /\ Consume
  /\ mode' = "next"
  /\ UNCHANGED <<stack, ret, blocks, short, wildFree>>

NextItem ==
  /\ mode = "next"
  /\ Ahead # IF InObject THEN "}" ELSE "]"
  /\ mode' = IF InObject THEN "key" ELSE "value"
  /\ UNCHANGED <<text, stack, ret, blocks, short, wildFree>>

AtEnd(bracket) == mode \in {"after", "next"} /\ Ahead = bracket

CloseObject ==
  /\ InObject /\ AtEnd("}")
  /\ Close
  /\ Returns(Top.value)
  /\ UNCHANGED <<blocks, short, wildFree>>

(* An array is trimmed to its count. *)
CloseArray ==
  /\ InArray /\ AtEnd("]")
  /\ AllocAndFree(Range(Fresh(2)), Top.value.tables)
  /\ Close
  /\ Returns([Top.value EXCEPT !.tables = Fresh(2), !.capacity = Len(Top.value.items)])
  /\ UNCHANGED short

TrimFails ==
  /\ InArray /\ AtEnd("]")
  /\ \E got \in 0..1 : GivesUp(Range(Fresh(got)), Fresh(got))
  /\ short' = TRUE

NotClosed ==
  /\ mode = "after"
  /\ Ahead \notin {",", IF InObject THEN "}" ELSE "]"}
  /\ GivesUp({}, <<>>)
  /\ UNCHANGED short

(* json_parse_string returns what parse_value did; the rest of the text is *)
(* nobody's business.                                                      *)
Finish ==
  /\ mode = "return" /\ stack = <<>>
  /\ mode' = IF ret = NULL THEN "failed" ELSE "parsed"
  /\ UNCHANGED <<text, stack, ret, blocks, short, wildFree>>

(* json_value_free of the root. *)
FreeRoot ==
  /\ mode = "parsed"
  /\ \/ /\ AllocAndFree({}, Owned(ret))
        /\ mode' = "freed"
        /\ UNCHANGED <<text, stack, ret, short>>
     \/ /\ HasNeverGrown(ret)
        /\ Strays
        /\ UNCHANGED short

-----------------------------------------------------------------------------
Next ==
  \/ ParseNothing \/ ParseScalar \/ ParseMinus \/ ScalarFails \/ ParseString \/ StringFails
  \/ Open \/ OpenFails \/ CloseEmpty \/ First
  \/ Key \/ NoKeyThere \/ KeyWithNul \/ KeyFails \/ Colon \/ NoColon
  \/ ObjectAdd \/ ObjectAddGrows \/ ObjectAddFails \/ ObjectGivesUp
  \/ ArrayAdd \/ ArrayAddGrows \/ ArrayAddFails \/ ArrayGivesUp
  \/ Comma \/ NextItem \/ CloseObject \/ CloseArray \/ TrimFails \/ NotClosed
  \/ Finish \/ FreeRoot

Spec == Init /\ [][Next]_vars
-----------------------------------------------------------------------------
(* The reference: the phrases of n tokens, each with what it means, made   *)
(* from the shorter ones in g.  A list is what is inside of an array or an *)
(* object: a comma may follow the last item.  But for that comma, this is  *)
(* JSON.                                                                   *)
Phrase(s, m) == [text |-> s, meaning |-> m]
Empty == Phrase(<<>>, <<>>)
Distinct(items) ==
  \A i, j \in DOMAIN items : items[i].name = items[j].name => i = j

Singles == {Phrase(<<t>>, Meant(t, <<>>)) : t \in Scalars \cup Strings \cup NulStrings}

Enclosed(open, kind, insides, close) ==
  {Phrase(<<open>> \o p.text \o <<close>>, Meant(kind, p.meaning)) : p \in insides}

Containers(lists) ==
  Enclosed("[", "array", lists.array, "]")
    \cup Enclosed("{", "object", {p \in lists.object : Distinct(p.meaning)}, "}")

Element(p) == Phrase(p.text, <<Item("", p.meaning)>>)
Member(s, p) == Phrase(<<s, ":">> \o p.text, <<Item(s, p.meaning)>>)

Elements(values) == {Element(p) : p \in values}
Members(values) == {Member(s, p) : s \in Strings, p \in values}

(* An item and a comma before a list. *)
Behind(p, q) == Phrase(p.text \o <<",">> \o q.text, p.meaning \o q.meaning)
Pairs(entries, lists) == {Behind(p, q) : p \in entries, q \in lists}

ListsOf(entries, lists, n) ==
  {p \in {Empty} : n = 0} \cup entries[n]
    \cup UNION {Pairs(entries[k], lists[n - k - 1]) : k \in 0..(n - 1)}

Phrases(g, n) ==
  LET value  == {p \in Singles : n = 1} \cup (IF n < 2 THEN {} ELSE Containers(g[n - 2]))
      values == [k \in 0..n |-> IF k < n THEN g[k].value ELSE value]
  IN  [value  |-> value,
       array  |-> ListsOf([k \in 0..n |-> Elements(values[k])],
                          [k \in 0..(n - 1) |-> g[k].array], n),
       object |-> ListsOf([k \in 0..n |-> IF k < 2 THEN {} ELSE Members(values[k - 2])],
                          [k \in 0..(n - 1) |-> g[k].object], n)]

(* The phrases of up to n tokens, by their length. *)
Grammar[n \in Nat] ==
  LET g == IF n = 0 THEN <<>> ELSE Grammar[n - 1]
  IN  [k \in 0..n |-> IF k < n THEN g[k] ELSE Phrases(g, n)]

(* How many arrays and objects the first i tokens of s leave open.         *)
Opened(s, i) ==
  Cardinality({j \in 1..i : s[j] \in {"[", "{"}}) - Cardinality({j \in 1..i : s[j] \in {"]", "}"}})

Shallow(s) == \A i \in DOMAIN s : s[i] \in {"]", "}"} \/ Opened(s, i - 1) <= MaxNesting

Sentences == {p \in UNION {Grammar[MaxTokens][n].value : n \in 0..MaxTokens} : Shallow(p.text)}
SentenceTexts == {p.text : p \in Sentences}
Beginnings == UNION {Prefixes(s) : s \in SentenceTexts}

Consumed == Front(text)

-----------------------------------------------------------------------------
(* Whatever is wrong with the text, and whichever allocation fails at      *)
(* whatever depth, a parse that fails gives back all it has allocated, one *)
(* that succeeds just what json_value_free gives back later, and neither   *)
(* frees a block twice or one it does not hold: as long as no unset id of  *)
(* an array has named a live block.                                        *)
NothingLeft ==
  /\ mode # "undefined" => ~wildFree
  /\ mode \in {"failed", "freed"} => blocks = {}
  /\ mode = "parsed" => blocks = Range(Owned(ret))

(* Unless memory runs short, the parser accepts what begins with a value   *)
(* of the grammar, and builds what that means; and it refuses only what    *)
(* neither begins with a value nor can be continued to one.  The one       *)
(* exception is a sign without digits, which is read as 0.                 *)
ParsesGrammar ==
  /\ mode = "parsed" =>
       Phrase(Consumed, Meaning(ret)) \in Sentences \/ text = <<Minus>>
  /\ mode = "failed" /\ ~short =>
       /\ text \notin Beginnings
       /\ \A s \in Prefixes(text) : s \notin SentenceTexts

(* What parson.h:106 says: the first JSON value in a string is parsed, and *)
(* NULL is returned in case of error.  A text that begins with no value of *)
(* the grammar, trailing commas let pass, is an error.                     *)
AcceptsValuesOnly ==
  mode = "parsed" => \E s \in Prefixes(text) : s \in SentenceTexts
=============================================================================
