--------------------------- MODULE ParsonParseProofs ---------------------------
(***************************************************************************)
(* Proofs about ParsonParse, for texts of any length, any nesting and any  *)
(* failures: who holds each live block at each step of the descent, and    *)
(* that nothing is left when it ends; and that the parser accepts what the *)
(* grammar says, builds what that means, and refuses the rest.             *)
(***************************************************************************)
EXTENDS ParsonParse, SequenceTheorems, FiniteSetTheorems, WellFoundedInduction, TLAPS

Ids == Nat \ {0}

(* The members of S, each once. *)
Lists(s, S) == s \in Seq(Ids) /\ IsInjective(s) /\ Range(s) = S

(* The blocks of a value, and those of a call under way, which holds a key *)
(* as well while the value of a member is parsed.                          *)
Of(v) == Range(v.below) \cup Range(v.tables) \cup ({v.inner, v.id} \ {0})
Held(frame) == Of(frame.value) \cup ({frame.key.id} \ {0})

(* A record with the fields of a value. *)
Fields(kind, id, inner, capacity, tables, items, below, bare) ==
  [kind |-> kind, id |-> id, inner |-> inner, capacity |-> capacity,
   tables |-> tables, items |-> items, below |-> below, bare |-> bare]

IsValue(v) ==
  v = Fields(v.kind, v.id, v.inner, v.capacity, v.tables, v.items, v.below, v.bare)

(* No block has two places in a value. *)
ValueOk(v) ==
  /\ IsValue(v)
  /\ v.id \in Nat /\ v.inner \in Nat /\ (v.id = v.inner => v.id = 0)
  /\ Lists(v.below, Range(v.below)) /\ Lists(v.tables, Range(v.tables))
  /\ Range(v.below) \cap Range(v.tables) = {}
  /\ \A id \in {v.id, v.inner} : id \notin Range(v.below) \cup Range(v.tables)

FrameOk(frame) ==
  /\ frame = [value |-> frame.value, key |-> frame.key]
  /\ ValueOk(frame.value)
  /\ frame.value.kind \in {"object", "array"}
  /\ frame.key.id \in Nat
  /\ frame.key.id \notin Of(frame.value)
  /\ frame.value.kind = "array" => frame.key.id = 0

(* A call that waits for a value; an object has a key for it by then.      *)
Awaits(frame) == frame.value.kind = "object" => frame.key.id # 0

(* The calls under way, of which all but the innermost wait. *)
StackOk(calls) ==
  /\ calls \in Seq(Range(calls))
  /\ \A i \in DOMAIN calls : FrameOk(calls[i]) /\ (i > 1 => Awaits(calls[i]))

AllHeld(calls) == UNION {Held(calls[i]) : i \in DOMAIN calls}
Disjoint(calls) == \A i, j \in DOMAIN calls : i # j => Held(calls[i]) \cap Held(calls[j]) = {}

ModeInv ==
  /\ mode \in {"first", "key", "colon", "after", "next"} => stack # <<>>
  /\ mode \in {"parsed", "failed", "freed"} => stack = <<>>
  /\ mode \in {"key", "colon"} => InObject
  /\ stack # <<>> /\ mode \in {"colon", "value", "return"} => Awaits(Top)
  /\ mode \in {"first", "key", "after", "next"} => Top.key.id = 0

(* What json_parse_string, or the call that has just ended, has returned.  *)
Given == IF mode \in {"return", "parsed"} THEN Of(ret) ELSE {}

(* Every live block belongs to just one call, or to the value returned.    *)
BlocksInv ==
  /\ IsFiniteSet(blocks) /\ blocks \subseteq Ids
  /\ mode \in {"return", "parsed"} => ValueOk(ret)
  /\ Disjoint(stack)
  /\ Given \cap AllHeld(stack) = {}
  /\ blocks = Given \cup AllHeld(stack)

ParseInv ==
  /\ ~wildFree
  /\ mode # "undefined" => StackOk(stack) /\ ModeInv /\ BlocksInv

-----------------------------------------------------------------------------
(* Lists of ids, and what is freed by them. *)

LEMMA Nothing == Lists(<<>>, {})
  BY DEF Lists, IsInjective, Range

LEMMA One == ASSUME NEW id \in Ids PROVE Lists(<<id>>, {id})
  BY DEF Lists, IsInjective, Range

LEMMA ZeroIsNone == ASSUME NEW s, NEW S, Lists(s, S) PROVE S \subseteq Ids /\ 0 \notin S
<1>1. \A i \in DOMAIN s : s[i] \in Ids
  BY LenProperties DEF Lists
<1> QED
  BY <1>1 DEF Lists, Range, Ids

LEMMA OfBlock == ASSUME NEW id \in Nat PROVE Lists(Block(id), {id} \ {0})
<1>1. CASE id = 0
  BY <1>1, Nothing DEF Block
<1>2. CASE id # 0
  <2>1. id \in Ids /\ {id} \ {0} = {id}
    BY <1>2 DEF Ids
  <2> QED
    BY <1>2, <2>1, One DEF Block
<1> QED
  BY <1>1, <1>2

LEMMA Joined ==
  ASSUME NEW s, NEW S, NEW t, NEW T, Lists(s, S), Lists(t, T), S \cap T = {}
  PROVE  Lists(s \o t, S \cup T)
<1> DEFINE u == s \o t
<1>1. /\ u \in Seq(Ids) /\ Len(u) = Len(s) + Len(t)
      /\ \A i \in 1..(Len(s) + Len(t)) : u[i] = IF i <= Len(s) THEN s[i] ELSE t[i - Len(s)]
  BY ConcatProperties DEF Lists
<1>2. /\ Len(s) \in Nat /\ DOMAIN s = 1..Len(s)
      /\ Len(t) \in Nat /\ DOMAIN t = 1..Len(t)
      /\ DOMAIN u = 1..(Len(s) + Len(t))
  BY <1>1, LenProperties DEF Lists
<1> HIDE DEF u
<1>3. \A i \in DOMAIN s : i \in DOMAIN u /\ u[i] = s[i] /\ s[i] \in S
  BY <1>1, <1>2 DEF Lists, Range
<1>4. \A i \in DOMAIN t : i + Len(s) \in DOMAIN u /\ u[i + Len(s)] = t[i] /\ t[i] \in T
  BY <1>1, <1>2 DEF Lists, Range
<1>5. ASSUME NEW i \in DOMAIN u
      PROVE  \/ i \in DOMAIN s /\ u[i] = s[i]
             \/ i - Len(s) \in DOMAIN t /\ u[i] = t[i - Len(s)] /\ ~(i <= Len(s))
  BY <1>1, <1>2
<1>6. Range(u) = S \cup T
  <2>1. Range(u) \subseteq S \cup T
    BY <1>3, <1>4, <1>5 DEF Range
  <2>2. S \subseteq Range(u)
    BY <1>3 DEF Lists, Range
  <2>3. T \subseteq Range(u)
    <3>1. \A x \in T : \E i \in DOMAIN t : t[i] = x
      BY DEF Lists, Range
    <3> QED
      BY <1>4, <3>1 DEF Range
  <2> QED
    BY <2>1, <2>2, <2>3
<1>7. IsInjective(u)
  <2>1. SUFFICES ASSUME NEW i \in DOMAIN u, NEW j \in DOMAIN u, u[i] = u[j] PROVE i = j
    BY DEF IsInjective
  <2>2. CASE i \in DOMAIN s /\ j \in DOMAIN s
    BY <1>3, <2>1, <2>2 DEF Lists, IsInjective
  <2>3. CASE i \notin DOMAIN s /\ j \notin DOMAIN s
    <3>1. i - Len(s) = j - Len(s)
      BY <1>5, <2>1, <2>3 DEF Lists, IsInjective
    <3> QED
      BY <1>2, <3>1
  <2>4. CASE i \in DOMAIN s /\ j \notin DOMAIN s
    BY <1>3, <1>4, <1>5, <2>1, <2>4
  <2>5. CASE i \notin DOMAIN s /\ j \in DOMAIN s
    BY <1>3, <1>4, <1>5, <2>1, <2>5
  <2> QED
    BY <2>2, <2>3, <2>4, <2>5
<1> QED
  BY <1>1, <1>6, <1>7 DEF Lists, u

(* json_value_free frees each block of a value once. *)
LEMMA OwnedOnce == ASSUME NEW v, ValueOk(v) PROVE Lists(Owned(v), Of(v))
<1> DEFINE B == Range(v.below)
           T == Range(v.tables)
           I == {v.inner} \ {0}
           D == {v.id} \ {0}
<1>1. /\ Lists(v.below, B) /\ Lists(v.tables, T)
      /\ Lists(Block(v.inner), I) /\ Lists(Block(v.id), D)
  BY OfBlock DEF ValueOk
<1>2. B \cap T = {} /\ (B \cup T) \cap I = {} /\ (B \cup T \cup I) \cap D = {}
  BY DEF ValueOk
<1>3. Of(v) = B \cup T \cup I \cup D
  BY DEF Of
<1> HIDE DEF B, T, I, D
<1>4. Lists(v.below \o v.tables, B \cup T)
  BY <1>1, <1>2, Joined
<1>5. Lists(v.below \o v.tables \o Block(v.inner), B \cup T \cup I)
  BY <1>1, <1>2, <1>4, Joined
<1>6. Lists(v.below \o v.tables \o Block(v.inner) \o Block(v.id), B \cup T \cup I \cup D)
  BY <1>1, <1>2, <1>5, Joined
<1> QED
  BY <1>3, <1>6 DEF Owned

(* Blocks that are live, freed once each, are gone, and no other is.       *)
LEMMA Freed ==
  ASSUME NEW new, NEW freed, NEW F, Lists(freed, F), F \subseteq blocks \cup new,
         ~wildFree, AllocAndFree(new, freed)
  PROVE  blocks' = (blocks \cup new) \ F /\ ~wildFree'
  BY DEF AllocAndFree, Lists

-----------------------------------------------------------------------------
(* The ids that are handed out are new. *)

LEMMA NewIsNew ==
  ASSUME NEW used \in SUBSET Ids, IsFiniteSet(used)
  PROVE  NewId(used) \in Ids /\ NewId(used) \notin used
<1> DEFINE n == Cardinality(used)
<1>1. n \in Nat
  BY FS_CardinalityType
<1>2. \E id \in 1..(n + 1) : id \notin used
  <2>1. SUFFICES ASSUME 1..(n + 1) \subseteq used PROVE FALSE
    OBVIOUS
  <2>2. Cardinality(1..(n + 1)) <= n
    BY <2>1, FS_Subset
  <2>3. Cardinality(1..(n + 1)) = n + 1
    BY <1>1, FS_Interval
  <2> QED
    BY <1>1, <2>2, <2>3
<1>3. NewId(used) \in 1..(n + 1) /\ NewId(used) \notin used
  BY <1>2 DEF NewId
<1> QED
  BY <1>1, <1>3 DEF Ids

LEMMA FreshIsNew ==
  ASSUME IsFiniteSet(blocks), blocks \subseteq Ids, NEW k \in 0..2
  PROVE  /\ Lists(Fresh(k), Range(Fresh(k)))
         /\ Range(Fresh(k)) \subseteq Ids
         /\ Range(Fresh(k)) \cap blocks = {}
         /\ IsFiniteSet(Range(Fresh(k)))
         /\ DOMAIN Fresh(k) = 1..k
         /\ Range(Fresh(k)) = {Fresh(k)[i] : i \in 1..k}
<1> DEFINE a == NewId(blocks)
           b == NewId(blocks \cup {a})
<1>1. a \in Ids /\ a \notin blocks
  BY NewIsNew
<1>2. b \in Ids /\ b \notin blocks /\ b # a
  <2>1. blocks \cup {a} \subseteq Ids /\ IsFiniteSet(blocks \cup {a})
    BY <1>1, FS_AddElement
  <2> QED
    BY <2>1, NewIsNew
<1>3. Fresh(k) = SubSeq(<<a, b>>, 1, k)
  BY DEF Fresh
<1> HIDE DEF a, b
<1>4. Fresh(k) \in Seq({a, b}) /\ Len(Fresh(k)) = k /\ \A i \in 1..k : Fresh(k)[i] = <<a, b>>[i]
  <2>1. \A i \in 1..k : <<a, b>>[i] \in {a, b}
    OBVIOUS
  <2>2. k \in Int
    OBVIOUS
  <2> QED
    BY <1>3, <2>1, <2>2, SubSeqProperties
<1>5. DOMAIN Fresh(k) = 1..k /\ \A i \in 1..k : Fresh(k)[i] = IF i = 1 THEN a ELSE b
  BY <1>4, LenProperties
<1>6. IsInjective(Fresh(k))
  BY <1>2, <1>5 DEF IsInjective
<1>7. Range(Fresh(k)) \subseteq {a, b}
  BY <1>5 DEF Range
<1>8. Fresh(k) \in Seq(Ids)
  BY <1>1, <1>2, <1>4, SeqMonotonic
<1>9. IsFiniteSet(Range(Fresh(k)))
  <2>1. IsFiniteSet({a, b})
    <3>1. {a, b} = {a} \cup {b}
      OBVIOUS
    <3>2. IsFiniteSet({a})
      BY FS_Singleton
    <3> QED
      BY <3>1, <3>2, FS_AddElement
  <2> QED
    BY <1>7, <2>1, FS_Subset
<1>10. Range(Fresh(k)) = {Fresh(k)[i] : i \in 1..k}
  BY <1>5 DEF Range
<1>11. Lists(Fresh(k), Range(Fresh(k)))
  BY <1>6, <1>8 DEF Lists
<1>12. Range(Fresh(k)) \subseteq Ids /\ Range(Fresh(k)) \cap blocks = {}
  BY <1>1, <1>2, <1>7
<1> QED
  BY <1>5, <1>9, <1>10, <1>11, <1>12

LEMMA FreshPair ==
  ASSUME IsFiniteSet(blocks), blocks \subseteq Ids
  PROVE  /\ Fresh(2)[1] \in Ids /\ Fresh(2)[2] \in Ids /\ Fresh(2)[1] # Fresh(2)[2]
         /\ Range(Fresh(2)) = {Fresh(2)[1], Fresh(2)[2]}
         /\ Range(Fresh(2)) \cap blocks = {} /\ IsFiniteSet(Range(Fresh(2)))
<1>1. /\ Lists(Fresh(2), Range(Fresh(2))) /\ Range(Fresh(2)) \subseteq Ids
      /\ Range(Fresh(2)) \cap blocks = {} /\ IsFiniteSet(Range(Fresh(2)))
      /\ Range(Fresh(2)) = {Fresh(2)[i] : i \in 1..2}
      /\ DOMAIN Fresh(2) = 1..2
  BY FreshIsNew
<1>2. 1 \in 1..2 /\ 2 \in 1..2 /\ 1..2 = {1, 2}
  OBVIOUS
<1>3. Range(Fresh(2)) = {Fresh(2)[1], Fresh(2)[2]}
  BY <1>1, <1>2
<1>4. Fresh(2)[1] # Fresh(2)[2]
  BY <1>1, <1>2 DEF Lists, IsInjective
<1> QED
  BY <1>1, <1>3, <1>4

(* An allocation that is freed again leaves what was there. *)
LEMMA GivenBack ==
  ASSUME IsFiniteSet(blocks), blocks \subseteq Ids, ~wildFree, NEW k \in 0..2,
         AllocAndFree(Range(Fresh(k)), Fresh(k))
  PROVE  blocks' = blocks /\ ~wildFree'
<1>1. /\ Lists(Fresh(k), Range(Fresh(k))) /\ Range(Fresh(k)) \cap blocks = {}
  BY FreshIsNew
<1>2. blocks' = (blocks \cup Range(Fresh(k))) \ Range(Fresh(k)) /\ ~wildFree'
  BY <1>1, Freed
<1> QED
  BY <1>1, <1>2

-----------------------------------------------------------------------------
(* The stack of calls. *)

LEMMA OwnRange == ASSUME NEW S, NEW s \in Seq(S) PROVE s \in Seq(Range(s))
<1>1. Len(s) \in Nat /\ s \in [1..Len(s) -> S] /\ DOMAIN s = 1..Len(s)
  BY LenProperties
<1>2. s \in [1..Len(s) -> Range(s)]
  BY <1>1 DEF Range
<1> QED
  BY <1>1, <1>2, SeqDef

LEMMA Pushed ==
  ASSUME NEW frame, NEW calls, calls \in Seq(Range(calls))
  PROVE  LET new == <<frame>> \o calls
         IN  /\ new \in Seq(Range(new))
             /\ new # <<>> /\ Head(new) = frame /\ Tail(new) = calls
             /\ DOMAIN new = 1..(Len(calls) + 1) /\ DOMAIN calls = 1..Len(calls)
             /\ Len(calls) \in Nat
             /\ new[1] = frame /\ \A i \in DOMAIN calls : i + 1 \in DOMAIN new
                  /\ new[i + 1] = calls[i]
<1> DEFINE S == Range(calls) \cup {frame}
           new == <<frame>> \o calls
<1>1. calls \in Seq(S) /\ <<frame>> \in Seq(S)
  BY SeqMonotonic
<1>2. /\ new \in Seq(S) /\ Len(new) = 1 + Len(calls) /\ Len(calls) \in Nat
      /\ \A i \in 1..(1 + Len(calls)) : new[i] = IF i <= 1 THEN <<frame>>[i] ELSE calls[i - 1]
  BY <1>1, ConcatProperties, LenProperties
<1>3. DOMAIN new = 1..(Len(calls) + 1) /\ DOMAIN calls = 1..Len(calls)
  BY <1>1, <1>2, LenProperties
<1>4. new[1] = frame /\ \A i \in DOMAIN calls : i + 1 \in DOMAIN new /\ new[i + 1] = calls[i]
  BY <1>2, <1>3
<1>5. Head(new) = frame /\ new # <<>>
  BY <1>2, <1>4
<1>6. Tail(new) = calls
  BY <1>1, HeadTailProperties, SMT
<1>7. new \in Seq(Range(new))
  BY <1>2, OwnRange
<1> QED
  BY <1>2, <1>3, <1>4, <1>5, <1>6, <1>7

LEMMA PushedHolds ==
  ASSUME NEW frame, NEW calls, calls \in Seq(Range(calls))
  PROVE  /\ AllHeld(<<frame>> \o calls) = Held(frame) \cup AllHeld(calls)
         /\ Disjoint(<<frame>> \o calls) <=> Disjoint(calls) /\ Held(frame) \cap AllHeld(calls) = {}
<1> DEFINE new == <<frame>> \o calls
<1>1. /\ DOMAIN new = 1..(Len(calls) + 1) /\ DOMAIN calls = 1..Len(calls) /\ Len(calls) \in Nat
      /\ new[1] = frame /\ \A i \in DOMAIN calls : i + 1 \in DOMAIN new /\ new[i + 1] = calls[i]
  BY Pushed
<1> HIDE DEF new
<1>2. \A i \in DOMAIN new :
        \/ i = 1 /\ new[i] = frame
        \/ i - 1 \in DOMAIN calls /\ new[i] = calls[i - 1]
  BY <1>1
<1>3. AllHeld(new) = Held(frame) \cup AllHeld(calls)
  <2>1. AllHeld(new) \subseteq Held(frame) \cup AllHeld(calls)
    BY <1>2 DEF AllHeld
  <2>2. Held(frame) \subseteq AllHeld(new)
    <3>1. 1 \in DOMAIN new
      BY <1>1
    <3> QED
      BY <1>1, <3>1 DEF AllHeld
  <2>3. AllHeld(calls) \subseteq AllHeld(new)
    BY <1>1 DEF AllHeld
  <2> QED
    BY <2>1, <2>2, <2>3
<1>4. ASSUME Disjoint(new) PROVE Disjoint(calls) /\ Held(frame) \cap AllHeld(calls) = {}
  <2>1. ASSUME NEW i \in DOMAIN calls, NEW j \in DOMAIN calls, i # j
        PROVE  Held(calls[i]) \cap Held(calls[j]) = {}
    <3>1. i + 1 \in DOMAIN new /\ j + 1 \in DOMAIN new /\ i + 1 # j + 1
      BY <1>1, <2>1
    <3> QED
      BY <1>1, <1>4, <3>1 DEF Disjoint
  <2>2. ASSUME NEW i \in DOMAIN calls PROVE Held(frame) \cap Held(calls[i]) = {}
    <3>1. i + 1 \in DOMAIN new /\ 1 \in DOMAIN new /\ i + 1 # 1
      BY <1>1
    <3> QED
      BY <1>1, <1>4, <3>1 DEF Disjoint
  <2> QED
    BY <2>1, <2>2 DEF Disjoint, AllHeld
<1>5. ASSUME Disjoint(calls), Held(frame) \cap AllHeld(calls) = {} PROVE Disjoint(new)
  <2>1. \A i \in DOMAIN calls : Held(frame) \cap Held(calls[i]) = {}
    BY <1>5 DEF AllHeld
  <2>2. SUFFICES ASSUME NEW i \in DOMAIN new, NEW j \in DOMAIN new, i # j
                 PROVE  Held(new[i]) \cap Held(new[j]) = {}
    BY DEF Disjoint
  <2>3. CASE i = 1
    BY <1>1, <1>2, <2>1, <2>2, <2>3
  <2>4. CASE j = 1
    BY <1>1, <1>2, <2>1, <2>2, <2>4
  <2>5. CASE i # 1 /\ j # 1
    <3>1. i - 1 \in DOMAIN calls /\ j - 1 \in DOMAIN calls /\ i - 1 # j - 1
      BY <1>1, <1>2, <2>2, <2>5
    <3> QED
      BY <1>2, <1>5, <2>5, <3>1 DEF Disjoint
  <2> QED
    BY <2>3, <2>4, <2>5
<1> QED
  BY <1>3, <1>4, <1>5 DEF new

LEMMA PushedOk ==
  ASSUME NEW frame, FrameOk(frame),
         NEW calls, StackOk(calls), calls # <<>> => Awaits(Head(calls))
  PROVE  StackOk(<<frame>> \o calls)
<1> DEFINE new == <<frame>> \o calls
<1>1. /\ new \in Seq(Range(new)) /\ calls \in Seq(Range(calls))
      /\ DOMAIN new = 1..(Len(calls) + 1) /\ DOMAIN calls = 1..Len(calls) /\ Len(calls) \in Nat
      /\ new[1] = frame /\ \A i \in DOMAIN calls : i + 1 \in DOMAIN new /\ new[i + 1] = calls[i]
  BY Pushed DEF StackOk
<1> HIDE DEF new
<1>2. 1 \in DOMAIN calls => calls # <<>> /\ Head(calls) = calls[1]
  BY <1>1
<1>3. ASSUME NEW i \in DOMAIN new PROVE FrameOk(new[i]) /\ (i > 1 => Awaits(new[i]))
  <2>1. CASE i = 1
    BY <1>1, <2>1
  <2>2. CASE i # 1
    <3>1. i - 1 \in DOMAIN calls /\ new[i] = calls[i - 1] /\ (i - 1 > 1 \/ i - 1 = 1)
      BY <1>1, <2>2
    <3>2. FrameOk(calls[i - 1]) /\ (i - 1 > 1 => Awaits(calls[i - 1]))
      BY <3>1 DEF StackOk
    <3> QED
      BY <1>2, <3>1, <3>2
  <2> QED
    BY <2>1, <2>2
<1> QED
  BY <1>1, <1>3 DEF StackOk, new

LEMMA Popped ==
  ASSUME NEW calls, StackOk(calls), calls # <<>>
  PROVE  /\ calls = <<Head(calls)>> \o Tail(calls)
         /\ FrameOk(Head(calls))
         /\ StackOk(Tail(calls))
         /\ Tail(calls) # <<>> => Awaits(Head(Tail(calls)))
<1> DEFINE S == Range(calls)
           rest == Tail(calls)
<1>1. calls \in Seq(S)
  BY DEF StackOk
<1>2. /\ Len(calls) \in Nat /\ Len(calls) > 0 /\ DOMAIN calls = 1..Len(calls)
      /\ Head(calls) = calls[1] /\ Head(calls) \in S
  <2>1. Len(calls) \in Nat \ {0}
    BY <1>1, EmptySeq
  <2> QED
    BY <1>1, <2>1, LenProperties, HeadTailProperties
<1>3. rest \in Seq(S) /\ Len(rest) = Len(calls) - 1 /\ \A i \in 1..Len(rest) :
        rest[i] = calls[i + 1]
  BY <1>1, HeadTailProperties
<1>4. DOMAIN rest = 1..Len(rest)
  BY <1>3, LenProperties
<1> HIDE DEF S, rest
<1>5. calls = <<Head(calls)>> \o rest
  <2>1. <<Head(calls)>> \in Seq(S)
    BY <1>2
  <2> DEFINE u == <<Head(calls)>> \o rest
  <2>2. /\ u \in Seq(S) /\ Len(u) = 1 + Len(rest)
        /\ \A i \in 1..(1 + Len(rest)) : u[i] = IF i <= 1 THEN <<Head(calls)>>[i] ELSE rest[i - 1]
    BY <1>3, <2>1, ConcatProperties
  <2> HIDE DEF u
  <2>3. Len(u) = Len(calls)
    BY <1>2, <1>3, <2>2
  <2>4. \A i \in 1..Len(u) : u[i] = calls[i]
    BY <1>2, <1>3, <2>2, <2>3
  <2>5. u = calls
    BY <1>1, <2>2, <2>3, <2>4, SeqEqual
  <2> QED
    BY <2>5 DEF u
<1>6. FrameOk(Head(calls))
  BY <1>2 DEF StackOk
<1>7. ASSUME NEW i \in DOMAIN rest PROVE FrameOk(rest[i]) /\ Awaits(rest[i])
  <2>1. i + 1 \in DOMAIN calls /\ i + 1 > 1 /\ rest[i] = calls[i + 1]
    BY <1>2, <1>3, <1>4
  <2> QED
    BY <2>1 DEF StackOk
<1>8. StackOk(rest)
  <2>1. rest \in Seq(Range(rest))
    BY <1>3, OwnRange
  <2> QED
    BY <1>7, <2>1 DEF StackOk
<1>9. rest # <<>> => 1 \in DOMAIN rest /\ Head(rest) = rest[1]
  <2>1. rest # <<>> => Len(rest) \in Nat \ {0}
    BY <1>3, EmptySeq
  <2> QED
    BY <1>4, <2>1
<1> QED
  BY <1>5, <1>6, <1>7, <1>8, <1>9 DEF rest

LEMMA TopAndRest ==
  ASSUME StackOk(stack), Disjoint(stack), stack # <<>>
  PROVE  /\ FrameOk(Top) /\ StackOk(Tail(stack)) /\ Disjoint(Tail(stack))
         /\ Tail(stack) # <<>> => Awaits(Head(Tail(stack)))
         /\ AllHeld(stack) = Held(Top) \cup AllHeld(Tail(stack))
         /\ Held(Top) \cap AllHeld(Tail(stack)) = {}
<1>1. /\ stack = <<Top>> \o Tail(stack) /\ FrameOk(Top) /\ StackOk(Tail(stack))
      /\ Tail(stack) # <<>> => Awaits(Head(Tail(stack)))
  BY Popped DEF Top
<1>2. Tail(stack) \in Seq(Range(Tail(stack)))
  BY <1>1 DEF StackOk
<1> DEFINE top == Top
           rest == Tail(stack)
<1>3. stack = <<top>> \o rest /\ rest \in Seq(Range(rest))
  BY <1>1, <1>2
<1> HIDE DEF top, rest
<1>4. /\ AllHeld(<<top>> \o rest) = Held(top) \cup AllHeld(rest)
      /\ Disjoint(<<top>> \o rest) <=> Disjoint(rest) /\ Held(top) \cap AllHeld(rest) = {}
  BY <1>3, PushedHolds
<1>5. /\ AllHeld(stack) = Held(top) \cup AllHeld(rest)
      /\ Disjoint(rest) /\ Held(top) \cap AllHeld(rest) = {}
  BY <1>3, <1>4
<1> QED
  BY <1>1, <1>5 DEF top, rest

LEMMA EmptyStack ==
  /\ StackOk(<<>>) /\ Disjoint(<<>>) /\ AllHeld(<<>>) = {}
<1>1. <<>> \in Seq(Range(<<>>))
  BY EmptySeq
<1> QED
  BY <1>1 DEF StackOk, Disjoint, AllHeld

LEMMA NullHoldsNothing == ValueOk(NULL) /\ Of(NULL) = {}
<1>1. /\ NULL.id = 0 /\ NULL.inner = 0 /\ NULL.below = <<>> /\ NULL.tables = <<>>
      /\ Range(NULL.below) = {} /\ Range(NULL.tables) = {}
      /\ IsValue(NULL)
  BY DEF NULL, Value, Range, IsValue, Fields
<1>2. Lists(NULL.below, Range(NULL.below)) /\ Lists(NULL.tables, Range(NULL.tables))
  BY <1>1, Nothing
<1> QED
  BY <1>1, <1>2 DEF ValueOk, Of

(* A value that has just been made holds its one or two blocks. *)
LEMMA NewValue ==
  ASSUME NEW kind, NEW id \in Ids, NEW inner \in Nat, id # inner
  PROVE  /\ ValueOk(Value(kind, id, inner))
         /\ Of(Value(kind, id, inner)) = {id} \cup ({inner} \ {0})
         /\ Value(kind, id, inner).kind = kind
<1> DEFINE v == Value(kind, id, inner)
<1>1. /\ v.id = id /\ v.inner = inner /\ v.below = <<>> /\ v.tables = <<>> /\ v.kind = kind
      /\ IsValue(v)
  BY DEF Value, IsValue, Fields
<1> HIDE DEF v
<1>2. Range(v.below) = {} /\ Range(v.tables) = {}
  BY <1>1 DEF Range
<1>3. Lists(v.below, Range(v.below)) /\ Lists(v.tables, Range(v.tables))
  BY <1>1, <1>2, Nothing
<1>4. ValueOk(v)
  BY <1>1, <1>2, <1>3 DEF ValueOk, Ids
<1>5. Of(v) = {id} \cup ({inner} \ {0})
  BY <1>1, <1>2 DEF Of, Ids
<1> QED
  BY <1>1, <1>4, <1>5 DEF v

-----------------------------------------------------------------------------
(* The ways a step leaves the descent, whatever it was. *)

(* A call has returned v, and rest are the calls that are still under way. *)
LEMMA Return ==
  ASSUME NEW v, ValueOk(v),
         NEW rest, StackOk(rest), Disjoint(rest), rest # <<>> => Awaits(Head(rest)),
         Of(v) \cap AllHeld(rest) = {},
         stack' = rest, mode' = "return", ret' = v, ~wildFree',
         blocks' = Of(v) \cup AllHeld(rest), IsFiniteSet(blocks'), blocks' \subseteq Ids
  PROVE  ParseInv'
<1>1. StackOk(stack)' /\ Disjoint(stack)'
  OBVIOUS
<1>2. ModeInv'
  BY DEF ModeInv, Top
<1>3. Given' = Of(v)
  BY DEF Given
<1>4. BlocksInv'
  BY <1>1, <1>3 DEF BlocksInv
<1> QED
  BY <1>1, <1>2, <1>4 DEF ParseInv

(* The innermost call goes on, or has just begun, as frame. *)
LEMMA GoOn ==
  ASSUME NEW frame, FrameOk(frame),
         NEW rest, StackOk(rest), Disjoint(rest), rest # <<>> => Awaits(Head(rest)),
         Held(frame) \cap AllHeld(rest) = {},
         stack' = <<frame>> \o rest, ~wildFree',
         mode' \in {"first", "key", "colon", "after", "next", "value"},
         mode' \in {"key", "colon"} => frame.value.kind = "object",
         mode' \in {"colon", "value"} => Awaits(frame),
         mode' \in {"first", "key", "after", "next"} => frame.key.id = 0,
         blocks' = Held(frame) \cup AllHeld(rest), IsFiniteSet(blocks'), blocks' \subseteq Ids
  PROVE  ParseInv'
<1>1. StackOk(stack)'
  BY PushedOk
<1>2. rest \in Seq(Range(rest))
  BY DEF StackOk
<1>3. /\ stack' # <<>> /\ Head(stack') = frame
      /\ AllHeld(stack') = Held(frame) \cup AllHeld(rest)
      /\ Disjoint(stack')
  BY <1>2, Pushed, PushedHolds
<1>4. ModeInv'
  BY <1>3 DEF ModeInv, Top, InObject
<1>5. Given' = {}
  BY DEF Given
<1>6. BlocksInv'
  BY <1>3, <1>5 DEF BlocksInv
<1> QED
  BY <1>1, <1>4, <1>6 DEF ParseInv

(* A call of parse_value returns v, and holds the blocks of v and no other *)
(* that it has allocated.                                                  *)
LEMMA ValueReturns ==
  ASSUME ParseInv, mode = "value", NEW v, Returns(v), ValueOk(v), UNCHANGED stack, ~wildFree',
         Of(v) \cap blocks = {}, Of(v) \subseteq Ids, IsFiniteSet(Of(v)),
           blocks' = blocks \cup Of(v)
  PROVE  ParseInv'
<1>1. /\ StackOk(stack) /\ Disjoint(stack) /\ blocks = AllHeld(stack)
      /\ IsFiniteSet(blocks) /\ blocks \subseteq Ids
  BY DEF ParseInv, BlocksInv, Given
<1>2. stack # <<>> => Awaits(Head(stack))
  BY DEF ParseInv, ModeInv, Top
<1>3. IsFiniteSet(blocks')
  BY <1>1, FS_Union
<1> QED
  BY <1>1, <1>2, <1>3, Return DEF Returns

LEMMA NoValue ==
  ASSUME ParseInv, mode = "value", Returns(NULL), UNCHANGED <<stack, blocks>>, ~wildFree'
  PROVE  ParseInv'
<1>1. ValueOk(NULL) /\ Of(NULL) = {} /\ IsFiniteSet({})
  BY NullHoldsNothing, FS_EmptySet
<1> QED
  BY <1>1, ValueReturns

(* The innermost call ends without a value, once it has freed what it has  *)
(* beside its own: what it was given, its key, and what it has just        *)
(* allocated.                                                              *)
LEMMA GivesUpStep ==
  ASSUME ParseInv, mode # "undefined", stack # <<>>,
         NEW new, new \subseteq Ids, IsFiniteSet(new), new \cap blocks = {},
         NEW ids, Lists(ids, new \cup Given \cup ({Top.key.id} \ {0})),
         GivesUp(new, ids)
  PROVE  ParseInv'
<1> DEFINE rest == Tail(stack)
           F == new \cup Given \cup ({Top.key.id} \ {0})
<1>1. /\ FrameOk(Top) /\ StackOk(rest) /\ Disjoint(rest)
      /\ rest # <<>> => Awaits(Head(rest))
      /\ AllHeld(stack) = Held(Top) \cup AllHeld(rest)
      /\ Held(Top) \cap AllHeld(rest) = {}
  BY TopAndRest DEF ParseInv, BlocksInv
<1>2. /\ IsFiniteSet(blocks) /\ blocks \subseteq Ids /\ ~wildFree
      /\ Given \cap AllHeld(stack) = {} /\ blocks = Given \cup AllHeld(stack)
  BY DEF ParseInv, BlocksInv
<1>3. Lists(Owned(Top.value), Of(Top.value)) /\ Top.key.id \notin Of(Top.value)
  BY <1>1, OwnedOnce DEF FrameOk
<1>4. Held(Top) = Of(Top.value) \cup ({Top.key.id} \ {0})
  BY DEF Held
<1>5. F \cap Of(Top.value) = {} /\ F \cup Of(Top.value) \subseteq blocks \cup new
  BY <1>1, <1>2, <1>3, <1>4
<1>6. Lists(ids \o Owned(Top.value), F \cup Of(Top.value))
  BY <1>3, <1>5, Joined
<1>7. CASE AllocAndFree(new, ids \o Owned(Top.value)) /\ stack' = rest /\ Returns(NULL)
  <2>1. blocks' = (blocks \cup new) \ (F \cup Of(Top.value)) /\ ~wildFree'
    BY <1>2, <1>5, <1>6, <1>7, Freed
  <2>2. blocks' = AllHeld(rest)
    BY <1>1, <1>2, <1>4, <2>1
  <2>3. IsFiniteSet(blocks') /\ blocks' \subseteq Ids
    BY <1>1, <1>2, <2>2, FS_Subset
  <2>4. ValueOk(NULL) /\ Of(NULL) = {}
    BY NullHoldsNothing
  <2> HIDE DEF rest
  <2> QED
    BY <1>1, <1>7, <2>1, <2>2, <2>3, <2>4, Return DEF Returns
<1>8. CASE Strays
  BY <1>2, <1>8 DEF Strays, ParseInv
<1> QED
  BY <1>7, <1>8 DEF GivesUp

(* A value with one field replaced. *)
LEMMA FieldsAre ==
  ASSUME NEW kind, NEW id, NEW inner, NEW capacity, NEW tables, NEW items, NEW below, NEW bare,
         NEW w, w = Fields(kind, id, inner, capacity, tables, items, below, bare)
  PROVE  /\ IsValue(w)
         /\ w.kind = kind /\ w.id = id /\ w.inner = inner /\ w.capacity = capacity
         /\ w.tables = tables /\ w.items = items /\ w.below = below /\ w.bare = bare
<1>1. /\ w.kind = kind /\ w.id = id /\ w.inner = inner /\ w.capacity = capacity
      /\ w.tables = tables /\ w.items = items /\ w.below = below /\ w.bare = bare
  BY SMT DEF Fields
<1> QED
  BY <1>1, SMT DEF IsValue

LEMMA FieldReplaced ==
  ASSUME NEW v, IsValue(v), NEW e
  PROVE  /\ [v EXCEPT !.capacity = e] = Fields(v.kind, v.id, v.inner, e, v.tables, v.items,
              v.below, v.bare)
         /\ [v EXCEPT !.tables = e] = Fields(v.kind, v.id, v.inner, v.capacity, e, v.items,
              v.below, v.bare)
         /\ [v EXCEPT !.items = e] = Fields(v.kind, v.id, v.inner, v.capacity, v.tables, e,
              v.below, v.bare)
         /\ [v EXCEPT !.below = e] = Fields(v.kind, v.id, v.inner, v.capacity, v.tables,
              v.items, e, v.bare)
         /\ [v EXCEPT !.bare = e] = Fields(v.kind, v.id, v.inner, v.capacity, v.tables, v.items,
              v.below, e)
<1>1. [v EXCEPT !.capacity = e] = Fields(v.kind, v.id, v.inner, e, v.tables, v.items, v.below,
        v.bare)
  BY SMTT(30) DEF IsValue, Fields
<1>2. [v EXCEPT !.tables = e] = Fields(v.kind, v.id, v.inner, v.capacity, e, v.items, v.below,
        v.bare)
  BY SMTT(30) DEF IsValue, Fields
<1>3. [v EXCEPT !.items = e] = Fields(v.kind, v.id, v.inner, v.capacity, v.tables, e, v.below,
        v.bare)
  BY SMTT(30) DEF IsValue, Fields
<1>4. [v EXCEPT !.below = e] = Fields(v.kind, v.id, v.inner, v.capacity, v.tables, v.items, e,
        v.bare)
  BY SMTT(30) DEF IsValue, Fields
<1>5. [v EXCEPT !.bare = e] = Fields(v.kind, v.id, v.inner, v.capacity, v.tables, v.items,
        v.below, e)
  BY SMTT(30) DEF IsValue, Fields
<1> QED
  BY <1>1, <1>2, <1>3, <1>4, <1>5

(* A value with other tables: an array that has been trimmed. *)
LEMMA NewTables ==
  ASSUME NEW v, ValueOk(v), NEW tables, NEW capacity,
         Lists(tables, Range(tables)), Range(tables) \cap (Of(v) \ Range(v.tables)) = {},
         NEW w, w = [v EXCEPT !.tables = tables, !.capacity = capacity]
  PROVE  ValueOk(w) /\ Of(w) = (Of(v) \ Range(v.tables)) \cup Range(tables)
<1> DEFINE u == [v EXCEPT !.tables = tables]
<1>1. w = [u EXCEPT !.capacity = capacity]
  OBVIOUS
<1>2. u = Fields(v.kind, v.id, v.inner, v.capacity, tables, v.items, v.below, v.bare)
  BY FieldReplaced DEF ValueOk
<1> HIDE DEF u
<1>3. /\ IsValue(u) /\ u.kind = v.kind /\ u.id = v.id /\ u.inner = v.inner
      /\ u.tables = tables /\ u.below = v.below
  BY <1>2, FieldsAre
<1>4. w = Fields(u.kind, u.id, u.inner, capacity, u.tables, u.items, u.below, u.bare)
  BY <1>1, <1>3, FieldReplaced
<1>5. IsValue(w) /\ w.id = v.id /\ w.inner = v.inner /\ w.tables = tables /\ w.below = v.below
  BY <1>3, <1>4, FieldsAre
<1>6. Range(v.below) \cap Range(v.tables) = {} /\ \A id \in {v.id, v.inner} :
        id \notin Range(v.tables)
  BY DEF ValueOk
<1>7. Of(v) \ Range(v.tables) = Range(v.below) \cup ({v.inner, v.id} \ {0})
  BY <1>6 DEF Of
<1>8. Of(w) = (Of(v) \ Range(v.tables)) \cup Range(tables)
  BY <1>5, <1>7 DEF Of
<1>9. 0 \notin Range(tables)
  BY ZeroIsNone
<1>10. Range(w.below) \cap Range(w.tables) = {}
  BY <1>5, <1>7
<1>11. \A id \in {w.id, w.inner} : id \notin Range(w.below) \cup Range(w.tables)
  BY <1>5, <1>7, <1>9 DEF ValueOk
<1>12. ValueOk(w)
  BY <1>5, <1>10, <1>11 DEF ValueOk
<1> QED
  BY <1>8, <1>12

(* An object or an array with one more item, and its tables, which may be  *)
(* new ones: it takes over the blocks of the name and of the item.         *)
LEMMA ItemAdded ==
  ASSUME NEW c, ValueOk(c), NEW r, ValueOk(r), Of(c) \cap Of(r) = {},
         NEW id \in Nat, id \notin Of(c) \cup Of(r),
         NEW tables, Lists(tables, Range(tables)),
         Range(tables) \cap ((Of(c) \ Range(c.tables)) \cup Of(r) \cup {id}) = {},
         NEW n, NEW capacity, NEW w, w = Extended(c, n, id, r, tables, capacity)
  PROVE  /\ ValueOk(w) /\ w.kind = c.kind
         /\ Of(w) = (Of(c) \ Range(c.tables)) \cup ({id} \ {0}) \cup Of(r) \cup Range(tables)
<1> DEFINE item == Item(n, Meaning(r))
           bare == HasNeverGrown(r)
           w1 == [c EXCEPT !.items = Append(@, item)]
           w2 == [w1 EXCEPT !.below = @ \o Block(id) \o Owned(r)]
           w3 == [w2 EXCEPT !.bare = @ \/ bare]
           w4 == [w3 EXCEPT !.tables = tables]
           w5 == [w4 EXCEPT !.capacity = capacity]
           items == Append(c.items, item)
           added == c.below \o Block(id) \o Owned(r)
           below == w1.below \o Block(id) \o Owned(r)
           flag == w2.bare \/ bare
<1>1. w = w5
  BY DEF Extended
<1> HIDE DEF item, bare
<1>2. w5 = [w4 EXCEPT !.capacity = capacity]
  OBVIOUS
<1>3. w4 = [w3 EXCEPT !.tables = tables]
  OBVIOUS
<1>4. w3 = [w2 EXCEPT !.bare = flag]
  OBVIOUS
<1>5. w2 = [w1 EXCEPT !.below = below]
  OBVIOUS
<1>6. w1 = [c EXCEPT !.items = items]
  OBVIOUS
<1> HIDE DEF w5, w4, w3, w2, w1, flag, items
<1>7. IsValue(c) /\ w1 = Fields(c.kind, c.id, c.inner, c.capacity, c.tables, items, c.below, c.bare)
  BY <1>6, FieldReplaced DEF ValueOk
<1>8. /\ IsValue(w1) /\ w1.kind = c.kind /\ w1.id = c.id /\ w1.inner = c.inner
      /\ w1.tables = c.tables /\ w1.below = c.below
  BY <1>7, FieldsAre
<1>9. below = added
  BY <1>8
<1> HIDE DEF below, added
<1>10. w2 = Fields(w1.kind, w1.id, w1.inner, w1.capacity, w1.tables, w1.items, below, w1.bare)
  BY <1>5, <1>8, FieldReplaced
<1>11. /\ IsValue(w2) /\ w2.kind = c.kind /\ w2.id = c.id /\ w2.inner = c.inner
       /\ w2.tables = c.tables /\ w2.below = added
  BY <1>8, <1>9, <1>10, FieldsAre
<1>12. w3 = Fields(w2.kind, w2.id, w2.inner, w2.capacity, w2.tables, w2.items, w2.below, flag)
  BY <1>4, <1>11, FieldReplaced
<1>13. /\ IsValue(w3) /\ w3.kind = c.kind /\ w3.id = c.id /\ w3.inner = c.inner
       /\ w3.tables = c.tables /\ w3.below = added
  BY <1>11, <1>12, FieldsAre
<1>14. w4 = Fields(w3.kind, w3.id, w3.inner, w3.capacity, tables, w3.items, w3.below, w3.bare)
  BY <1>3, <1>13, FieldReplaced
<1>15. /\ IsValue(w4) /\ w4.kind = c.kind /\ w4.id = c.id /\ w4.inner = c.inner
       /\ w4.tables = tables /\ w4.below = added
  BY <1>13, <1>14, FieldsAre
<1>16. w5 = Fields(w4.kind, w4.id, w4.inner, capacity, w4.tables, w4.items, w4.below, w4.bare)
  BY <1>2, <1>15, FieldReplaced
<1>17. /\ IsValue(w5) /\ w5.kind = c.kind /\ w5.id = c.id /\ w5.inner = c.inner
       /\ w5.tables = tables /\ w5.below = added
  BY <1>15, <1>16, FieldsAre
<1>18. Lists(added, Range(c.below) \cup ({id} \ {0}) \cup Of(r))
  <2>1. Lists(c.below, Range(c.below)) /\ Lists(Block(id), {id} \ {0}) /\ Lists(Owned(r), Of(r))
    BY OfBlock, OwnedOnce DEF ValueOk
  <2>2. Range(c.below) \cap ({id} \ {0}) = {} /\ (Range(c.below) \cup ({id} \ {0})) \cap Of(r) = {}
    BY DEF Of
  <2>3. Lists(c.below \o Block(id), Range(c.below) \cup ({id} \ {0}))
    BY <2>1, <2>2, Joined
  <2> QED
    BY <2>1, <2>2, <2>3, Joined DEF added
<1>19. Range(added) = Range(c.below) \cup ({id} \ {0}) \cup Of(r)
  BY <1>18 DEF Lists
<1>20. /\ Range(c.below) \cap Range(c.tables) = {}
       /\ \A x \in {c.id, c.inner} : x \notin Range(c.below) \cup Range(c.tables)
       /\ c.id \in Nat /\ c.inner \in Nat /\ (c.id = c.inner => c.id = 0)
  BY DEF ValueOk
<1>21. Of(c) \ Range(c.tables) = Range(c.below) \cup ({c.inner, c.id} \ {0})
  BY <1>20 DEF Of
<1>22. Of(w5) = (Of(c) \ Range(c.tables)) \cup ({id} \ {0}) \cup Of(r) \cup Range(tables)
  <2>1. Of(w5) = Range(added) \cup Range(tables) \cup ({c.inner, c.id} \ {0})
    BY <1>17 DEF Of
  <2> QED
    BY <1>19, <1>21, <2>1
<1>23. 0 \notin Range(tables) /\ 0 \notin Range(added)
  BY <1>18, <1>19, ZeroIsNone
<1>24. {c.inner, c.id} \ {0} \subseteq Of(c)
  BY DEF Of
<1>25. Range(added) \cap Range(tables) = {}
  BY <1>19, <1>21
<1>26. ASSUME NEW x \in {c.id, c.inner} PROVE x \notin Range(added) \cup Range(tables)
  <2>1. CASE x = 0
    BY <1>23, <2>1
  <2>2. CASE x # 0
    BY <1>19, <1>20, <1>21, <1>24, <1>26, <2>2
  <2> QED
    BY <2>1, <2>2
<1>27. Lists(added, Range(added)) /\ Lists(tables, Range(tables))
  BY <1>18, <1>19
<1>28. ValueOk(w5)
  BY <1>17, <1>20, <1>25, <1>26, <1>27 DEF ValueOk
<1> QED
  BY <1>1, <1>17, <1>22, <1>28

(* The value returned becomes an item of the innermost call's.             *)
LEMMA AddStep ==
  ASSUME ParseInv, mode = "return", stack # <<>>, ~wildFree',
         NEW n, NEW tables, NEW capacity,
         Lists(tables, Range(tables)), IsFiniteSet(Range(tables)),
         Range(tables) \cap (blocks \ Range(Top.value.tables)) = {},
         blocks' = (blocks \ Range(Top.value.tables)) \cup Range(tables),
         Add(Top.value, n, Top.key.id, tables, capacity)
  PROVE  ParseInv'
<1> DEFINE c == Top.value
           id == Top.key.id
           rest == Tail(stack)
           w == Extended(c, n, id, ret, tables, capacity)
           frame == [value |-> w, key |-> NoKey]
<1>1. /\ FrameOk(Top) /\ StackOk(rest) /\ Disjoint(rest)
      /\ rest # <<>> => Awaits(Head(rest))
      /\ AllHeld(stack) = Held(Top) \cup AllHeld(rest)
      /\ Held(Top) \cap AllHeld(rest) = {}
  BY TopAndRest DEF ParseInv, BlocksInv
<1>2. /\ IsFiniteSet(blocks) /\ blocks \subseteq Ids /\ ValueOk(ret)
      /\ Of(ret) \cap AllHeld(stack) = {} /\ blocks = Of(ret) \cup AllHeld(stack)
  BY DEF ParseInv, BlocksInv, Given
<1>3. /\ ValueOk(c) /\ id \in Nat /\ id \notin Of(c) /\ c.kind \in {"object", "array"}
      /\ Held(Top) = Of(c) \cup ({id} \ {0})
  BY <1>1 DEF FrameOk, Held
<1>4. stack' = <<frame>> \o rest /\ mode' = "after"
  BY DEF Add, SetTop
<1> HIDE DEF w, rest, c, id
<1>5. 0 \notin Range(tables) /\ 0 \notin Of(ret)
  BY <1>2, ZeroIsNone DEF Ids
<1>6. id \notin Of(ret) /\ Of(c) \cap Of(ret) = {}
  BY <1>1, <1>2, <1>3, <1>5
<1>7. Range(c.tables) \subseteq Of(c)
  BY DEF Of
<1>8. blocks = Of(ret) \cup Of(c) \cup ({id} \ {0}) \cup AllHeld(rest)
  BY <1>1, <1>2, <1>3
<1>9. /\ Range(tables) \cap (blocks \ Range(c.tables)) = {}
      /\ blocks' = (blocks \ Range(c.tables)) \cup Range(tables)
  BY DEF c
<1>10. Range(tables) \cap ((Of(c) \ Range(c.tables)) \cup Of(ret) \cup {id}) = {}
  BY <1>3, <1>5, <1>6, <1>7, <1>8, <1>9
<1>11. /\ ValueOk(w) /\ w.kind = c.kind
       /\ Of(w) = (Of(c) \ Range(c.tables)) \cup ({id} \ {0}) \cup Of(ret) \cup Range(tables)
  <2>1. id \notin Of(c) \cup Of(ret) /\ w = Extended(c, n, id, ret, tables, capacity)
    BY <1>3, <1>6 DEF w
  <2> QED
    BY <1>2, <1>3, <1>6, <1>10, <2>1, ItemAdded
<1>12. /\ frame.value = w /\ frame.key.id = 0 /\ frame = [value |-> frame.value, key |-> frame.key]
  BY DEF NoKey
<1> HIDE DEF frame
<1>13. 0 \notin Of(w)
  BY <1>2, <1>5, <1>8, <1>11 DEF Ids
<1>14. FrameOk(frame)
  BY <1>3, <1>11, <1>12, <1>13 DEF FrameOk
<1>15. Held(frame) = Of(w)
  BY <1>12 DEF Held
<1>16. Held(frame) \cap AllHeld(rest) = {}
  BY <1>1, <1>2, <1>3, <1>7, <1>8, <1>9, <1>11, <1>15
<1>17. blocks' = Held(frame) \cup AllHeld(rest)
  BY <1>1, <1>2, <1>3, <1>6, <1>7, <1>8, <1>9, <1>11, <1>15
<1>18. IsFiniteSet(blocks') /\ blocks' \subseteq Ids
  <2>1. IsFiniteSet(blocks \ Range(c.tables))
    BY <1>2, FS_Subset
  <2>2. Range(tables) \subseteq Ids
    BY ZeroIsNone
  <2>3. IsFiniteSet((blocks \ Range(c.tables)) \cup Range(tables))
    BY <2>1, FS_Union
  <2> QED
    BY <1>2, <1>9, <2>2, <2>3
<1>19. mode' \in {"first", "key", "colon", "after", "next", "value"}
  BY <1>4
<1>20. mode' \notin {"key", "colon", "value"}
  BY <1>4
<1> QED
  BY <1>1, <1>4, <1>12, <1>14, <1>16, <1>17, <1>18, <1>19, <1>20, GoOn

(* The innermost call returns its value, with its tables or trimmed ones.  *)
LEMMA CloseStep ==
  ASSUME ParseInv, mode \in {"first", "after", "next"}, ~wildFree',
         NEW v, ValueOk(v), NEW tables, IsFiniteSet(tables), tables \subseteq Ids,
         Of(v) = (Of(Top.value) \ Range(Top.value.tables)) \cup tables,
         tables \cap (blocks \ Range(Top.value.tables)) = {},
         blocks' = (blocks \ Range(Top.value.tables)) \cup tables,
         stack' = Tail(stack), Returns(v)
  PROVE  ParseInv'
<1> DEFINE rest == Tail(stack)
           c == Top.value
<1>1. /\ stack # <<>> /\ Top.key.id = 0
      /\ IsFiniteSet(blocks) /\ blocks \subseteq Ids
      /\ blocks = AllHeld(stack)
  BY DEF ParseInv, ModeInv, BlocksInv, Given
<1>2. /\ FrameOk(Top) /\ StackOk(rest) /\ Disjoint(rest)
      /\ rest # <<>> => Awaits(Head(rest))
      /\ AllHeld(stack) = Held(Top) \cup AllHeld(rest)
      /\ Held(Top) \cap AllHeld(rest) = {}
  BY <1>1, TopAndRest DEF ParseInv, BlocksInv
<1>3. Held(Top) = Of(c) /\ Range(c.tables) \subseteq Of(c)
  BY <1>1 DEF Held, Of
<1> HIDE DEF c, rest
<1>4. Of(v) \cap AllHeld(rest) = {} /\ blocks' = Of(v) \cup AllHeld(rest)
  BY <1>1, <1>2, <1>3 DEF c
<1>5. IsFiniteSet(blocks') /\ blocks' \subseteq Ids
  <2>1. IsFiniteSet(blocks \ Range(c.tables))
    BY <1>1, FS_Subset
  <2> QED
    BY <1>1, <2>1, FS_Union DEF c
<1>6. stack' = rest
  BY DEF rest
<1> QED
  BY <1>2, <1>4, <1>5, <1>6, Return DEF Returns

-----------------------------------------------------------------------------
(* One lemma for the actions of each kind. *)

LEMMA Live ==
  ASSUME ParseInv, mode # "undefined"
  PROVE  /\ ~wildFree /\ IsFiniteSet(blocks) /\ blocks \subseteq Ids
         /\ StackOk(stack) /\ Disjoint(stack)
         /\ stack # <<>> => FrameOk(Top) /\ (InObject \/ InArray)
<1>1. stack # <<>> => FrameOk(Top)
  BY TopAndRest DEF ParseInv, BlocksInv
<1> QED
  BY <1>1 DEF ParseInv, BlocksInv, FrameOk, InObject, InArray

(* parse_value of what is neither an object nor an array. *)
LEMMA ScalarStep ==
  ASSUME ParseInv,
         \/ ParseNothing \/ ParseScalar \/ ParseMinus \/ ScalarFails
         \/ ParseString \/ StringFails \/ OpenFails
  PROVE  ParseInv'
<1>1. mode = "value"
  BY DEF ParseNothing, ParseScalar, ParseMinus, ScalarFails, ParseString, StringFails,
    OpenFails, AtValue
<1>2. ~wildFree /\ IsFiniteSet(blocks) /\ blocks \subseteq Ids
  BY <1>1, Live
<1>3. CASE ParseNothing
  <2>1. Returns(NULL) /\ UNCHANGED <<stack, blocks>> /\ ~wildFree'
    BY <1>2, <1>3 DEF ParseNothing
  <2> QED
    BY <1>1, <2>1, NoValue
<1>4. CASE ScalarFails
  <2>1. Returns(NULL) /\ UNCHANGED <<stack, blocks>> /\ ~wildFree'
    BY <1>2, <1>4 DEF ScalarFails
  <2> QED
    BY <1>1, <2>1, NoValue
<1>5. ASSUME NEW k \in 0..2, AllocAndFree(Range(Fresh(k)), Fresh(k)), Returns(NULL), UNCHANGED stack
      PROVE  ParseInv'
  <2>1. blocks' = blocks /\ ~wildFree'
    BY <1>2, <1>5, GivenBack
  <2> QED
    BY <1>1, <1>5, <2>1, NoValue
<1>6. CASE StringFails
  BY <1>5, <1>6 DEF StringFails
<1>7. CASE OpenFails
  <2>1. PICK got \in 0..1 : AllocAndFree(Range(Fresh(got)), Fresh(got))
    BY <1>7 DEF OpenFails
  <2>2. got \in 0..2
    OBVIOUS
  <2> QED
    BY <1>5, <1>7, <2>1, <2>2 DEF OpenFails
<1>8. ASSUME NEW kind, Returns(Value(kind, Fresh(1)[1], 0)), AllocAndFree({Fresh(1)[1]}, <<>>),
             UNCHANGED stack
      PROVE  ParseInv'
  <2> DEFINE id == Fresh(1)[1]
             v == Value(kind, id, 0)
  <2>1. id \in Ids /\ id \notin blocks
    <3>1. /\ Range(Fresh(1)) \subseteq Ids /\ Range(Fresh(1)) \cap blocks = {}
          /\ Range(Fresh(1)) = {Fresh(1)[i] : i \in 1..1}
      BY <1>2, FreshIsNew
    <3> QED
      BY <3>1
  <2> HIDE DEF id
  <2>2. ValueOk(v) /\ Of(v) = {id} /\ IsFiniteSet({id})
    <3>1. 0 \in Nat /\ id # 0
      BY <2>1 DEF Ids
    <3>2. ValueOk(v) /\ Of(v) = {id} \cup ({0} \ {0})
      BY <2>1, <3>1, NewValue
    <3> HIDE DEF v
    <3>3. Of(v) = {id}
      BY <3>2
    <3> QED
      BY <3>2, <3>3, FS_Singleton
  <2>3. Returns(v) /\ AllocAndFree({id}, <<>>)
    BY <1>8 DEF id
  <2> HIDE DEF v
  <2>4. blocks' = blocks \cup {id} /\ ~wildFree'
    <3>1. blocks' = (blocks \cup {id}) \ {} /\ ~wildFree'
      BY <1>2, <2>3, Freed, Nothing
    <3> QED
      BY <3>1
  <2> QED
    BY <1>1, <1>8, <2>1, <2>2, <2>3, <2>4, ValueReturns
<1>9. CASE ParseScalar
  BY <1>8, <1>9 DEF ParseScalar
<1>10. CASE ParseMinus
  BY <1>8, <1>10 DEF ParseMinus
<1>11. CASE ParseString
  <2> DEFINE output == Fresh(2)[1]
             chars == Fresh(2)[2]
             v == Value(Ahead, output, chars)
  <2>1. output \in Ids /\ chars \in Ids /\ output # chars /\ {output, chars} \cap blocks = {}
    BY <1>2, FreshPair
  <2>2. Returns(v) /\ AllocAndFree({output, chars}, <<>>) /\ UNCHANGED stack
    BY <1>11 DEF ParseString
  <2> HIDE DEF output, chars
  <2>3. ValueOk(v) /\ Of(v) = {output, chars}
    <3>1. chars \in Nat /\ chars # 0
      BY <2>1 DEF Ids
    <3>2. ValueOk(v) /\ Of(v) = {output} \cup ({chars} \ {0})
      BY <2>1, <3>1, NewValue
    <3> QED
      BY <3>1, <3>2
  <2> HIDE DEF v
  <2>4. IsFiniteSet({output, chars})
    <3>1. {output, chars} = {output} \cup {chars} /\ IsFiniteSet({output})
      BY FS_Singleton
    <3> QED
      BY <3>1, FS_AddElement
  <2>5. blocks' = blocks \cup {output, chars} /\ ~wildFree'
    <3>1. blocks' = (blocks \cup {output, chars}) \ {} /\ ~wildFree'
      BY <1>2, <2>2, Freed, Nothing
    <3> QED
      BY <3>1
  <2>6. Of(v) \subseteq Ids /\ Of(v) \cap blocks = {} /\ IsFiniteSet(Of(v))
          /\ blocks' = blocks \cup Of(v)
    BY <2>1, <2>3, <2>4, <2>5
  <2> QED
    BY <1>1, <2>2, <2>3, <2>5, <2>6, ValueReturns
<1> QED
  BY <1>3, <1>4, <1>6, <1>7, <1>9, <1>10, <1>11

(* Steps over a token, or none, within the innermost call. *)
LEMMA TokenStep ==
  ASSUME ParseInv, First \/ Colon \/ Comma \/ NextItem
  PROVE  ParseInv'
<1>1. mode \in {"first", "colon", "after", "next"} /\ UNCHANGED <<stack, ret, blocks, wildFree>>
  BY DEF First, Colon, Comma, NextItem
<1>2. /\ ~wildFree /\ StackOk(stack) /\ ModeInv /\ BlocksInv /\ stack # <<>>
      /\ InObject \/ InArray
  BY <1>1, Live DEF ParseInv, ModeInv
<1>3. ~wildFree' /\ StackOk(stack)'
  BY <1>1, <1>2
<1>4. mode' \in {"key", "value", "next"}
  BY DEF First, Colon, Comma, NextItem
<1>5. BlocksInv'
  BY <1>1, <1>2, <1>4 DEF BlocksInv, Given
<1>6. Top' = Top /\ (InObject' <=> InObject)
  BY <1>1 DEF Top, InObject
<1>7. /\ mode' = "key" => InObject /\ Top.key.id = 0
      /\ mode' = "next" => Top.key.id = 0
      /\ mode' = "value" => Awaits(Top)
  BY <1>2 DEF First, Colon, Comma, NextItem, ModeInv, Awaits, InArray, InObject
<1>8. ModeInv'
  BY <1>1, <1>2, <1>4, <1>6, <1>7 DEF ModeInv
<1> QED
  BY <1>3, <1>5, <1>8 DEF ParseInv

LEMMA OpenStep ==
  ASSUME ParseInv, Open
  PROVE  ParseInv'
<1> DEFINE kind == IF Ahead = "{" THEN "object" ELSE "array"
           v == Value(kind, Fresh(2)[1], Fresh(2)[2])
           frame == [value |-> v, key |-> NoKey]
           new == Range(Fresh(2))
<1>1. /\ mode = "value" /\ stack' = <<frame>> \o stack /\ mode' = "first"
      /\ AllocAndFree(new, <<>>)
  BY DEF Open, AtValue
<1>2. /\ ~wildFree /\ IsFiniteSet(blocks) /\ blocks \subseteq Ids
      /\ StackOk(stack) /\ Disjoint(stack) /\ blocks = AllHeld(stack)
      /\ stack # <<>> => Awaits(Head(stack))
  BY <1>1 DEF ParseInv, BlocksInv, ModeInv, Given, Top
<1>3. /\ Fresh(2)[1] \in Ids /\ Fresh(2)[2] \in Ids /\ Fresh(2)[1] # Fresh(2)[2]
      /\ new = {Fresh(2)[1], Fresh(2)[2]} /\ new \cap blocks = {} /\ IsFiniteSet(new)
  BY <1>2, FreshPair
<1>4. blocks' = blocks \cup new /\ ~wildFree'
  <2>1. blocks' = (blocks \cup new) \ {} /\ ~wildFree'
    BY <1>1, <1>2, Freed, Nothing
  <2> QED
    BY <2>1
<1> HIDE DEF new, kind
<1>5. ValueOk(v) /\ Of(v) = new /\ v.kind = kind
  <2>1. Fresh(2)[2] \in Nat /\ Fresh(2)[2] # 0
    BY <1>3 DEF Ids
  <2>2. ValueOk(v) /\ Of(v) = {Fresh(2)[1]} \cup ({Fresh(2)[2]} \ {0}) /\ v.kind = kind
    BY <1>3, <2>1, NewValue
  <2> HIDE DEF v
  <2> QED
    BY <1>3, <2>1, <2>2
<1>6. kind \in {"object", "array"}
  BY DEF kind
<1> HIDE DEF v
<1>7. /\ frame.value = v /\ frame.key.id = 0 /\ frame = [value |-> frame.value, key |-> frame.key]
  BY DEF NoKey
<1> HIDE DEF frame
<1>8. FrameOk(frame) /\ Held(frame) = new
  BY <1>3, <1>5, <1>6, <1>7 DEF FrameOk, Held, Ids
<1>9. IsFiniteSet(blocks') /\ blocks' \subseteq Ids /\ blocks' = Held(frame) \cup AllHeld(stack)
  BY <1>2, <1>3, <1>4, <1>8, FS_Union
<1>10. /\ mode' \in {"first", "key", "colon", "after", "next", "value"}
       /\ mode' \notin {"key", "colon", "value"}
  BY <1>1
<1> QED
  BY <1>1, <1>2, <1>3, <1>4, <1>7, <1>8, <1>9, <1>10, GoOn

(* process_string works in the first of two blocks, and the key is in the  *)
(* second.                                                                 *)
LEMMA KeyStep ==
  ASSUME ParseInv, Key
  PROVE  ParseInv'
<1> DEFINE work == Fresh(2)[1]
           chars == Fresh(2)[2]
           key == [name |-> Ahead, id |-> chars]
           rest == Tail(stack)
           frame == [Top EXCEPT !.key = key]
<1>1. /\ mode = "key" /\ stack' = <<frame>> \o rest /\ mode' = "colon"
      /\ AllocAndFree(Range(Fresh(2)), <<work>>)
  BY DEF Key, SetTop
<1>2. /\ ~wildFree /\ IsFiniteSet(blocks) /\ blocks \subseteq Ids
      /\ stack # <<>> /\ InObject /\ Top.key.id = 0 /\ blocks = AllHeld(stack)
  BY <1>1 DEF ParseInv, BlocksInv, ModeInv, Given
<1>3. /\ FrameOk(Top) /\ StackOk(rest) /\ Disjoint(rest)
      /\ rest # <<>> => Awaits(Head(rest))
      /\ AllHeld(stack) = Held(Top) \cup AllHeld(rest)
      /\ Held(Top) \cap AllHeld(rest) = {}
  BY <1>1, <1>2, TopAndRest DEF ParseInv, BlocksInv
<1>4. /\ work \in Ids /\ chars \in Ids /\ work # chars
      /\ Range(Fresh(2)) = {work, chars} /\ Range(Fresh(2)) \cap blocks = {}
  BY <1>2, FreshPair
<1> HIDE DEF work, chars
<1>5. blocks' = blocks \cup {chars} /\ ~wildFree'
  <2>1. Lists(<<work>>, {work})
    BY <1>4, One
  <2>2. blocks' = (blocks \cup {work, chars}) \ {work} /\ ~wildFree'
    BY <1>1, <1>2, <1>4, <2>1, Freed
  <2> QED
    BY <1>4, <2>2
<1>6. /\ frame = [value |-> frame.value, key |-> frame.key]
      /\ frame.value = Top.value /\ frame.key.id = chars
  <2> DEFINE top == Top
  <2>1. top = [value |-> top.value, key |-> top.key] /\ frame = [top EXCEPT !.key = key]
    BY <1>3 DEF FrameOk
  <2>2. key.id = chars
    OBVIOUS
  <2> HIDE DEF top, key, frame
  <2>3. frame = [value |-> top.value, key |-> key]
    BY <2>1, SMT
  <2>4. frame.value = top.value /\ frame.key = key
    BY <2>3
  <2> QED
    BY <2>2, <2>3, <2>4 DEF top
<1> HIDE DEF frame, key, rest
<1>7. Of(Top.value) \subseteq blocks /\ chars \notin Of(Top.value) /\ chars \in Nat /\ chars # 0
  BY <1>2, <1>3, <1>4 DEF Held, Ids
<1>8. Top.value.kind = "object"
  BY <1>2 DEF InObject
<1>9. FrameOk(frame)
  BY <1>3, <1>6, <1>7, <1>8 DEF FrameOk
<1>10. Held(frame) = Held(Top) \cup {chars}
  BY <1>2, <1>6, <1>7 DEF Held
<1>11. Held(frame) \cap AllHeld(rest) = {} /\ blocks' = Held(frame) \cup AllHeld(rest)
  BY <1>2, <1>3, <1>4, <1>5, <1>10
<1>12. IsFiniteSet(blocks') /\ blocks' \subseteq Ids
  BY <1>2, <1>4, <1>5, FS_AddElement
<1>13. Awaits(frame) /\ frame.value.kind = "object"
  BY <1>6, <1>7, <1>8 DEF Awaits
<1>14. /\ mode' \in {"first", "key", "colon", "after", "next", "value"}
       /\ mode' \notin {"first", "key", "after", "next"}
  BY <1>1
<1> QED
  BY <1>1, <1>3, <1>5, <1>9, <1>11, <1>12, <1>13, <1>14, GoOn

(* Where the innermost call stands before it ends or goes on.              *)
LEMMA Inside ==
  ASSUME ParseInv, mode # "undefined", stack # <<>>
  PROVE  /\ ~wildFree /\ IsFiniteSet(blocks) /\ blocks \subseteq Ids
         /\ FrameOk(Top) /\ Top.key.id \in Nat /\ Of(Top.value) \subseteq blocks
         /\ Top.key.id # 0 => Top.key.id \in blocks
         /\ InObject \/ InArray
         /\ InArray => Top.key.id = 0
         /\ InObject /\ mode \in {"colon", "return"} => Top.key.id # 0
         /\ mode \in {"first", "key", "after", "next"} => Top.key.id = 0
         /\ mode = "return" => ValueOk(ret) /\ Given = Of(ret) /\ Given \subseteq blocks
         /\ mode \notin {"return", "parsed"} => Given = {}
         /\ Given \cap Held(Top) = {}
<1>1. /\ FrameOk(Top) /\ AllHeld(stack) = Held(Top) \cup AllHeld(Tail(stack))
  BY TopAndRest DEF ParseInv, BlocksInv
<1>2. /\ ~wildFree /\ IsFiniteSet(blocks) /\ blocks \subseteq Ids
      /\ Given \cap AllHeld(stack) = {} /\ blocks = Given \cup AllHeld(stack)
      /\ mode = "return" => ValueOk(ret)
  BY DEF ParseInv, BlocksInv
<1>3. Held(Top) = Of(Top.value) \cup ({Top.key.id} \ {0})
  BY DEF Held
<1>4. /\ Top.key.id \in Nat /\ Top.value.kind \in {"object", "array"}
      /\ Top.value.kind = "array" => Top.key.id = 0
  BY <1>1 DEF FrameOk
<1>5. /\ InObject /\ mode \in {"colon", "return"} => Top.key.id # 0
      /\ mode \in {"first", "key", "after", "next"} => Top.key.id = 0
  BY DEF ParseInv, ModeInv, Awaits, InObject
<1>6. /\ mode = "return" => Given = Of(ret)
      /\ mode \notin {"return", "parsed"} => Given = {}
  BY DEF Given
<1>7. /\ InObject \/ InArray
      /\ InArray => Top.key.id = 0
  BY <1>4 DEF InObject, InArray
<1> QED
  BY <1>1, <1>2, <1>3, <1>4, <1>5, <1>6, <1>7

LEMMA CloseActions ==
  ASSUME ParseInv, CloseEmpty \/ CloseObject \/ CloseArray
  PROVE  ParseInv'
<1> DEFINE c == Top.value
<1>1. mode \in {"first", "after", "next"} /\ stack' = Tail(stack)
  BY DEF CloseEmpty, CloseObject, CloseArray, AtEnd, Close
<1>2. stack # <<>>
  BY <1>1 DEF ParseInv, ModeInv
<1>3. /\ ~wildFree /\ IsFiniteSet(blocks) /\ blocks \subseteq Ids
      /\ ValueOk(c) /\ Of(c) \subseteq blocks
      /\ Lists(c.tables, Range(c.tables)) /\ Range(c.tables) \subseteq Of(c)
  BY <1>1, <1>2, Inside DEF FrameOk, ValueOk, Of
<1>4. CASE CloseEmpty \/ CloseObject
  <2>1. Returns(c) /\ UNCHANGED <<blocks, wildFree>>
    <3>1. CASE CloseEmpty
      BY <3>1 DEF CloseEmpty
    <3>2. CASE CloseObject
      BY <3>2 DEF CloseObject
    <3> QED
      BY <1>4, <3>1, <3>2
  <2> DEFINE tables == Range(c.tables)
  <2>2. IsFiniteSet(tables) /\ tables \subseteq Ids
    BY <1>3, FS_Subset
  <2>3. /\ Of(c) = (Of(c) \ Range(c.tables)) \cup tables
        /\ tables \cap (blocks \ Range(c.tables)) = {}
        /\ blocks' = (blocks \ Range(c.tables)) \cup tables
    BY <1>3, <2>1
  <2>4. ~wildFree'
    BY <1>3, <2>1
  <2> HIDE DEF tables
  <2> QED
    BY <1>1, <1>3, <2>1, <2>2, <2>3, <2>4, CloseStep
<1>5. CASE CloseArray
  <2> DEFINE tables == Range(Fresh(2))
             v == [c EXCEPT !.tables = Fresh(2), !.capacity = Len(c.items)]
  <2>1. Returns(v) /\ AllocAndFree(tables, c.tables)
    BY <1>5 DEF CloseArray
  <2>2. /\ Lists(Fresh(2), tables) /\ tables \subseteq Ids
        /\ tables \cap blocks = {} /\ IsFiniteSet(tables)
    BY <1>3, FreshIsNew
  <2>3. blocks' = (blocks \cup tables) \ Range(c.tables) /\ ~wildFree'
    BY <1>3, <2>1, Freed
  <2>5. ValueOk(v) /\ Of(v) = (Of(c) \ Range(c.tables)) \cup tables
    <3> DEFINE fresh == Fresh(2)
               count == Len(c.items)
    <3>1. Range(fresh) \cap (Of(c) \ Range(c.tables)) = {} /\ Lists(fresh, Range(fresh))
      BY <1>3, <2>2
    <3>2. v = [c EXCEPT !.tables = fresh, !.capacity = count] /\ tables = Range(fresh)
      OBVIOUS
    <3>3. ValueOk(c)
      BY <1>3
    <3> HIDE DEF v, fresh, count, c, tables
    <3> QED
      BY <3>1, <3>2, <3>3, NewTables
  <2> HIDE DEF v
  <2> HIDE DEF tables
  <2>6. /\ tables \cap (blocks \ Range(c.tables)) = {}
        /\ blocks' = (blocks \ Range(c.tables)) \cup tables
    BY <1>3, <2>2, <2>3
  <2> QED
    BY <1>1, <2>1, <2>2, <2>3, <2>5, <2>6, CloseStep
<1> QED
  BY <1>4, <1>5

LEMMA StraysStep ==
  ASSUME ParseInv, mode # "undefined", Strays
  PROVE  ParseInv'
  BY DEF Strays, ParseInv

(* The error paths. *)
LEMMA GivesUpActions ==
  ASSUME ParseInv,
         \/ NoKeyThere \/ KeyWithNul \/ KeyFails \/ NoColon \/ ObjectAddFails \/ ObjectGivesUp
         \/ ArrayAddFails \/ ArrayGivesUp \/ TrimFails \/ NotClosed
  PROVE  ParseInv'
<1> DEFINE id == Top.key.id
<1>1. mode \in {"key", "colon", "return", "after", "next"}
  BY DEF NoKeyThere, KeyWithNul, KeyFails, NoColon, ObjectAddFails, ObjectGivesUp,
         ArrayAddFails, ArrayGivesUp, TrimFails, NotClosed, Returned, AtEnd
<1>2. stack # <<>>
  BY <1>1 DEF ParseInv, ModeInv, NoKeyThere, KeyWithNul, KeyFails, NoColon, ObjectAddFails,
         ObjectGivesUp, ArrayAddFails, ArrayGivesUp, TrimFails, NotClosed, InObject, InArray
<1>3. /\ IsFiniteSet(blocks) /\ blocks \subseteq Ids /\ id \in Nat
      /\ id # 0 => id \in blocks
      /\ InObject \/ InArray
      /\ InArray => id = 0
      /\ InObject /\ mode \in {"colon", "return"} => id # 0
      /\ mode \in {"key", "after", "next"} => id = 0
      /\ mode = "return" => ValueOk(ret) /\ Given = Of(ret) /\ Given \subseteq blocks
      /\ mode # "return" => Given = {}
      /\ id # 0 => id \notin Given
  <2>1. id # 0 => id \in Held(Top)
    BY DEF Held
  <2>2. Given \cap Held(Top) = {}
    BY <1>1, <1>2, Inside
  <2> QED
    BY <1>1, <1>2, <2>1, <2>2, Inside
<1> HIDE DEF id
<1>4. ASSUME NEW new, new \subseteq Ids, IsFiniteSet(new), new \cap blocks = {},
             NEW ids, Lists(ids, new \cup Given \cup ({id} \ {0})), GivesUp(new, ids)
      PROVE  ParseInv'
  BY <1>1, <1>2, <1>4, GivesUpStep DEF id
<1>5. ASSUME Given = {}, id = 0, GivesUp({}, <<>>) PROVE ParseInv'
  <2>1. {} \cup Given \cup ({id} \ {0}) = {}
    BY <1>5
  <2> QED
    BY <1>4, <1>5, <2>1, Nothing, FS_EmptySet
<1>6. ASSUME Given = {}, id = 0, NEW got \in 0..1, GivesUp(Range(Fresh(got)), Fresh(got))
      PROVE  ParseInv'
  <2> DEFINE new == Range(Fresh(got))
  <2>1. got \in 0..2
    OBVIOUS
  <2>2. Lists(Fresh(got), new) /\ new \subseteq Ids /\ new \cap blocks = {} /\ IsFiniteSet(new)
    BY <1>3, <2>1, FreshIsNew
  <2>3. new \cup Given \cup ({id} \ {0}) = new
    BY <1>6
  <2> HIDE DEF new
  <2>4. GivesUp(new, Fresh(got))
    BY <1>6 DEF new
  <2> QED
    BY <1>4, <2>2, <2>3, <2>4
<1>7. ASSUME Given = {}, id # 0, GivesUp({}, KeyFreed(id)) PROVE ParseInv'
  <2>1. Lists(KeyFreed(id), {id})
    BY <1>3, <1>7, One DEF KeyFreed, Ids
  <2>2. {} \cup Given \cup ({id} \ {0}) = {id}
    BY <1>7
  <2> QED
    BY <1>4, <1>7, <2>1, <2>2, FS_EmptySet
<1>8. ASSUME mode = "return", ret = NULL PROVE Given = {}
  BY <1>3, <1>8, NullHoldsNothing
<1>9. CASE NoKeyThere
  BY <1>3, <1>5, <1>9 DEF NoKeyThere
<1>10. CASE KeyWithNul
  <2> DEFINE new == Range(Fresh(2))
             work == Fresh(2)[1]
             key == Fresh(2)[2]
  <2>1. /\ work \in Ids /\ key \in Ids /\ work # key /\ new = {work, key}
        /\ new \cap blocks = {} /\ IsFiniteSet(new)
    BY <1>3, FreshPair
  <2>2. GivesUp(new, <<work>> \o KeyFreed(key)) /\ mode = "key"
    BY <1>10 DEF KeyWithNul
  <2> HIDE DEF new, work, key
  <2>3. Lists(<<work>>, {work}) /\ Lists(KeyFreed(key), {key}) /\ {work} \cap {key} = {}
    BY <2>1, One DEF KeyFreed
  <2>4. Lists(<<work>> \o KeyFreed(key), {work} \cup {key})
    BY <2>3, Joined
  <2>5. new \cup Given \cup ({id} \ {0}) = {work} \cup {key} /\ new \subseteq Ids
    BY <1>3, <2>1, <2>2
  <2> QED
    BY <1>4, <2>1, <2>2, <2>4, <2>5
<1>11. CASE KeyFails
  BY <1>3, <1>6, <1>11 DEF KeyFails
<1>12. CASE NoColon
  <2>1. InObject
    BY <1>12 DEF NoColon, ParseInv, ModeInv
  <2> QED
    BY <1>3, <1>7, <1>12, <2>1 DEF NoColon, id
<1>13. CASE ObjectAddFails
  <2>1. CASE Strays
    BY <1>1, <2>1, StraysStep
  <2>2. CASE GivesUp({}, KeyFreed(id) \o Owned(ret))
    <3>1. mode = "return" /\ id # 0 /\ id \in Ids
      BY <1>3, <1>13 DEF ObjectAddFails, Returned, Ids
    <3>2. Lists(KeyFreed(id), {id}) /\ Lists(Owned(ret), Of(ret)) /\ {id} \cap Of(ret) = {}
      BY <1>3, <3>1, One, OwnedOnce DEF KeyFreed
    <3>3. Lists(KeyFreed(id) \o Owned(ret), {id} \cup Of(ret))
      BY <3>2, Joined
    <3>4. {} \cup Given \cup ({id} \ {0}) = {id} \cup Of(ret)
      BY <1>3, <3>1
    <3> QED
      BY <1>4, <2>2, <3>3, <3>4, FS_EmptySet
  <2> QED
    BY <1>13, <2>1, <2>2 DEF ObjectAddFails, id
<1>14. CASE ObjectGivesUp
  <2>1. mode = "return" /\ ret = NULL /\ InObject /\ GivesUp({}, KeyFreed(id))
    BY <1>14 DEF ObjectGivesUp, id
  <2> QED
    BY <1>3, <1>7, <1>8, <2>1
<1>15. CASE ArrayAddFails
  <2>1. CASE Strays
    BY <1>1, <2>1, StraysStep
  <2>2. ASSUME NEW got \in 0..1, GivesUp(Range(Fresh(got)), Fresh(got) \o Owned(ret))
        PROVE  ParseInv'
    <3> DEFINE new == Range(Fresh(got))
    <3>1. mode = "return" /\ id = 0 /\ got \in 0..2
      BY <1>3, <1>15 DEF ArrayAddFails, Returned
    <3>2. Lists(Fresh(got), new) /\ new \subseteq Ids /\ new \cap blocks = {} /\ IsFiniteSet(new)
      BY <1>3, <3>1, FreshIsNew
    <3>3. GivesUp(new, Fresh(got) \o Owned(ret))
      BY <2>2
    <3> HIDE DEF new
    <3>4. Lists(Owned(ret), Of(ret)) /\ new \cap Of(ret) = {}
      BY <1>3, <3>1, <3>2, OwnedOnce
    <3>5. Lists(Fresh(got) \o Owned(ret), new \cup Of(ret))
      BY <3>2, <3>4, Joined
    <3>6. new \cup Given \cup ({id} \ {0}) = new \cup Of(ret)
      BY <1>3, <3>1
    <3> QED
      BY <1>4, <3>2, <3>3, <3>5, <3>6
  <2> QED
    BY <1>15, <2>1, <2>2 DEF ArrayAddFails
<1>16. CASE ArrayGivesUp
  BY <1>3, <1>5, <1>8, <1>16 DEF ArrayGivesUp
<1>17. CASE TrimFails
  BY <1>3, <1>6, <1>17 DEF TrimFails, AtEnd
<1>18. CASE NotClosed
  BY <1>3, <1>5, <1>18 DEF NotClosed
<1> QED
  BY <1>9, <1>10, <1>11, <1>12, <1>13, <1>14, <1>15, <1>16, <1>17, <1>18

LEMMA AddActions ==
  ASSUME ParseInv, ObjectAdd \/ ObjectAddGrows \/ ArrayAdd \/ ArrayAddGrows
  PROVE  ParseInv'
<1> DEFINE c == Top.value
<1>1. mode = "return" /\ stack # <<>>
  BY DEF ObjectAdd, ObjectAddGrows, ArrayAdd, ArrayAddGrows, Returned, InObject, InArray
<1>2. /\ ~wildFree /\ IsFiniteSet(blocks) /\ blocks \subseteq Ids
      /\ Lists(c.tables, Range(c.tables)) /\ Range(c.tables) \subseteq blocks
      /\ InArray => Top.key.id = 0
  BY <1>1, Inside DEF FrameOk, ValueOk, Of
<1>3. ASSUME NEW n, Add(c, n, Top.key.id, c.tables, c.capacity), UNCHANGED <<blocks, wildFree>>
      PROVE  ParseInv'
  <2> DEFINE tables == c.tables
             capacity == c.capacity
  <2>1. /\ Lists(tables, Range(tables)) /\ IsFiniteSet(Range(tables))
        /\ Range(tables) \cap (blocks \ Range(Top.value.tables)) = {}
        /\ blocks' = (blocks \ Range(Top.value.tables)) \cup Range(tables)
        /\ ~wildFree'
    BY <1>2, <1>3, FS_Subset
  <2>2. Add(Top.value, n, Top.key.id, tables, capacity)
    BY <1>3
  <2> HIDE DEF tables, capacity
  <2> QED
    BY <1>1, <2>1, <2>2, AddStep
<1>4. ASSUME NEW n, NEW k \in 1..2, NEW capacity,
             Add(c, n, Top.key.id, Fresh(k), capacity), AllocAndFree(Range(Fresh(k)), c.tables)
      PROVE  ParseInv'
  <2> DEFINE tables == Fresh(k)
  <2>1. /\ Lists(tables, Range(tables)) /\ IsFiniteSet(Range(tables))
        /\ Range(tables) \cap blocks = {}
    <3>1. k \in 0..2
      OBVIOUS
    <3> QED
      BY <1>2, <3>1, FreshIsNew
  <2>2. blocks' = (blocks \cup Range(tables)) \ Range(c.tables) /\ ~wildFree'
    <3>1. Range(c.tables) \subseteq blocks \cup Range(tables)
      BY <1>2
    <3> QED
      BY <1>2, <1>4, <3>1, Freed
  <2>3. Add(Top.value, n, Top.key.id, tables, capacity)
    BY <1>4
  <2> HIDE DEF tables
  <2>4. /\ Range(tables) \cap (blocks \ Range(Top.value.tables)) = {}
        /\ blocks' = (blocks \ Range(Top.value.tables)) \cup Range(tables)
    BY <1>2, <2>1, <2>2
  <2> QED
    BY <1>1, <2>1, <2>2, <2>3, <2>4, AddStep
<1>5. CASE ObjectAdd
  BY <1>3, <1>5 DEF ObjectAdd
<1>6. CASE ObjectAddGrows
  <2>1. 1 \in 1..2
    OBVIOUS
  <2> QED
    BY <1>4, <1>6, <2>1 DEF ObjectAddGrows
<1>7. CASE ArrayAdd
  <2>1. Top.key.id = 0
    BY <1>2, <1>7 DEF ArrayAdd
  <2>2. Add(c, "", Top.key.id, c.tables, c.capacity) /\ UNCHANGED <<blocks, wildFree>>
    BY <1>7, <2>1 DEF ArrayAdd
  <2> QED
    BY <1>3, <2>2
<1>8. CASE ArrayAddGrows
  <2>1. CASE Strays
    BY <1>1, <2>1, StraysStep
  <2>2. CASE Add(c, "", 0, Fresh(2), Doubled(c.capacity)) /\ AllocAndFree(Range(Fresh(2)), c.tables)
    <3>1. InArray
      BY <1>8 DEF ArrayAddGrows
    <3>2. Top.key.id = 0 /\ 2 \in 1..2
      BY <1>2, <3>1
    <3>3. Add(c, "", Top.key.id, Fresh(2), Doubled(c.capacity))
      BY <2>2, <3>2
    <3> QED
      BY <1>4, <2>2, <3>2, <3>3
  <2> QED
    BY <1>8, <2>1, <2>2 DEF ArrayAddGrows
<1> QED
  BY <1>5, <1>6, <1>7, <1>8

(* json_parse_string returns, and json_value_free frees what it returned.  *)
LEMMA EndActions ==
  ASSUME ParseInv, Finish \/ FreeRoot
  PROVE  ParseInv'
<1>1. mode \in {"return", "parsed"}
  BY DEF Finish, FreeRoot
<1>2. stack = <<>>
  BY <1>1 DEF Finish, FreeRoot, ParseInv, ModeInv
<1>3. /\ ~wildFree /\ ValueOk(ret) /\ blocks = Of(ret)
      /\ IsFiniteSet(blocks) /\ blocks \subseteq Ids
  BY <1>1, <1>2, EmptyStack DEF ParseInv, BlocksInv, Given
<1>4. ASSUME stack' = <<>>, ~wildFree',
             \/ mode' = "parsed" /\ UNCHANGED ret
             \/ mode' \in {"failed", "freed"},
             IsFiniteSet(blocks'), blocks' \subseteq Ids,
             blocks' = IF mode' = "parsed" THEN Of(ret) ELSE {}
      PROVE  ParseInv'
  <2>1. StackOk(stack)' /\ Disjoint(stack)' /\ AllHeld(stack)' = {}
    BY <1>4, EmptyStack
  <2>2. ModeInv'
    BY <1>4 DEF ModeInv
  <2>3. Given' = IF mode' = "parsed" THEN Of(ret) ELSE {}
    BY <1>4 DEF Given
  <2>4. BlocksInv'
    BY <1>3, <1>4, <2>1, <2>3 DEF BlocksInv
  <2> QED
    BY <1>4, <2>1, <2>2, <2>4 DEF ParseInv
<1>5. CASE Finish
  <2>1. ret = NULL => blocks = {}
    BY <1>3, NullHoldsNothing
  <2>2. stack' = <<>> /\ ~wildFree' /\ blocks' = blocks /\ ret' = ret
    BY <1>2, <1>3, <1>5 DEF Finish
  <2>3. mode' = IF ret = NULL THEN "failed" ELSE "parsed"
    BY <1>5 DEF Finish
  <2> QED
    BY <1>3, <1>4, <2>1, <2>2, <2>3
<1>6. CASE FreeRoot
  <2>1. CASE Strays
    BY <1>1, <2>1, StraysStep
  <2>2. CASE AllocAndFree({}, Owned(ret)) /\ mode' = "freed"
          /\ UNCHANGED <<text, stack, ret, short>>
    <3>1. Lists(Owned(ret), Of(ret)) /\ Of(ret) \subseteq blocks \cup {}
      BY <1>3, OwnedOnce
    <3>2. blocks' = (blocks \cup {}) \ Of(ret) /\ ~wildFree'
      BY <1>3, <2>2, <3>1, Freed
    <3>3. blocks' = {}
      BY <1>3, <3>2
    <3> QED
      BY <1>2, <1>4, <2>2, <3>2, <3>3, FS_EmptySet
  <2> QED
    BY <1>6, <2>1, <2>2 DEF FreeRoot
<1> QED
  BY <1>5, <1>6

-----------------------------------------------------------------------------
LEMMA InitParse == Init => ParseInv
<1> SUFFICES ASSUME Init PROVE ParseInv
  OBVIOUS
<1>1. stack = <<>> /\ mode = "value" /\ blocks = {} /\ wildFree = FALSE
  BY DEF Init
<1>2. StackOk(stack) /\ Disjoint(stack) /\ AllHeld(stack) = {}
  BY <1>1, EmptyStack
<1>3. ModeInv
  BY <1>1 DEF ModeInv
<1>4. BlocksInv
  BY <1>1, <1>2, FS_EmptySet DEF BlocksInv, Given
<1> QED
  BY <1>1, <1>2, <1>3, <1>4 DEF ParseInv

LEMMA NextParse == ParseInv /\ [Next]_vars => ParseInv'
<1> SUFFICES ASSUME ParseInv, [Next]_vars PROVE ParseInv'
  OBVIOUS
<1>1. CASE Next
  <2>1. CASE \/ ParseNothing \/ ParseScalar \/ ParseMinus \/ ScalarFails
             \/ ParseString \/ StringFails \/ OpenFails
    BY <2>1, ScalarStep
  <2>2. CASE First \/ Colon \/ Comma \/ NextItem
    BY <2>2, TokenStep
  <2>3. CASE Open
    BY <2>3, OpenStep
  <2>4. CASE Key
    BY <2>4, KeyStep
  <2>5. CASE CloseEmpty \/ CloseObject \/ CloseArray
    BY <2>5, CloseActions
  <2>6. CASE \/ NoKeyThere \/ KeyWithNul \/ KeyFails \/ NoColon \/ ObjectAddFails \/ ObjectGivesUp
             \/ ArrayAddFails \/ ArrayGivesUp \/ TrimFails \/ NotClosed
    BY <2>6, GivesUpActions
  <2>7. CASE ObjectAdd \/ ObjectAddGrows \/ ArrayAdd \/ ArrayAddGrows
    BY <2>7, AddActions
  <2>8. CASE Finish \/ FreeRoot
    BY <2>8, EndActions
  <2> QED
    BY <1>1, <2>1, <2>2, <2>3, <2>4, <2>5, <2>6, <2>7, <2>8 DEF Next
<1>2. CASE UNCHANGED vars
  BY <1>2 DEF vars, ParseInv, ModeInv, BlocksInv, Given, InObject, Top
<1> QED
  BY <1>1, <1>2

(* At each step of the descent every live block has one owner: a call that *)
(* is under way, by its value or its key, or the value just returned; and  *)
(* none has been freed that was not live.                                  *)
THEOREM ParseInvariant == Spec => []ParseInv
  BY InitParse, NextParse, PTL DEF Spec

(* Every error path at every depth gives back what the parse has           *)
(* allocated, whatever the text and whichever allocations fail, and        *)
(* json_value_free just what a parse that succeeds has left.               *)
THEOREM NoLeak == Spec => []NothingLeft
<1>1. ParseInv => NothingLeft
  <2> SUFFICES ASSUME ParseInv PROVE NothingLeft
    OBVIOUS
  <2>1. ~wildFree
    BY DEF ParseInv
  <2>2. ASSUME mode \in {"parsed", "failed", "freed"}
        PROVE  blocks = Given
    <3>1. stack = <<>> /\ blocks = Given \cup AllHeld(stack)
      BY <2>2 DEF ParseInv, ModeInv, BlocksInv
    <3> QED
      BY <3>1, EmptyStack
  <2>3. mode \in {"failed", "freed"} => blocks = {}
    BY <2>2 DEF Given
  <2>4. ASSUME mode = "parsed" PROVE blocks = Range(Owned(ret))
    <3>1. blocks = Of(ret) /\ ValueOk(ret)
      BY <2>2, <2>4 DEF Given, ParseInv, BlocksInv
    <3> QED
      BY <3>1, OwnedOnce DEF Lists
  <2> QED
    BY <2>1, <2>3, <2>4 DEF NothingLeft
<1> QED
  BY <1>1, ParseInvariant, PTL

-----------------------------------------------------------------------------
(* The grammar. *)

(* Induction over the natural numbers, for a set of good ones. *)
LEMMA AllGood ==
  ASSUME NEW S, 0 \in S, \A n \in Nat \ {0} : n - 1 \in S => n \in S
  PROVE  Nat \subseteq S
<1> DEFINE bad == {i \in Nat : i \notin S}
<1> SUFFICES ASSUME bad # {} PROVE FALSE
  OBVIOUS
<1>1. bad \subseteq Nat
  OBVIOUS
<1>2. PICK x \in bad : \A y \in bad : ~(<<y, x>> \in OpToRel(<, Nat))
  BY <1>1, NatLessThanWellFounded, WFMin
<1>3. \A y \in bad : ~(y < x)
  <2>1. ASSUME NEW y \in bad, y < x PROVE FALSE
    <3>1. x \in Nat /\ y \in Nat
      BY <1>1
    <3>2. <<y, x>> \in OpToRel(<, Nat)
      BY <2>1, <3>1, Zenon DEF OpToRel
    <3> QED
      BY <1>2, <3>2
  <2> QED
    BY <2>1
<1>4. x \in Nat /\ x # 0 /\ x \notin S
  OBVIOUS
<1>5. x - 1 \in S
  <2>1. x - 1 \in Nat /\ x - 1 < x
    BY <1>4
  <2> QED
    BY <1>3, <2>1
<1> QED
  BY <1>4, <1>5

(* The rule by which the phrases of n tokens are made. *)
Longer(g, n) == [k \in 0..n |-> IF k < n THEN g[k] ELSE Phrases(g, n)]
Shorter(G, n) == IF n = 0 THEN <<>> ELSE G[n - 1]

(* Grammar is what its recursion says. *)
LEMMA GrammarGrows == \A n \in Nat : Grammar[n] = Longer(Shorter(Grammar, n), n)
<1> DEFINE Made(h, m) == h = [n \in 0..m |-> Longer(Shorter(h, n), n)]
<1>1. ASSUME NEW m \in Nat, NEW l \in Nat, l <= m, NEW h, NEW i, Made(h, m), Made(i, l)
      PROVE  \A n \in 0..l : h[n] = i[n]
  <2> DEFINE same == {n \in Nat : n <= l => h[n] = i[n]}
  <2>1. \A n \in 0..l : h[n] = Longer(Shorter(h, n), n) /\ i[n] = Longer(Shorter(i, n), n)
    <3>1. 0..l \subseteq 0..m
      BY <1>1
    <3> QED
      BY <1>1, <3>1, Zenon
  <2>2. 0 \in same
    <3>1. 0 \in 0..l
      BY <1>1
    <3>2. Shorter(h, 0) = Shorter(i, 0)
      BY DEF Shorter
    <3> QED
      BY <2>1, <3>1, <3>2
  <2>3. ASSUME NEW n \in Nat \ {0}, n - 1 \in same PROVE n \in same
    <3> SUFFICES ASSUME n <= l PROVE h[n] = i[n]
      OBVIOUS
    <3>1. n \in 0..l /\ n - 1 \in 0..l /\ n - 1 <= l
      BY <1>1
    <3>2. Shorter(h, n) = Shorter(i, n)
      BY <2>3, <3>1 DEF Shorter
    <3> QED
      BY <2>1, <3>1, <3>2
  <2>4. Nat \subseteq same
    <3> HIDE DEF same
    <3> QED
      BY <2>2, <2>3, AllGood
  <2>5. ASSUME NEW n \in 0..l PROVE h[n] = i[n]
    <3>1. n \in Nat /\ n <= l
      OBVIOUS
    <3>2. n \in same
      BY <2>4, <3>1
    <3> QED
      BY <3>1, <3>2
  <2> QED
    BY <2>5
<1> DEFINE good == {m \in Nat : \E h : Made(h, m)}
<1>2. 0 \in good
  <2> DEFINE h == [n \in 0..0 |-> Longer(<<>>, 0)]
  <2>1. \A g : Shorter(g, 0) = <<>>
    BY DEF Shorter
  <2>2. \A n \in 0..0 : n = 0
    OBVIOUS
  <2>3. Made(h, 0)
    BY <2>1, <2>2
  <2> QED
    BY <2>3
<1>3. ASSUME NEW m \in Nat \ {0}, m - 1 \in good PROVE m \in good
  <2>1. PICK g : Made(g, m - 1)
    BY <1>3
  <2> DEFINE h == [n \in 0..m |-> IF n = m THEN Longer(g[m - 1], m) ELSE g[n]]
  <2>2. ASSUME NEW n \in 0..m PROVE h[n] = Longer(Shorter(h, n), n)
    <3>1. n # 0 => n - 1 \in 0..m /\ n - 1 # m
      OBVIOUS
    <3>2. n # 0 => h[n - 1] = g[n - 1]
      BY <3>1
    <3>3. Shorter(h, n) = Shorter(g, n)
      <4> HIDE DEF h
      <4> QED
        BY <3>2 DEF Shorter
    <3>4. CASE n = m
      <4>1. h[n] = Longer(g[m - 1], m) /\ Shorter(g, n) = g[m - 1]
        BY <3>4 DEF Shorter
      <4> HIDE DEF h
      <4> QED
        BY <3>3, <3>4, <4>1
    <3>5. CASE n # m
      <4>1. h[n] = g[n] /\ n \in 0..(m - 1)
        BY <3>5
      <4>2. g[n] = Longer(Shorter(g, n), n)
        BY <2>1, <4>1
      <4> HIDE DEF h
      <4> QED
        BY <3>3, <4>1, <4>2
    <3> QED
      BY <3>4, <3>5
  <2>3. Made(h, m)
    BY <2>2
  <2> QED
    BY <2>3
<1>4. Nat \subseteq good
  <2> HIDE DEF good
  <2> QED
    BY <1>2, <1>3, AllGood
<1> DEFINE H(m) == CHOOSE h : Made(h, m)
           G == [n \in Nat |-> H(n)[n]]
<1>5. ASSUME NEW m \in Nat PROVE Made(H(m), m)
  <2>1. \E h : Made(h, m)
    BY <1>4
  <2> HIDE DEF Made
  <2> QED
    BY <2>1
<1> HIDE DEF H
<1>6. ASSUME NEW n \in Nat PROVE G[n] = Longer(Shorter(G, n), n)
  <2>1. H(n)[n] = Longer(Shorter(H(n), n), n)
    <3>1. n \in 0..n /\ Made(H(n), n)
      BY <1>5
    <3> QED
      BY <3>1
  <2>2. n # 0 => H(n)[n - 1] = H(n - 1)[n - 1]
    <3> SUFFICES ASSUME n # 0 PROVE H(n)[n - 1] = H(n - 1)[n - 1]
      OBVIOUS
    <3>1. n - 1 \in Nat /\ n - 1 <= n /\ n - 1 \in 0..(n - 1)
      OBVIOUS
    <3>2. Made(H(n), n) /\ Made(H(n - 1), n - 1)
      BY <1>5, <3>1
    <3> HIDE DEF Made
    <3> QED
      BY <1>1, <3>1, <3>2
  <2>3. n # 0 => n - 1 \in Nat
    OBVIOUS
  <2>4. Shorter(G, n) = Shorter(H(n), n)
    BY <2>2, <2>3 DEF Shorter
  <2>5. G[n] = H(n)[n]
    OBVIOUS
  <2> HIDE DEF G
  <2> QED
    BY <2>1, <2>4, <2>5
<1>7. G = [n \in Nat |-> Longer(Shorter(G, n), n)]
  <2>1. \A n \in Nat : G[n] = Longer(Shorter(G, n), n)
    BY <1>6
  <2>2. G = [n \in Nat |-> G[n]]
    OBVIOUS
  <2> HIDE DEF G
  <2> QED
    BY <2>1, <2>2
<1>8. Grammar = [n \in Nat |-> Longer(Shorter(Grammar, n), n)]
  <2>1. Grammar = CHOOSE g : g = [n \in Nat |-> Longer(Shorter(g, n), n)]
    BY DEF Grammar, Longer, Shorter
  <2> HIDE DEF G
  <2> QED
    BY <1>7, <2>1
<1> QED
  BY <1>8

(* The phrases of n tokens. *)
At(n) == Grammar[n][n]

(* A table keeps what the shorter ones hold. *)
LEMMA TablesKept == \A n \in Nat : \A k \in 0..n : Grammar[n][k] = At(k)
<1> DEFINE good == {n \in Nat : \A k \in 0..n : Grammar[n][k] = At(k)}
<1>1. 0 \in good
  <2>1. \A k \in 0..0 : k = 0
    OBVIOUS
  <2> QED
    BY <2>1 DEF At
<1>2. ASSUME NEW n \in Nat \ {0}, n - 1 \in good PROVE n \in good
  <2>1. n \in Nat /\ Grammar[n] = Longer(Grammar[n - 1], n)
    BY GrammarGrows DEF Shorter
  <2>2. ASSUME NEW k \in 0..n PROVE Grammar[n][k] = At(k)
    <3>1. CASE k = n
      BY <3>1 DEF At
    <3>2. CASE k # n
      <4>1. k < n /\ k \in 0..(n - 1)
        BY <3>2
      <4>2. Grammar[n][k] = Grammar[n - 1][k]
        BY <2>1, <4>1 DEF Longer
      <4> QED
        BY <1>2, <4>1, <4>2
    <3> QED
      BY <3>1, <3>2
  <2> QED
    BY <2>2
<1>3. Nat \subseteq good
  <2> HIDE DEF good
  <2> QED
    BY <1>1, <1>2, AllGood
<1> QED
  BY <1>3

(* Phrases of n tokens are made of shorter ones. *)
LEMMA PhrasesGrow ==
  ASSUME NEW n \in Nat
  PROVE  /\ At(n).value = {p \in Singles : n = 1} \cup (IF n < 2 THEN {} ELSE Containers(At(n - 2)))
         /\ At(n).array = ListsOf([k \in 0..n |-> Elements(At(k).value)],
                                  [k \in 0..(n - 1) |-> At(k).array], n)
         /\ At(n).object = ListsOf([k \in 0..n |-> IF k < 2 THEN {} ELSE Members(At(k - 2).value)],
                                   [k \in 0..(n - 1) |-> At(k).object], n)
<1> DEFINE g == Shorter(Grammar, n)
           value == {p \in Singles : n = 1} \cup (IF n < 2 THEN {} ELSE Containers(g[n - 2]))
           values == [k \in 0..n |-> IF k < n THEN g[k].value ELSE value]
<1>1. At(n) = Phrases(g, n)
  <2>1. Grammar[n] = Longer(g, n)
    BY GrammarGrows
  <2>2. n \in 0..n /\ ~(n < n)
    OBVIOUS
  <2> HIDE DEF g
  <2> QED
    BY <2>1, <2>2 DEF At, Longer
<1>2. ASSUME NEW k \in 0..n, k < n PROVE g[k] = At(k)
  <2>1. n # 0 /\ n - 1 \in Nat /\ k \in 0..(n - 1)
    BY <1>2
  <2>2. g = Grammar[n - 1]
    BY <2>1 DEF Shorter
  <2> HIDE DEF g
  <2> QED
    BY <2>1, <2>2, TablesKept
<1> HIDE DEF g
<1>3. /\ At(n).value = value
      /\ At(n).array = ListsOf([k \in 0..n |-> Elements(values[k])],
                               [k \in 0..(n - 1) |-> g[k].array], n)
      /\ At(n).object = ListsOf([k \in 0..n |-> IF k < 2 THEN {} ELSE Members(values[k - 2])],
                                [k \in 0..(n - 1) |-> g[k].object], n)
  <2> DEFINE array == ListsOf([k \in 0..n |-> Elements(values[k])],
                              [k \in 0..(n - 1) |-> g[k].array], n)
             object == ListsOf([k \in 0..n |-> IF k < 2 THEN {} ELSE Members(values[k - 2])],
                               [k \in 0..(n - 1) |-> g[k].object], n)
  <2>1. Phrases(g, n) = [value |-> value, array |-> array, object |-> object]
    BY DEF Phrases
  <2>2. At(n).value = value /\ At(n).array = array /\ At(n).object = object
    <3> HIDE DEF value, array, object
    <3> QED
      BY <1>1, <2>1
  <2> QED
    BY <2>2
<1>4. ASSUME NEW k \in 0..n PROVE values[k] = At(k).value
  <2>1. values[k] = IF k < n THEN g[k].value ELSE value
    OBVIOUS
  <2>2. k < n \/ k = n
    OBVIOUS
  <2>3. k < n => g[k] = At(k)
    BY <1>2
  <2>4. At(n).value = value
    BY <1>3
  <2> HIDE DEF values, value
  <2>5. ~(n < n)
    OBVIOUS
  <2> QED
    BY <2>1, <2>2, <2>3, <2>4, <2>5
<1> HIDE DEF values
<1>5. ~(n < 2) => g[n - 2] = At(n - 2)
  <2>1. ~(n < 2) => n - 2 \in 0..n /\ n - 2 < n
    OBVIOUS
  <2> QED
    BY <1>2, <2>1
<1>6. At(n).value = {p \in Singles : n = 1} \cup (IF n < 2 THEN {} ELSE Containers(At(n - 2)))
  BY <1>3, <1>5, Zenon
<1>7. [k \in 0..n |-> Elements(values[k])] = [k \in 0..n |-> Elements(At(k).value)]
  BY <1>4, Zenon
<1>8. \A k \in 0..(n - 1) : k \in 0..n /\ k < n
  OBVIOUS
<1>9. /\ [k \in 0..(n - 1) |-> g[k].array] = [k \in 0..(n - 1) |-> At(k).array]
      /\ [k \in 0..(n - 1) |-> g[k].object] = [k \in 0..(n - 1) |-> At(k).object]
  BY <1>2, <1>8, Zenon
<1>10. [k \in 0..n |-> IF k < 2 THEN {} ELSE Members(values[k - 2])]
         = [k \in 0..n |-> IF k < 2 THEN {} ELSE Members(At(k - 2).value)]
  <2>1. \A k \in 0..n : k < 2 \/ k - 2 \in 0..n
    OBVIOUS
  <2>2. \A k \in 0..n : (IF k < 2 THEN {} ELSE Members(values[k - 2]))
                         = (IF k < 2 THEN {} ELSE Members(At(k - 2).value))
    BY <1>4, <2>1, Zenon
  <2> QED
    BY <2>2, Zenon
<1> QED
  BY <1>3, <1>6, <1>7, <1>9, <1>10, Zenon

(* The values, and the lists that are inside of arrays and of objects, of  *)
(* any length.                                                             *)
Values == UNION {At(n).value : n \in Nat}
Kinds == {"array", "object"}
OfKind(kind, n) == IF kind = "object" THEN At(n).object ELSE At(n).array
List(kind) == UNION {OfKind(kind, n) : n \in Nat}
Entries(kind) == IF kind = "object" THEN Members(Values) ELSE Elements(Values)

(* The entries of n tokens. *)
EntriesAt(kind, n) ==
  IF kind = "object" THEN (IF n < 2 THEN {} ELSE Members(At(n - 2).value))
    ELSE Elements(At(n).value)

(* A member is a name, a colon and a value. *)
LEMMA MembersAre ==
  ASSUME NEW values, NEW e
  PROVE  e \in Members(values) <=>
           \E s \in Strings : \E p \in values : e = Member(s, p)
BY DEF Members

(* The lists of n tokens, by what they begin with. *)
LEMMA ListAt ==
  ASSUME NEW kind \in Kinds, NEW n \in Nat, NEW p
  PROVE  p \in OfKind(kind, n) <=>
           \/ p = Empty /\ n = 0
           \/ p \in EntriesAt(kind, n)
           \/ \E k \in 0..(n - 1) : \E e \in EntriesAt(kind, k) :
                \E q \in OfKind(kind, n - k - 1) : p = Behind(e, q)
<1> DEFINE entries == [k \in 0..n |-> EntriesAt(kind, k)]
           lists == [k \in 0..(n - 1) |-> OfKind(kind, k)]
<1>1. OfKind(kind, n) = ListsOf(entries, lists, n)
  <2>1. CASE kind = "object"
    <3>1. entries = [k \in 0..n |-> IF k < 2 THEN {} ELSE Members(At(k - 2).value)]
      BY <2>1, Zenon DEF EntriesAt
    <3>2. lists = [k \in 0..(n - 1) |-> At(k).object]
      BY <2>1, Zenon DEF OfKind
    <3>3. OfKind(kind, n) = At(n).object
      BY <2>1, Zenon DEF OfKind
    <3> HIDE DEF entries, lists
    <3> QED
      BY <3>1, <3>2, <3>3, PhrasesGrow
  <2>2. CASE kind # "object"
    <3>1. entries = [k \in 0..n |-> Elements(At(k).value)]
      BY <2>2, Zenon DEF EntriesAt
    <3>2. lists = [k \in 0..(n - 1) |-> At(k).array]
      BY <2>2, Zenon DEF OfKind
    <3>3. OfKind(kind, n) = At(n).array
      BY <2>2, Zenon DEF OfKind
    <3> HIDE DEF entries, lists
    <3> QED
      BY <3>1, <3>2, <3>3, PhrasesGrow
  <2> QED
    BY <2>1, <2>2
<1>2. entries[n] = EntriesAt(kind, n)
  <2>1. n \in 0..n
    OBVIOUS
  <2> QED
    BY <2>1, Zenon
<1>3. ASSUME NEW k \in 0..(n - 1)
      PROVE  entries[k] = EntriesAt(kind, k) /\ lists[n - k - 1] = OfKind(kind, n - k - 1)
  <2>1. k \in 0..n /\ n - k - 1 \in 0..(n - 1)
    OBVIOUS
  <2> QED
    BY <2>1, Zenon
<1> HIDE DEF entries, lists
<1>4. p \in ListsOf(entries, lists, n) <=>
        \/ p = Empty /\ n = 0
        \/ p \in entries[n]
        \/ \E k \in 0..(n - 1) : \E e \in entries[k] : \E q \in lists[n - k - 1] : p = Behind(e, q)
  <2>1. p \in ListsOf(entries, lists, n) <=>
          \/ p \in {x \in {Empty} : n = 0} \/ p \in entries[n]
          \/ \E k \in 0..(n - 1) : p \in Pairs(entries[k], lists[n - k - 1])
    BY Zenon DEF ListsOf
  <2>2. \A k : p \in Pairs(entries[k], lists[n - k - 1])
                 <=> \E e \in entries[k] : \E q \in lists[n - k - 1] : p = Behind(e, q)
    BY DEF Pairs
  <2> QED
    BY <2>1, <2>2, Zenon
<1>5. (\E k \in 0..(n - 1) : \E e \in entries[k] : \E q \in lists[n - k - 1] : p = Behind(e, q))
       <=> \E k \in 0..(n - 1) : \E e \in EntriesAt(kind, k) : \E q \in OfKind(kind, n - k - 1) :
             p = Behind(e, q)
  BY <1>3, Zenon
<1> QED
  BY <1>1, <1>2, <1>4, <1>5, Zenon

(* Every item has a length. *)
LEMMA EntriesAre ==
  ASSUME NEW kind \in Kinds, NEW e
  PROVE  e \in Entries(kind) <=> \E n \in Nat : e \in EntriesAt(kind, n)
<1>1. CASE kind = "object"
  <2>1. ASSUME e \in Entries(kind) PROVE \E n \in Nat : e \in EntriesAt(kind, n)
    <3>1. PICK s \in Strings : \E p \in Values : e = Member(s, p)
      <4>1. e \in Members(Values)
        BY <1>1, <2>1, Zenon DEF Entries
      <4> QED
        BY <4>1, MembersAre
    <3> PICK p \in Values : e = Member(s, p)
      BY <3>1
    <3>2. PICK m \in Nat : p \in At(m).value
      BY Zenon DEF Values
    <3>3. m + 2 \in Nat /\ ~(m + 2 < 2) /\ (m + 2) - 2 = m
      OBVIOUS
    <3>4. e \in Members(At(m).value)
      BY <3>2, MembersAre, Zenon
    <3>5. e \in EntriesAt(kind, m + 2)
      BY <1>1, <3>3, <3>4 DEF EntriesAt
    <3> QED
      BY <3>3, <3>5, Zenon
  <2>2. ASSUME NEW n \in Nat, e \in EntriesAt(kind, n) PROVE e \in Entries(kind)
    <3>1. ~(n < 2) /\ e \in Members(At(n - 2).value)
      BY <1>1, <2>2, Zenon DEF EntriesAt
    <3>2. n - 2 \in Nat
      BY <3>1
    <3>3. At(n - 2).value \subseteq Values
      BY <3>2, Zenon DEF Values
    <3>4. e \in Members(Values)
      <4>1. \E s \in Strings : \E p \in At(n - 2).value : e = Member(s, p)
        BY <3>1, MembersAre
      <4>2. \E s \in Strings : \E p \in Values : e = Member(s, p)
        BY <3>3, <4>1, Zenon
      <4> QED
        BY <4>2, MembersAre
    <3> QED
      BY <1>1, <3>4, Zenon DEF Entries
  <2> QED
    BY <2>1, <2>2
<1>2. CASE kind # "object"
  <2>1. e \in Elements(Values) <=> \E n \in Nat : e \in Elements(At(n).value)
    BY Zenon DEF Elements, Values
  <2> QED
    BY <1>2, <2>1, Zenon DEF Entries, EntriesAt
<1> QED
  BY <1>1, <1>2

(* A list is empty, or an item, or an item and a comma before a list. *)
LEMMA ListIs ==
  ASSUME NEW kind \in Kinds, NEW p
  PROVE  p \in List(kind) <=>
           p = Empty \/ p \in Entries(kind) \/ \E e \in Entries(kind), q \in List(kind) :
             p = Behind(e, q)
<1>1. ASSUME p \in List(kind)
      PROVE  p = Empty \/ p \in Entries(kind) \/ \E e \in Entries(kind), q \in List(kind) :
               p = Behind(e, q)
  <2>1. PICK n \in Nat : p \in OfKind(kind, n)
    BY <1>1, Zenon DEF List
  <2>2. CASE p = Empty
    BY <2>2
  <2>3. CASE p \in EntriesAt(kind, n)
    BY <2>3, EntriesAre
  <2>4. CASE \E k \in 0..(n - 1) : \E e \in EntriesAt(kind, k) :
          \E q \in OfKind(kind, n - k - 1) : p = Behind(e, q)
    <3>1. PICK k \in 0..(n - 1) : \E e \in EntriesAt(kind, k) :
            \E q \in OfKind(kind, n - k - 1) : p = Behind(e, q)
      BY <2>4
    <3>2. PICK e \in EntriesAt(kind, k) : \E q \in OfKind(kind, n - k - 1) : p = Behind(e, q)
      BY <3>1
    <3>3. PICK q \in OfKind(kind, n - k - 1) : p = Behind(e, q)
      BY <3>2
    <3>4. k \in Nat /\ n - k - 1 \in Nat
      OBVIOUS
    <3>5. e \in Entries(kind)
      BY <3>4, EntriesAre
    <3>6. q \in List(kind)
      BY <3>4, Zenon DEF List
    <3> QED
      BY <3>3, <3>5, <3>6, Zenon
  <2> QED
    BY <2>1, <2>2, <2>3, <2>4, ListAt
<1>2. ASSUME p = Empty PROVE p \in List(kind)
  <2>1. p \in OfKind(kind, 0)
    BY <1>2, ListAt
  <2> QED
    BY <2>1 DEF List
<1>3. ASSUME p \in Entries(kind) PROVE p \in List(kind)
  <2>1. PICK n \in Nat : p \in EntriesAt(kind, n)
    BY <1>3, EntriesAre
  <2>2. p \in OfKind(kind, n)
    BY <2>1, ListAt
  <2> QED
    BY <2>2, Zenon DEF List
<1>4. ASSUME NEW e \in Entries(kind), NEW q \in List(kind), p = Behind(e, q) PROVE p \in List(kind)
  <2>1. PICK k \in Nat : e \in EntriesAt(kind, k)
    BY EntriesAre
  <2>2. PICK j \in Nat : q \in OfKind(kind, j)
    BY Zenon DEF List
  <2> DEFINE n == k + j + 1
  <2>3. n \in Nat /\ k \in 0..(n - 1) /\ n - k - 1 = j
    OBVIOUS
  <2> HIDE DEF n
  <2>4. q \in OfKind(kind, n - k - 1)
    BY <2>2, <2>3
  <2>5. p \in OfKind(kind, n)
    BY <1>4, <2>1, <2>3, <2>4, ListAt
  <2> QED
    BY <2>3, <2>5, Zenon DEF List
<1> QED
  BY <1>1, <1>2, <1>3, <1>4, Zenon

(* A value is one token, an array or an object. *)
LEMMA ValueIs ==
  ASSUME NEW p
  PROVE  p \in Values <=>
           \/ p \in Singles
           \/ \E q \in List("array") :
                p = Phrase(<<"[">> \o q.text \o <<"]">>, Meant("array", q.meaning))
           \/ \E q \in List("object") :
                Distinct(q.meaning) /\ p = Phrase(<<"{">> \o q.text \o <<"}">>,
                  Meant("object", q.meaning))
<1>1. \A n \in Nat : OfKind("array", n) = At(n).array /\ OfKind("object", n) = At(n).object
  BY DEF OfKind
<1>2. ASSUME NEW n \in Nat
      PROVE  p \in Containers(At(n)) <=>
               \/ \E q \in OfKind("array", n) :
                    p = Phrase(<<"[">> \o q.text \o <<"]">>, Meant("array", q.meaning))
               \/ \E q \in OfKind("object", n) :
                    Distinct(q.meaning) /\ p = Phrase(<<"{">> \o q.text \o <<"}">>,
                      Meant("object", q.meaning))
  BY <1>1, Zenon DEF Containers, Enclosed
<1>3. ASSUME p \in Values, p \notin Singles PROVE \E n \in Nat : p \in Containers(At(n))
  <2>1. PICK n \in Nat : p \in At(n).value
    BY <1>3, Zenon DEF Values
  <2>2. p \in {r \in Singles : n = 1} \cup (IF n < 2 THEN {} ELSE Containers(At(n - 2)))
    BY <2>1, PhrasesGrow
  <2>3. ~(n < 2) /\ p \in Containers(At(n - 2))
    BY <1>3, <2>2, Zenon
  <2>4. n - 2 \in Nat
    BY <2>3
  <2> QED
    BY <2>3, <2>4, Zenon
<1>4. ASSUME NEW n \in Nat, p \in Containers(At(n)) PROVE p \in Values
  <2>1. n + 2 \in Nat /\ ~(n + 2 < 2) /\ (n + 2) - 2 = n
    OBVIOUS
  <2>2. At(n + 2).value = {r \in Singles : n + 2 = 1} \cup
          (IF n + 2 < 2 THEN {} ELSE Containers(At((n + 2) - 2)))
    BY <2>1, PhrasesGrow
  <2>3. p \in At(n + 2).value
    BY <1>4, <2>1, <2>2
  <2> QED
    BY <2>1, <2>3, Zenon DEF Values
<1>5. ASSUME p \in Singles PROVE p \in Values
  <2>1. At(1).value = {r \in Singles : 1 = 1} \cup (IF 1 < 2 THEN {} ELSE Containers(At(1 - 2)))
    BY PhrasesGrow
  <2>2. p \in At(1).value
    BY <1>5, <2>1
  <2> QED
    BY <2>2 DEF Values
<1>6. (\E n \in Nat : p \in Containers(At(n))) <=>
           \/ \E q \in List("array") :
                p = Phrase(<<"[">> \o q.text \o <<"]">>, Meant("array", q.meaning))
           \/ \E q \in List("object") :
                Distinct(q.meaning) /\ p = Phrase(<<"{">> \o q.text \o <<"}">>,
                  Meant("object", q.meaning))
  <2>1. (\E n \in Nat : \E q \in OfKind("array", n) :
          p = Phrase(<<"[">> \o q.text \o <<"]">>, Meant("array", q.meaning)))
         <=> \E q \in List("array") :
               p = Phrase(<<"[">> \o q.text \o <<"]">>, Meant("array", q.meaning))
    BY Zenon DEF List
  <2>2. (\E n \in Nat : \E q \in OfKind("object", n) :
            Distinct(q.meaning) /\ p = Phrase(<<"{">> \o q.text \o <<"}">>,
              Meant("object", q.meaning)))
         <=> \E q \in List("object") :
                Distinct(q.meaning) /\ p = Phrase(<<"{">> \o q.text \o <<"}">>,
                  Meant("object", q.meaning))
    BY Zenon DEF List
  <2> QED
    BY <1>2, <2>1, <2>2, Zenon
<1> QED
  BY <1>3, <1>4, <1>5, <1>6, Zenon

(* Sequences of items, or of anything else. *)
IsList(m) == m \in Seq(Range(m))

(* Two lists in a row. *)
LEMMA ListsJoined ==
  ASSUME NEW m, NEW n, IsList(m), IsList(n)
  PROVE  /\ IsList(m \o n) /\ Len(m \o n) = Len(m) + Len(n) /\ Len(m) \in Nat /\ Len(n) \in Nat
         /\ \A i \in 1..(Len(m) + Len(n)) :
              (m \o n)[i] = IF i <= Len(m) THEN m[i] ELSE n[i - Len(m)]
<1> DEFINE S == Range(m) \cup Range(n)
<1>1. m \in Seq(S) /\ n \in Seq(S)
  BY SeqMonotonic DEF IsList
<1> HIDE DEF S
<1>2. /\ m \o n \in Seq(S) /\ Len(m \o n) = Len(m) + Len(n)
      /\ \A i \in 1..(Len(m) + Len(n)) : (m \o n)[i] = IF i <= Len(m) THEN m[i] ELSE n[i - Len(m)]
  BY <1>1, ConcatProperties
<1>3. IsList(m \o n)
  BY <1>2, OwnRange DEF IsList
<1> QED
  BY <1>1, <1>2, <1>3, LenProperties

(* Three lists in a row. *)
LEMMA ListsAssociate ==
  ASSUME NEW l, NEW m, NEW n, IsList(l), IsList(m), IsList(n)
  PROVE  (l \o m) \o n = l \o (m \o n)
<1> DEFINE S == Range(l) \cup Range(m) \cup Range(n)
<1>1. l \in Seq(S) /\ m \in Seq(S) /\ n \in Seq(S)
  BY SeqMonotonic DEF IsList
<1> HIDE DEF S
<1> QED
  BY <1>1, ConcatAssociative

(* A list of one. *)
LEMMA ListOfOne == ASSUME NEW x PROVE IsList(<<x>>) /\ Len(<<x>>) = 1
<1>1. <<x>> \in Seq({x})
  OBVIOUS
<1> QED
  BY <1>1, OwnRange DEF IsList

(* The list of none. *)
LEMMA ListOfNone == IsList(<<>>) /\ \A m : IsList(m) => <<>> \o m = m /\ m \o <<>> = m
<1>1. <<>> \in Seq({})
  BY EmptySeq
<1> QED
  BY <1>1, OwnRange, ConcatEmptySeq DEF IsList

(* To append is to join a list of one. *)
LEMMA AppendedList ==
  ASSUME NEW m, NEW x, IsList(m)
  PROVE  Append(m, x) = m \o <<x>> /\ IsList(Append(m, x))
<1> DEFINE S == Range(m) \cup {x}
<1>1. m \in Seq(S) /\ <<x>> \in Seq(S) /\ x \in S
  BY SeqMonotonic DEF IsList
<1>2. /\ m \o <<x>> \in Seq(S) /\ Len(m \o <<x>>) = Len(m) + 1 /\ Len(m) \in Nat
      /\ \A i \in 1..(Len(m) + 1) :
           (m \o <<x>>)[i] = IF i <= Len(m) THEN m[i] ELSE <<x>>[i - Len(m)]
  <2> HIDE DEF S
  <2>1. Len(<<x>>) = 1
    OBVIOUS
  <2> QED
    BY <1>1, <2>1, ConcatProperties, LenProperties
<1>3. /\ Append(m, x) \in Seq(S) /\ Len(Append(m, x)) = Len(m) + 1
      /\ \A i \in 1..Len(m) : Append(m, x)[i] = m[i]
      /\ Append(m, x)[Len(m) + 1] = x
  <2> HIDE DEF S
  <2> QED
    BY <1>1, AppendProperties
<1>4. Append(m, x) = m \o <<x>>
  <2> DEFINE u == m \o <<x>>
             w == Append(m, x)
             k == Len(m)
  <2>1. \A i \in 1..(k + 1) : u[i] = w[i]
    <3>1. ASSUME NEW i \in 1..(k + 1) PROVE u[i] = w[i]
      <4>1. CASE i <= k
        BY <1>2, <1>3, <4>1
      <4>2. CASE i = k + 1
        <5>1. u[i] = <<x>>[i - k] /\ i - k = 1
          BY <1>2, <4>2
        <5>2. w[i] = x
          BY <1>3, <4>2
        <5> HIDE DEF u, w, k
        <5> QED
          BY <5>1, <5>2
      <4> QED
        BY <1>2, <4>1, <4>2
    <3> QED
      BY <3>1
  <2>2. w \in Seq(S) /\ u \in Seq(S) /\ Len(w) = k + 1 /\ Len(u) = k + 1
    BY <1>2, <1>3
  <2> HIDE DEF u, w, k, S
  <2>3. u = w
    BY <2>1, <2>2, SeqEqual
  <2> QED
    BY <2>3 DEF u, w
<1>5. IsList(Append(m, x))
  <2> HIDE DEF S
  <2> QED
    BY <1>3, OwnRange DEF IsList
<1> QED
  BY <1>4, <1>5

(* What an item means does not make its name another. *)
LEMMA Renamed ==
  ASSUME NEW a, NEW n, NEW k, NEW m, NEW c, IsList(a), IsList(c),
         Distinct((a \o <<Item(n, k)>>) \o c)
  PROVE  Distinct((a \o <<Item(n, m)>>) \o c)
<1> DEFINE l == Len(a)
           d == Len(c)
<1>1. ASSUME NEW v
      PROVE  LET u == a \o <<Item(n, v)>>
             IN  /\ IsList(u) /\ Len(u) = l + 1 /\ l \in Nat /\ d \in Nat
                 /\ \A i \in 1..(l + 1) : u[i] = IF i <= l THEN a[i] ELSE Item(n, v)
  <2> DEFINE x == Item(n, v)
             u == a \o <<x>>
  <2>1. IsList(<<x>>) /\ Len(<<x>>) = 1
    BY ListOfOne
  <2>2. /\ IsList(u) /\ Len(u) = l + 1 /\ l \in Nat
        /\ \A i \in 1..(l + 1) : u[i] = IF i <= l THEN a[i] ELSE <<x>>[i - l]
    BY <2>1, ListsJoined
  <2>3. \A i \in 1..(l + 1) : ~(i <= l) => <<x>>[i - l] = x
    <3>1. ASSUME NEW i \in 1..(l + 1), ~(i <= l) PROVE i - l = 1
      BY <2>2, <3>1
    <3> HIDE DEF x
    <3> QED
      BY <3>1
  <2>4. d \in Nat
    BY LenProperties DEF IsList
  <2> HIDE DEF x, l, d
  <2>5. \A i \in 1..(l + 1) : u[i] = IF i <= l THEN a[i] ELSE x
    <3> HIDE DEF u
    <3> QED
      BY <2>2, <2>3
  <2> QED
    BY <2>2, <2>4, <2>5 DEF x
<1>2. ASSUME NEW v
      PROVE  LET w == (a \o <<Item(n, v)>>) \o c
             IN  /\ DOMAIN w = 1..(l + 1 + d)
                 /\ \A i \in 1..(l + 1 + d) :
                      w[i] = IF i <= l + 1 THEN (IF i <= l THEN a[i] ELSE Item(n, v))
                        ELSE c[i - (l + 1)]
  <2> DEFINE u == a \o <<Item(n, v)>>
             w == u \o c
  <2>1. /\ IsList(u) /\ Len(u) = l + 1 /\ l \in Nat /\ d \in Nat
        /\ \A i \in 1..(l + 1) : u[i] = IF i <= l THEN a[i] ELSE Item(n, v)
    BY <1>1
  <2> HIDE DEF u
  <2>2. /\ IsList(w) /\ Len(w) = l + 1 + d
        /\ \A i \in 1..(l + 1 + d) : w[i] = IF i <= l + 1 THEN u[i] ELSE c[i - (l + 1)]
    BY <2>1, ListsJoined
  <2>3. DOMAIN w = 1..(l + 1 + d)
    BY <2>2, LenProperties DEF IsList
  <2> HIDE DEF w, l, d
  <2>4. \A i \in 1..(l + 1 + d) : i <= l + 1 => i \in 1..(l + 1)
    BY <2>1
  <2>5. \A i \in 1..(l + 1 + d) :
          w[i] = IF i <= l + 1 THEN (IF i <= l THEN a[i] ELSE Item(n, v)) ELSE c[i - (l + 1)]
    BY <2>1, <2>2, <2>4
  <2> QED
    BY <2>3, <2>5 DEF u, w
<1> DEFINE s == (a \o <<Item(n, k)>>) \o c
           t == (a \o <<Item(n, m)>>) \o c
<1>3. DOMAIN s = DOMAIN t
  BY <1>2
<1>4. \A i \in DOMAIN t : s[i].name = t[i].name
  <2>1. Item(n, k).name = n /\ Item(n, m).name = n
    BY DEF Item
  <2>2. \A i \in 1..(l + 1 + d) :
           s[i] = IF i <= l + 1 THEN (IF i <= l THEN a[i] ELSE Item(n, k)) ELSE c[i - (l + 1)]
    BY <1>2
  <2>3. \A i \in 1..(l + 1 + d) :
           t[i] = IF i <= l + 1 THEN (IF i <= l THEN a[i] ELSE Item(n, m)) ELSE c[i - (l + 1)]
    BY <1>2
  <2>4. DOMAIN t = 1..(l + 1 + d)
    BY <1>2
  <2> HIDE DEF s, t, l, d
  <2> QED
    BY <2>1, <2>2, <2>3, <2>4
<1>5. Distinct(s)
  OBVIOUS
<1> HIDE DEF s, t
<1>6. Distinct(t)
  BY <1>3, <1>4, <1>5 DEF Distinct
<1> QED
  BY <1>6 DEF t

-----------------------------------------------------------------------------
(* What phrases look like. *)
LEMMA PhraseIs == \A s, m : Phrase(s, m).text = s /\ Phrase(s, m).meaning = m
  BY DEF Phrase

(* One token is a text. *)
LEMMA TokenText == ASSUME NEW t \in Tokens PROVE <<t>> \in Seq(Tokens) /\ Len(<<t>>) = 1
  OBVIOUS

(* The tokens that the parser looks for. *)
LEMMA TheseAreTokens ==
  /\ "[" \in Tokens /\ "]" \in Tokens /\ "{" \in Tokens /\ "}" \in Tokens
  /\ ":" \in Tokens /\ "," \in Tokens
  /\ \A t : t \in Strings \/ t \in Scalars \/ t \in NulStrings => t \in Tokens
  BY DEF Tokens, Brackets

Sized(p, n) == p = Phrase(p.text, p.meaning) /\ p.text \in Seq(Tokens) /\ Len(p.text) = n

(* A phrase is made of what its rule puts together. *)
LEMMA MadePhrase ==
  ASSUME NEW s \in Seq(Tokens), NEW m
  PROVE  Sized(Phrase(s, m), Len(s))
BY PhraseIs DEF Sized

SizedAt(n) ==
  /\ \A p \in At(n).value : Sized(p, n)
  /\ \A kind \in Kinds : \A p \in OfKind(kind, n) : Sized(p, n) /\ IsList(p.meaning)

(* An array or an object has two tokens more than its inside. *)
LEMMA ContainerSized ==
  ASSUME NEW n \in Nat, SizedAt(n), NEW p \in Containers(At(n))
  PROVE  Sized(p, n + 2)
<1>1. PICK open, close, q, kind :
        /\ open \in Tokens /\ close \in Tokens
        /\ q.text \in Seq(Tokens) /\ Len(q.text) = n
        /\ p = Phrase(<<open>> \o q.text \o <<close>>, Meant(kind, q.meaning))
  <2>1. CASE p \in Enclosed("[", "array", At(n).array, "]")
    <3>1. PICK q \in At(n).array :
            p = Phrase(<<"[">> \o q.text \o <<"]">>, Meant("array", q.meaning))
      BY <2>1, Zenon DEF Enclosed
    <3>2. OfKind("array", n) = At(n).array
      BY DEF OfKind
    <3>3. q.text \in Seq(Tokens) /\ Len(q.text) = n
      BY <3>2 DEF SizedAt, Kinds, Sized
    <3> QED
      BY <3>1, <3>3, TheseAreTokens
  <2>2. CASE p \in Enclosed("{", "object", {r \in At(n).object : Distinct(r.meaning)}, "}")
    <3>1. PICK q \in At(n).object :
            p = Phrase(<<"{">> \o q.text \o <<"}">>, Meant("object", q.meaning))
      BY <2>2, Zenon DEF Enclosed
    <3>2. OfKind("object", n) = At(n).object
      BY DEF OfKind
    <3>3. q.text \in Seq(Tokens) /\ Len(q.text) = n
      BY <3>2 DEF SizedAt, Kinds, Sized
    <3> QED
      BY <3>1, <3>3, TheseAreTokens
  <2> QED
    BY <2>1, <2>2, Zenon DEF Containers
<1>2. <<open>> \in Seq(Tokens) /\ <<close>> \in Seq(Tokens) /\ Len(<<open>>) = 1
        /\ Len(<<close>>) = 1
  BY <1>1
<1> DEFINE l == <<open>> \o q.text
           s == l \o <<close>>
<1>3. l \in Seq(Tokens) /\ Len(l) = 1 + n
  BY <1>1, <1>2, ConcatProperties
<1> HIDE DEF l
<1>4. s \in Seq(Tokens) /\ Len(s) = n + 2
  <2>1. s \in Seq(Tokens) /\ Len(s) = (1 + n) + 1
    BY <1>2, <1>3, ConcatProperties
  <2> HIDE DEF s
  <2> QED
    BY <2>1
<1>5. p = Phrase(s, Meant(kind, q.meaning))
  BY <1>1 DEF l
<1> HIDE DEF s
<1> QED
  BY <1>4, <1>5, MadePhrase

(* An item is as long as its table says. *)
LEMMA EntrySized ==
  ASSUME NEW kind \in Kinds, NEW n \in Nat, NEW e \in EntriesAt(kind, n), \A k \in 0..n :
         \A p \in At(k).value : Sized(p, k)
  PROVE  Sized(e, n) /\ IsList(e.meaning)
<1>1. CASE kind = "object"
  <2>1. ~(n < 2) /\ e \in Members(At(n - 2).value)
    BY <1>1, Zenon DEF EntriesAt
  <2>2. PICK s \in Strings : \E p \in At(n - 2).value : e = Member(s, p)
    BY <2>1, MembersAre
  <2>3. PICK p \in At(n - 2).value : e = Member(s, p)
    BY <2>2
  <2>4. n - 2 \in 0..n
    BY <2>1
  <2>5. p.text \in Seq(Tokens) /\ Len(p.text) = n - 2
    BY <2>4, Zenon DEF Sized
  <2> DEFINE l == <<s, ":">>
             t == l \o p.text
  <2>6. l \in Seq(Tokens) /\ Len(l) = 2
    <3>1. s \in Tokens /\ ":" \in Tokens
      BY TheseAreTokens
    <3> QED
      BY <3>1
  <2> HIDE DEF l
  <2>7. t \in Seq(Tokens) /\ Len(t) = n
    <3>1. t \in Seq(Tokens) /\ Len(t) = Len(l) + Len(p.text)
      BY <2>5, <2>6, ConcatProperties
    <3> HIDE DEF t
    <3> QED
      BY <2>5, <2>6, <3>1
  <2> DEFINE i == Item(s, p.meaning)
  <2>8. e = Phrase(t, <<i>>)
    BY <2>3 DEF Member, l
  <2> HIDE DEF t, i
  <2>9. e.meaning = <<i>>
    BY <2>8, PhraseIs
  <2> QED
    BY <2>7, <2>8, <2>9, MadePhrase, ListOfOne
<1>2. CASE kind # "object"
  <2>1. e \in Elements(At(n).value)
    BY <1>2, Zenon DEF EntriesAt
  <2>2. PICK p \in At(n).value : e = Element(p)
    BY <2>1, Zenon DEF Elements
  <2>3. n \in 0..n
    OBVIOUS
  <2>4. p.text \in Seq(Tokens) /\ Len(p.text) = n
    BY <2>3, Zenon DEF Sized
  <2> DEFINE i == Item("", p.meaning)
  <2>5. e = Phrase(p.text, <<i>>)
    BY <2>2 DEF Element
  <2> HIDE DEF i
  <2>6. e.meaning = <<i>>
    BY <2>5, PhraseIs
  <2> QED
    BY <2>4, <2>5, <2>6, MadePhrase, ListOfOne
<1> QED
  BY <1>1, <1>2

(* An item, a comma and a list. *)
LEMMA BehindSized ==
  ASSUME NEW n \in Nat, NEW k \in Nat, NEW e, NEW q, Sized(e, k), Sized(q, n),
         IsList(e.meaning), IsList(q.meaning)
  PROVE  Sized(Behind(e, q), k + 1 + n) /\ IsList(Behind(e, q).meaning)
<1> DEFINE l == e.text \o <<",">>
           s == l \o q.text
           m == e.meaning \o q.meaning
<1>1. e.text \in Seq(Tokens) /\ Len(e.text) = k /\ q.text \in Seq(Tokens) /\ Len(q.text) = n
  BY DEF Sized
<1>2. <<",">> \in Seq(Tokens) /\ Len(<<",">>) = 1
  BY TheseAreTokens, TokenText
<1>3. l \in Seq(Tokens) /\ Len(l) = k + 1
  BY <1>1, <1>2, ConcatProperties
<1> HIDE DEF l
<1>4. s \in Seq(Tokens) /\ Len(s) = k + 1 + n
  <2>1. s \in Seq(Tokens) /\ Len(s) = Len(l) + Len(q.text)
    BY <1>1, <1>3, ConcatProperties
  <2> HIDE DEF s
  <2> QED
    BY <1>1, <1>3, <2>1
<1>5. IsList(m)
  BY ListsJoined
<1>6. Behind(e, q) = Phrase(s, m)
  BY DEF Behind, l
<1> HIDE DEF s, m
<1> QED
  BY <1>4, <1>5, <1>6, MadePhrase, PhraseIs

(* Every phrase is as long as its table says. *)
LEMMA AllSized == \A n \in Nat : SizedAt(n)
<1>1. ASSUME NEW n \in Nat, \A k \in 0..(n - 1) : SizedAt(k) PROVE SizedAt(n)
  <2>1. ASSUME NEW p \in At(n).value PROVE Sized(p, n)
    <3>1. p \in {r \in Singles : n = 1} \cup (IF n < 2 THEN {} ELSE Containers(At(n - 2)))
      BY PhrasesGrow
    <3>2. CASE p \in Singles /\ n = 1
      <4>1. PICK t \in Scalars \cup Strings \cup NulStrings : p = Phrase(<<t>>, Meant(t, <<>>))
        BY <3>2, Zenon DEF Singles
      <4>2. <<t>> \in Seq(Tokens) /\ Len(<<t>>) = 1
        <5>1. t \in Tokens
          BY TheseAreTokens
        <5> QED
          BY <5>1, TokenText
      <4> DEFINE s == <<t>>
                 m == Meant(t, <<>>)
      <4>3. p = Phrase(s, m) /\ s \in Seq(Tokens) /\ Len(s) = n
        BY <3>2, <4>1, <4>2
      <4> HIDE DEF s, m
      <4> QED
        BY <4>3, MadePhrase
    <3>3. CASE ~(n < 2) /\ p \in Containers(At(n - 2))
      <4>1. n - 2 \in Nat /\ n - 2 \in 0..(n - 1) /\ (n - 2) + 2 = n
        BY <3>3
      <4>2. SizedAt(n - 2)
        BY <1>1, <4>1
      <4>3. Sized(p, (n - 2) + 2)
        BY <3>3, <4>1, <4>2, ContainerSized
      <4> QED
        BY <4>1, <4>3
    <3> QED
      BY <3>1, <3>2, <3>3, Zenon
  <2>2. \A k \in 0..n : \A p \in At(k).value : Sized(p, k)
    <3>1. \A k \in 0..n : k = n \/ k \in 0..(n - 1)
      OBVIOUS
    <3> QED
      BY <1>1, <2>1, <3>1, Zenon DEF SizedAt
  <2>3. ASSUME NEW kind \in Kinds, NEW k \in 0..n, NEW e \in EntriesAt(kind, k)
        PROVE  Sized(e, k) /\ IsList(e.meaning)
    <3>1. k \in Nat /\ \A i \in 0..k : i \in 0..n
      OBVIOUS
    <3>2. \A i \in 0..k : \A p \in At(i).value : Sized(p, i)
      BY <2>2, <3>1, Zenon
    <3> QED
      BY <3>1, <3>2, EntrySized
  <2>4. ASSUME NEW kind \in Kinds, NEW p \in OfKind(kind, n) PROVE Sized(p, n) /\ IsList(p.meaning)
    <3>1. CASE p = Empty /\ n = 0
      <4>1. <<>> \in Seq(Tokens) /\ Len(<<>>) = 0
        BY EmptySeq
      <4>2. p = Phrase(<<>>, <<>>)
        BY <3>1 DEF Empty
      <4>3. p.meaning = <<>>
        BY <4>2, PhraseIs
      <4>4. Sized(p, Len(<<>>))
        BY <4>1, <4>2, MadePhrase
      <4> QED
        BY <3>1, <4>1, <4>3, <4>4, ListOfNone
    <3>2. CASE p \in EntriesAt(kind, n)
      <4>1. n \in 0..n
        OBVIOUS
      <4> QED
        BY <2>3, <3>2, <4>1
    <3>3. ASSUME NEW k \in 0..(n - 1), NEW e \in EntriesAt(kind, k),
                   NEW q \in OfKind(kind, n - k - 1), p = Behind(e, q)
          PROVE  Sized(p, n) /\ IsList(p.meaning)
      <4>1. k \in 0..n /\ k \in Nat /\ n - k - 1 \in 0..(n - 1) /\ n - k - 1 \in Nat
              /\ k + 1 + (n - k - 1) = n
        OBVIOUS
      <4>2. Sized(e, k) /\ IsList(e.meaning)
        BY <2>3, <4>1
      <4>3. Sized(q, n - k - 1) /\ IsList(q.meaning)
        BY <1>1, <4>1, Zenon DEF SizedAt
      <4>4. Sized(Behind(e, q), k + 1 + (n - k - 1)) /\ IsList(Behind(e, q).meaning)
        BY <4>1, <4>2, <4>3, BehindSized
      <4> QED
        BY <3>3, <4>1, <4>4
    <3> QED
      BY <3>1, <3>2, <3>3, ListAt
  <2> QED
    BY <2>1, <2>4, Zenon DEF SizedAt
<1> DEFINE good == {n \in Nat : \A k \in 0..n : SizedAt(k)}
<1>2. 0 \in good
  <2>1. \A k \in 0..(0 - 1) : SizedAt(k)
    OBVIOUS
  <2>2. SizedAt(0)
    BY <1>1, <2>1
  <2>3. \A k \in 0..0 : k = 0
    OBVIOUS
  <2> QED
    BY <2>2, <2>3
<1>3. ASSUME NEW n \in Nat \ {0}, n - 1 \in good PROVE n \in good
  <2>1. SizedAt(n)
    BY <1>1, <1>3
  <2>2. \A k \in 0..n : k = n \/ k \in 0..(n - 1)
    OBVIOUS
  <2> QED
    BY <1>3, <2>1, <2>2
<1>4. Nat \subseteq good
  <2> HIDE DEF good
  <2> QED
    BY <1>2, <1>3, AllGood
<1>5. \A n \in Nat : n \in 0..n
  OBVIOUS
<1> QED
  BY <1>4, <1>5

(* Values and lists are texts with a meaning, of the length of their table. *)
IsPhrase(p) == p = Phrase(p.text, p.meaning) /\ p.text \in Seq(Tokens)

(* A value is a text with a meaning. *)
LEMMA ValueText ==
  ASSUME NEW p \in Values
  PROVE  IsPhrase(p) /\ Len(p.text) \in Nat /\ p \in At(Len(p.text)).value
<1>1. PICK n \in Nat : p \in At(n).value
  BY Zenon DEF Values
<1>2. Sized(p, n)
  BY <1>1, AllSized DEF SizedAt
<1> QED
  BY <1>1, <1>2 DEF Sized, IsPhrase

(* So is a list, and its meaning is a list. *)
LEMMA ListText ==
  ASSUME NEW kind \in Kinds, NEW p \in List(kind)
  PROVE  IsPhrase(p) /\ IsList(p.meaning)
<1>1. PICK n \in Nat : p \in OfKind(kind, n)
  BY Zenon DEF List
<1>2. Sized(p, n) /\ IsList(p.meaning)
  BY <1>1, AllSized DEF SizedAt
<1> QED
  BY <1>2 DEF Sized, IsPhrase

(* So is an item. *)
LEMMA EntryText ==
  ASSUME NEW kind \in Kinds, NEW e \in Entries(kind)
  PROVE  IsPhrase(e) /\ IsList(e.meaning)
<1>1. e \in List(kind)
  BY ListIs
<1> QED
  BY <1>1, ListText

(* Two texts in a row. *)
LEMMA TextsJoined ==
  ASSUME NEW s \in Seq(Tokens), NEW t \in Seq(Tokens)
  PROVE  s \o t \in Seq(Tokens) /\ Len(s \o t) = Len(s) + Len(t) /\ Len(s) \in Nat /\ Len(t) \in Nat
BY ConcatProperties, LenProperties

(* Three texts in a row. *)
LEMMA TextsAssociate ==
  ASSUME NEW s \in Seq(Tokens), NEW t \in Seq(Tokens), NEW u \in Seq(Tokens)
  PROVE  (s \o t) \o u = s \o (t \o u)
BY ConcatAssociative

(* Four texts in a row. *)
LEMMA FourAssociate ==
  ASSUME NEW s \in Seq(Tokens), NEW t \in Seq(Tokens), NEW u \in Seq(Tokens)
  PROVE  \A w \in Seq(Tokens) : (s \o (t \o u)) \o w = s \o (t \o (u \o w))
<1>1. PICK both \in Seq(Tokens) : both = t \o u
  BY TextsJoined
<1>2. ASSUME NEW w \in Seq(Tokens) PROVE (s \o both) \o w = s \o (t \o (u \o w))
  <2>1. (t \o u) \o w = t \o (u \o w)
    BY TextsAssociate
  <2>2. (s \o both) \o w = s \o (both \o w)
    BY TextsAssociate
  <2> QED
    BY <1>1, <2>1, <2>2
<1> QED
  BY <1>1, <1>2

(* The text of no tokens. *)
LEMMA NoText == <<>> \in Seq(Tokens) /\ \A s \in Seq(Tokens) : <<>> \o s = s /\ s \o <<>> = s
  BY EmptySeq, ConcatEmptySeq

(* What can come behind an item: nothing, or a comma and a list. *)
Commaed(q) == Phrase(<<",">> \o q.text, q.meaning)
Rest(kind) == {Empty} \cup {Commaed(q) : q \in List(kind)}
Both(p, r) == Phrase(p.text \o r.text, p.meaning \o r.meaning)

(* The list of no items. *)
LEMMA EmptyIs == Empty.text = <<>> /\ Empty.meaning = <<>> /\ IsPhrase(Empty)
                   /\ IsList(Empty.meaning)
<1>1. Empty = Phrase(<<>>, <<>>)
  BY DEF Empty
<1>2. Empty.text = <<>> /\ Empty.meaning = <<>>
  BY <1>1, PhraseIs
<1>3. IsPhrase(Empty)
  BY <1>1, <1>2, NoText DEF IsPhrase
<1> QED
  BY <1>2, <1>3, ListOfNone

(* What comes behind an item is a text with a meaning. *)
LEMMA RestIs ==
  ASSUME NEW kind \in Kinds, NEW r \in Rest(kind)
  PROVE  /\ IsPhrase(r) /\ IsList(r.meaning)
         /\ r = Empty \/ \E q \in List(kind) : r.text = <<",">> \o q.text /\ r.meaning = q.meaning
<1>1. CASE r = Empty
  BY <1>1, EmptyIs
<1>2. CASE \E q \in List(kind) : r = Commaed(q)
  <2>1. PICK q \in List(kind) : r = Commaed(q)
    BY <1>2
  <2>2. IsPhrase(q) /\ IsList(q.meaning)
    BY ListText
  <2> DEFINE s == <<",">> \o q.text
  <2>3. s \in Seq(Tokens)
    BY <2>2, TextsJoined, TokenText, TheseAreTokens DEF IsPhrase
  <2>4. r.text = s /\ r.meaning = q.meaning /\ r = Phrase(s, q.meaning)
    BY <2>1, PhraseIs DEF Commaed
  <2>5. IsPhrase(r)
    <3> HIDE DEF s
    <3> QED
      BY <2>3, <2>4 DEF IsPhrase
  <2> QED
    BY <2>2, <2>4, <2>5
<1> QED
  BY <1>1, <1>2, Zenon DEF Rest

(* A list is empty, or an item and what comes behind it. *)
LEMMA ListIsItemAndRest ==
  ASSUME NEW kind \in Kinds, NEW p
  PROVE  p \in List(kind) <=> p = Empty \/ \E e \in Entries(kind), r \in Rest(kind) : p = Both(e, r)
<1>1. ASSUME NEW e \in Entries(kind) PROVE Both(e, Empty) = e
  <2>1. IsPhrase(e) /\ IsList(e.meaning)
    BY EntryText
  <2>2. e.text \o <<>> = e.text /\ e.meaning \o <<>> = e.meaning
    BY <2>1, NoText, ListOfNone DEF IsPhrase
  <2> QED
    BY <2>1, <2>2, EmptyIs DEF Both, IsPhrase
<1>2. ASSUME NEW e \in Entries(kind), NEW q \in List(kind) PROVE Both(e, Commaed(q)) = Behind(e, q)
  <2>1. e.text \in Seq(Tokens) /\ q.text \in Seq(Tokens) /\ <<",">> \in Seq(Tokens)
    BY EntryText, ListText, TokenText, TheseAreTokens DEF IsPhrase
  <2>2. (e.text \o <<",">>) \o q.text = e.text \o (<<",">> \o q.text)
    BY <2>1, TextsAssociate
  <2>3. Commaed(q).text = <<",">> \o q.text /\ Commaed(q).meaning = q.meaning
    BY PhraseIs DEF Commaed
  <2> QED
    BY <2>2, <2>3, Zenon DEF Both, Behind
<1>3. Empty \in Rest(kind) /\ \A q \in List(kind) : Commaed(q) \in Rest(kind)
  BY Zenon DEF Rest
<1>4. ASSUME NEW r \in Rest(kind) PROVE r = Empty \/ \E q \in List(kind) : r = Commaed(q)
  BY Zenon DEF Rest
<1>5. ASSUME NEW e \in Entries(kind), NEW q \in List(kind), p = Behind(e, q)
      PROVE  \E d \in Entries(kind), r \in Rest(kind) : p = Both(d, r)
  <2>1. Commaed(q) \in Rest(kind) /\ p = Both(e, Commaed(q))
    BY <1>2, <1>3, <1>5
  <2> QED
    BY <2>1, Zenon
<1>6. ASSUME p \in Entries(kind) PROVE \E d \in Entries(kind), r \in Rest(kind) : p = Both(d, r)
  <2>1. Empty \in Rest(kind) /\ p = Both(p, Empty)
    BY <1>1, <1>3, <1>6
  <2> QED
    BY <1>6, <2>1, Zenon
<1>7. ASSUME NEW e \in Entries(kind), NEW r \in Rest(kind), p = Both(e, r) PROVE p \in List(kind)
  <2>1. CASE r = Empty
    BY <1>1, <1>7, <2>1, ListIs
  <2>2. ASSUME NEW q \in List(kind), r = Commaed(q) PROVE p \in List(kind)
    <3>1. p = Behind(e, q)
      BY <1>2, <1>7, <2>2
    <3> QED
      BY <3>1, ListIs
  <2> QED
    BY <1>4, <2>1, <2>2
<1> QED
  BY <1>5, <1>6, <1>7, ListIs, Zenon

(* Nothing may come behind an item, and so may a comma and a list. *)
LEMMA RestHas ==
  ASSUME NEW kind \in Kinds
  PROVE  Empty \in Rest(kind) /\ Empty \in List(kind) /\ \A q \in List(kind) :
           Commaed(q) \in Rest(kind)
<1>1. Empty \in List(kind)
  BY ListIs
<1> QED
  BY <1>1, Zenon DEF Rest

-----------------------------------------------------------------------------
(* The inside of a container as far as it has been read, with its items,   *)
(* where an item or the end can come next, and behind an item.             *)
Before(kind, b, items) ==
  /\ b \in Seq(Tokens) /\ IsList(items)
  /\ \A q \in List(kind) : Phrase(b \o q.text, items \o q.meaning) \in List(kind)

After(kind, b, items) ==
  /\ b \in Seq(Tokens) /\ IsList(items)
  /\ \A r \in Rest(kind) : Phrase(b \o r.text, items \o r.meaning) \in List(kind)

(* Where a container begins, an item or the end can come. *)
LEMMA BeforeAll == ASSUME NEW kind \in Kinds PROVE Before(kind, <<>>, <<>>)
<1>1. ASSUME NEW q \in List(kind) PROVE Phrase(<<>> \o q.text, <<>> \o q.meaning) = q
  <2>1. IsPhrase(q) /\ IsList(q.meaning)
    BY ListText
  <2>2. <<>> \o q.text = q.text /\ <<>> \o q.meaning = q.meaning
    BY <2>1, NoText, ListOfNone DEF IsPhrase
  <2> QED
    BY <2>1, <2>2 DEF IsPhrase
<1> QED
  BY <1>1, NoText, ListOfNone DEF Before

(* Behind an item, what comes behind an item can come. *)
LEMMA BeforeThenAfter ==
  ASSUME NEW kind \in Kinds, NEW b, NEW items, Before(kind, b, items), NEW e \in Entries(kind)
  PROVE  After(kind, b \o e.text, items \o e.meaning)
<1>1. /\ b \in Seq(Tokens) /\ e.text \in Seq(Tokens) /\ IsList(items) /\ IsList(e.meaning)
  BY EntryText DEF Before, IsPhrase
<1>2. b \o e.text \in Seq(Tokens) /\ IsList(items \o e.meaning)
  BY <1>1, TextsJoined, ListsJoined
<1>3. ASSUME NEW r \in Rest(kind)
      PROVE  Phrase((b \o e.text) \o r.text, (items \o e.meaning) \o r.meaning) \in List(kind)
  <2>1. r.text \in Seq(Tokens) /\ IsList(r.meaning)
    BY RestIs DEF IsPhrase
  <2>2. (b \o e.text) \o r.text = b \o (e.text \o r.text)
    BY <1>1, <2>1, TextsAssociate
  <2>3. (items \o e.meaning) \o r.meaning = items \o (e.meaning \o r.meaning)
    <3> DEFINE m == e.meaning
               n == r.meaning
    <3>1. IsList(items) /\ IsList(m) /\ IsList(n)
      BY <1>1, <2>1
    <3> HIDE DEF m, n
    <3>2. (items \o m) \o n = items \o (m \o n)
      BY <3>1, ListsAssociate
    <3> QED
      BY <3>2 DEF m, n
  <2> DEFINE q == Both(e, r)
  <2>4. q \in List(kind)
    BY ListIsItemAndRest
  <2>5. q.text = e.text \o r.text /\ q.meaning = e.meaning \o r.meaning
    BY PhraseIs DEF Both
  <2> HIDE DEF q
  <2>6. Phrase(b \o q.text, items \o q.meaning) \in List(kind)
    BY <2>4 DEF Before
  <2> QED
    BY <2>2, <2>3, <2>5, <2>6, Zenon
<1> QED
  BY <1>2, <1>3, Zenon DEF After

(* Behind a comma, an item or the end can come. *)
LEMMA AfterThenBefore ==
  ASSUME NEW kind \in Kinds, NEW b, NEW items, After(kind, b, items)
  PROVE  Before(kind, b \o <<",">>, items)
<1>1. b \in Seq(Tokens) /\ IsList(items) /\ <<",">> \in Seq(Tokens)
  BY TokenText, TheseAreTokens DEF After
<1>2. b \o <<",">> \in Seq(Tokens)
  BY <1>1, TextsJoined
<1>3. ASSUME NEW q \in List(kind)
      PROVE  Phrase((b \o <<",">>) \o q.text, items \o q.meaning) \in List(kind)
  <2>1. q.text \in Seq(Tokens)
    BY ListText DEF IsPhrase
  <2>2. (b \o <<",">>) \o q.text = b \o (<<",">> \o q.text)
    BY <1>1, <2>1, TextsAssociate
  <2> DEFINE r == Commaed(q)
  <2>3. r \in Rest(kind)
    BY RestHas
  <2>4. r.text = <<",">> \o q.text /\ r.meaning = q.meaning
    BY PhraseIs DEF Commaed
  <2> HIDE DEF r
  <2>5. Phrase(b \o r.text, items \o r.meaning) \in List(kind)
    BY <2>3 DEF After
  <2> QED
    BY <2>2, <2>4, <2>5, Zenon
<1> QED
  BY <1>1, <1>2, <1>3, Zenon DEF Before

(* Either is a list as it stands. *)
LEMMA ReadIsList ==
  ASSUME NEW kind \in Kinds, NEW b, NEW items, Before(kind, b, items) \/ After(kind, b, items)
  PROVE  Phrase(b, items) \in List(kind)
<1>1. Empty \in List(kind) /\ Empty \in Rest(kind)
  BY RestHas
<1>2. b \in Seq(Tokens) /\ IsList(items)
  BY DEF Before, After
<1>3. b \o Empty.text = b /\ items \o Empty.meaning = items
  BY <1>2, EmptyIs, NoText, ListOfNone
<1>4. Phrase(b \o Empty.text, items \o Empty.meaning) \in List(kind)
  BY <1>1, Zenon DEF Before, After
<1> QED
  BY <1>3, <1>4

-----------------------------------------------------------------------------
(* Containers. *)
OpenOf(kind) == IF kind = "object" THEN "{" ELSE "["
CloseOf(kind) == IF kind = "object" THEN "}" ELSE "]"
Clean(kind, items) == kind = "object" => Distinct(items)

(* Brackets are tokens. *)
LEMMA BracketsAre ==
  ASSUME NEW kind \in Kinds
  PROVE  /\ OpenOf(kind) \in Tokens /\ CloseOf(kind) \in Tokens
         /\ <<OpenOf(kind)>> \in Seq(Tokens) /\ <<CloseOf(kind)>> \in Seq(Tokens)
<1>1. OpenOf(kind) \in Tokens /\ CloseOf(kind) \in Tokens
  BY TheseAreTokens DEF OpenOf, CloseOf
<1> QED
  BY <1>1, TokenText

(* A list between brackets is a value, without a name twice in an object. *)
LEMMA ContainerIsValue ==
  ASSUME NEW kind \in Kinds, NEW b \in Seq(Tokens), NEW items, Phrase(b, items) \in List(kind),
         Clean(kind, items)
  PROVE  Phrase(<<OpenOf(kind)>> \o (b \o <<CloseOf(kind)>>), Meant(kind, items)) \in Values
<1> DEFINE q == Phrase(b, items)
<1>1. q.text = b /\ q.meaning = items
  BY PhraseIs
<1>2. (<<OpenOf(kind)>> \o b) \o <<CloseOf(kind)>> = <<OpenOf(kind)>> \o (b \o <<CloseOf(kind)>>)
  BY BracketsAre, TextsAssociate
<1> DEFINE p == Phrase(<<OpenOf(kind)>> \o (b \o <<CloseOf(kind)>>), Meant(kind, items))
<1> HIDE DEF q
<1>3. q \in List(kind)
  BY DEF q
<1>4. CASE kind = "object"
  <2>1. p = Phrase(<<"{">> \o q.text \o <<"}">>, Meant("object", q.meaning))
    BY <1>1, <1>2, <1>4, Zenon DEF OpenOf, CloseOf
  <2>2. q \in List("object") /\ Distinct(q.meaning)
    BY <1>1, <1>3, <1>4 DEF Clean
  <2> HIDE DEF p
  <2>3. p \in Values
    BY <2>1, <2>2, ValueIs
  <2> QED
    BY <2>3 DEF p
<1>5. CASE kind = "array"
  <2>0. kind # "object"
    BY <1>5
  <2>1. p = Phrase(<<"[">> \o q.text \o <<"]">>, Meant("array", q.meaning))
    BY <1>1, <1>2, <1>5, <2>0, Zenon DEF OpenOf, CloseOf
  <2>2. q \in List("array")
    BY <1>3, <1>5
  <2> HIDE DEF p
  <2>3. p \in Values
    BY <2>1, <2>2, ValueIs
  <2> QED
    BY <2>3 DEF p
<1> QED
  BY <1>4, <1>5 DEF Kinds

Literals == Scalars \cup Strings \cup NulStrings

(* A literal is a value. *)
LEMMA LiteralIsValue == ASSUME NEW t \in Literals PROVE Phrase(<<t>>, Meant(t, <<>>)) \in Values
<1>1. Phrase(<<t>>, Meant(t, <<>>)) \in Singles
  BY Zenon DEF Singles, Literals
<1> QED
  BY <1>1, ValueIs

(* What a value begins with says what it is. *)
LEMMA ValueCases ==
  ASSUME NEW v \in Values
  PROVE  \/ \E t \in Literals : v.text = <<t>>
         \/ \E kind \in Kinds : \E q \in List(kind) :
              /\ Clean(kind, q.meaning)
              /\ v.text = <<OpenOf(kind)>> \o (q.text \o <<CloseOf(kind)>>)
<1>1. CASE v \in Singles
  <2>1. PICK t \in Literals : v = Phrase(<<t>>, Meant(t, <<>>))
    BY <1>1, Zenon DEF Singles, Literals
  <2> QED
    BY <2>1, PhraseIs
<1>2. ASSUME NEW kind \in Kinds, NEW q \in List(kind), Clean(kind, q.meaning), NEW m,
             v = Phrase(<<OpenOf(kind)>> \o q.text \o <<CloseOf(kind)>>, m)
      PROVE  v.text = <<OpenOf(kind)>> \o (q.text \o <<CloseOf(kind)>>)
  <2>1. q.text \in Seq(Tokens)
    BY ListText DEF IsPhrase
  <2>2. v.text = (<<OpenOf(kind)>> \o q.text) \o <<CloseOf(kind)>>
    BY <1>2, PhraseIs
  <2>3. <<OpenOf(kind)>> \in Seq(Tokens) /\ <<CloseOf(kind)>> \in Seq(Tokens)
    BY BracketsAre
  <2> QED
    BY <2>1, <2>2, <2>3, TextsAssociate
<1>3. CASE \E q \in List("array") :
        v = Phrase(<<"[">> \o q.text \o <<"]">>, Meant("array", q.meaning))
  <2>1. PICK q \in List("array") :
          v = Phrase(<<"[">> \o q.text \o <<"]">>, Meant("array", q.meaning))
    BY <1>3
  <2>2. OpenOf("array") = "[" /\ CloseOf("array") = "]" /\ "array" \in Kinds
          /\ Clean("array", q.meaning)
    BY DEF OpenOf, CloseOf, Kinds, Clean
  <2>3. v = Phrase(<<OpenOf("array")>> \o q.text \o <<CloseOf("array")>>, Meant("array", q.meaning))
    BY <2>1, <2>2
  <2> QED
    BY <1>2, <2>2, <2>3, Zenon
<1>4. CASE \E q \in List("object") :
             Distinct(q.meaning) /\ v = Phrase(<<"{">> \o q.text \o <<"}">>,
               Meant("object", q.meaning))
  <2>1. PICK q \in List("object") :
               Distinct(q.meaning) /\ v = Phrase(<<"{">> \o q.text \o <<"}">>,
                 Meant("object", q.meaning))
    BY <1>4
  <2>2. OpenOf("object") = "{" /\ CloseOf("object") = "}" /\ "object" \in Kinds
          /\ Clean("object", q.meaning)
    BY <2>1 DEF OpenOf, CloseOf, Kinds, Clean
  <2>3. v = Phrase(<<OpenOf("object")>> \o q.text \o <<CloseOf("object")>>,
          Meant("object", q.meaning))
    BY <2>1, <2>2
  <2> QED
    BY <1>2, <2>2, <2>3, Zenon
<1> QED
  BY <1>1, <1>3, <1>4, ValueIs

(* An item of an object is a name, a colon and a value. *)
LEMMA EntryCases ==
  ASSUME NEW kind \in Kinds, NEW e \in Entries(kind)
  PROVE  \/ /\ kind = "object"
            /\ \E s \in Strings, v \in Values :
                 e.text = <<s>> \o (<<":">> \o v.text) /\ e.meaning = <<Item(s, v.meaning)>>
         \/ kind = "array" /\ \E v \in Values : e.text = v.text
              /\ e.meaning = <<Item("", v.meaning)>>
<1>1. CASE kind = "object"
  <2>1. PICK s \in Strings : \E v \in Values : e = Member(s, v)
    BY <1>1, MembersAre DEF Entries
  <2>2. PICK v \in Values : e = Member(s, v)
    BY <2>1
  <2>3. e.text = <<s, ":">> \o v.text /\ e.meaning = <<Item(s, v.meaning)>>
    BY <2>2, PhraseIs DEF Member
  <2>4. s \in Tokens /\ <<s>> \in Seq(Tokens) /\ <<":">> \in Seq(Tokens) /\ v.text \in Seq(Tokens)
    <3>1. s \in Tokens /\ ":" \in Tokens
      BY TheseAreTokens
    <3> QED
      BY <3>1, TokenText, ValueText DEF IsPhrase
  <2>5. <<s, ":">> = <<s>> \o <<":">>
    BY <2>4
  <2>6. (<<s>> \o <<":">>) \o v.text = <<s>> \o (<<":">> \o v.text)
    BY <2>4, TextsAssociate
  <2> QED
    BY <1>1, <2>3, <2>5, <2>6
<1>2. CASE kind = "array"
  <2>1. e \in Elements(Values)
    BY <1>2 DEF Entries
  <2>2. PICK v \in Values : e = Element(v)
    BY <2>1, Zenon DEF Elements
  <2>3. e.text = v.text /\ e.meaning = <<Item("", v.meaning)>>
    BY <2>2, PhraseIs DEF Element
  <2> QED
    BY <1>2, <2>3, Zenon
<1> QED
  BY <1>1, <1>2 DEF Kinds

(* A value behind its name and a colon, or by itself, is an item. *)
LEMMA EntryOf ==
  ASSUME NEW kind \in Kinds, NEW v \in Values, NEW s, kind = "object" => s \in Strings,
         kind = "array" => s = ""
  PROVE  \E e \in Entries(kind) :
           /\ e.meaning = <<Item(s, v.meaning)>>
           /\ e.text = (IF kind = "object" THEN <<s, ":">> ELSE <<>>) \o v.text
<1>1. CASE kind = "object"
  <2>1. Member(s, v) \in Entries(kind)
    BY <1>1, MembersAre DEF Entries
  <2>2. Member(s, v).text = <<s, ":">> \o v.text /\ Member(s, v).meaning = <<Item(s, v.meaning)>>
    BY PhraseIs DEF Member
  <2> QED
    BY <1>1, <2>1, <2>2
<1>2. CASE kind = "array"
  <2>1. Element(v) \in Elements(Values)
    BY Zenon DEF Elements
  <2>2. Element(v) \in Entries(kind)
    BY <1>2, <2>1 DEF Entries
  <2>3. Element(v).text = v.text /\ Element(v).meaning = <<Item("", v.meaning)>>
    BY PhraseIs DEF Element
  <2>4. <<>> \o v.text = v.text
    BY ValueText, NoText DEF IsPhrase
  <2> QED
    BY <1>2, <2>2, <2>3, <2>4
<1> QED
  BY <1>1, <1>2 DEF Kinds

-----------------------------------------------------------------------------
(* The calls that wait for a value.  What has been read when the innermost *)
(* began to wait, y, is x, which had been read when the one around it did, *)
(* and the inside of its own container with a name.  What is due once the  *)
(* value has been read, y, is the rest of its list and what is due around. *)
Inner(kind, x, b) == x \o (<<OpenOf(kind)>> \o b)
KeyTokens(f) == IF f.value.kind = "object" THEN <<f.key.name, ":">> ELSE <<>>

ReadLink(f, x, y) ==
  /\ f.value.kind = "object" => f.key.name \in Strings
  /\ \E b \in Seq(Tokens) :
       Before(f.value.kind, b, f.value.items) /\ y = Inner(f.value.kind, x, b) \o KeyTokens(f)

Closing(kind, items, n, x, y) ==
  \E r \in Rest(kind) : \E m :
    /\ Clean(kind, (items \o <<Item(n, m)>>) \o r.meaning)
    /\ y = r.text \o (<<CloseOf(kind)>> \o x)

DueLink(f, x, y) == Closing(f.value.kind, f.value.items, f.key.name, x, y)

Link(tag, f, x, y) == IF tag = "read" THEN ReadLink(f, x, y) ELSE DueLink(f, x, y)

Chain(tag, calls, s) ==
  /\ s \in Seq(Seq(Tokens)) /\ Len(s) = Len(calls) + 1
  /\ s[Len(calls) + 1] = <<>>
  /\ \A i \in 1..Len(calls) : Link(tag, calls[i], s[i + 1], s[i])

Reach(tag, calls, y) == \E s : Chain(tag, calls, s) /\ s[1] = y

(* What is read behind the inside of a container is read inside of it. *)
LEMMA InnerMore ==
  ASSUME NEW kind, NEW x, NEW b, NEW t,
         kind \in Kinds, x \in Seq(Tokens), b \in Seq(Tokens), t \in Seq(Tokens)
  PROVE  /\ Inner(kind, x, b) \in Seq(Tokens) /\ Inner(kind, x, b \o t) \in Seq(Tokens)
         /\ Inner(kind, x, b) \o t = Inner(kind, x, b \o t)
<1>1. PICK o \in Seq(Tokens) : o = <<OpenOf(kind)>>
  BY BracketsAre
<1>2. PICK u \in Seq(Tokens) : u = o \o b
  BY TextsJoined
<1>3. (o \o b) \o t = o \o (b \o t)
  BY TextsAssociate
<1>4. (x \o u) \o t = x \o (u \o t)
  BY TextsAssociate
<1>5. x \o u \in Seq(Tokens) /\ u \o t \in Seq(Tokens) /\ x \o (u \o t) \in Seq(Tokens)
  <2>1. u \o t \in Seq(Tokens)
    BY TextsJoined
  <2> QED
    BY <2>1, TextsJoined
<1>6. Inner(kind, x, b) = x \o u /\ Inner(kind, x, b \o t) = x \o (u \o t)
  BY <1>1, <1>2, <1>3 DEF Inner
<1> QED
  BY <1>4, <1>5, <1>6

(* Nothing has been read, and nothing is due, where no call waits. *)
LEMMA ReachNone == ASSUME NEW tag, NEW y PROVE Reach(tag, <<>>, y) <=> y = <<>>
<1>1. Len(<<>>) = 0
  BY EmptySeq
<1>2. ASSUME Reach(tag, <<>>, y) PROVE y = <<>>
  <2>1. PICK s : Chain(tag, <<>>, s) /\ s[1] = y
    BY <1>2 DEF Reach
  <2> QED
    BY <1>1, <2>1 DEF Chain
<1>3. Reach(tag, <<>>, <<>>)
  <2> DEFINE none == <<>>
             s == <<none>>
  <2>1. none \in Seq(Tokens)
    BY EmptySeq
  <2> HIDE DEF none
  <2>2. s \in Seq(Seq(Tokens)) /\ Len(s) = 1 /\ s[1] = none
    BY <2>1
  <2> HIDE DEF s
  <2>3. Chain(tag, <<>>, s)
    BY <1>1, <2>2 DEF Chain, none
  <2> QED
    BY <2>2, <2>3 DEF Reach, none
<1> QED
  BY <1>2, <1>3

(* What calls have read, and what is due to them, is a text. *)
LEMMA ReachText ==
  ASSUME NEW tag, NEW calls, NEW y, IsList(calls), Reach(tag, calls, y)
  PROVE  y \in Seq(Tokens)
<1>1. PICK s : Chain(tag, calls, s) /\ s[1] = y
  BY DEF Reach
<1>2. Len(calls) \in Nat
  BY LenProperties DEF IsList
<1>3. s \in Seq(Seq(Tokens)) /\ 1 \in 1..Len(s)
  BY <1>1, <1>2 DEF Chain
<1> QED
  BY <1>1, <1>3, ElementOfSeq

(* One more call waits. *)
LEMMA ReachPushed ==
  ASSUME NEW tag, NEW calls, IsList(calls), NEW f, NEW x, NEW y \in Seq(Tokens),
         Reach(tag, calls, x), Link(tag, f, x, y)
  PROVE  Reach(tag, <<f>> \o calls, y)
<1>1. PICK s : Chain(tag, calls, s) /\ s[1] = x
  BY DEF Reach
<1> DEFINE n == Len(calls)
           t == <<y>> \o s
           more == <<f>> \o calls
<1>2. s \in Seq(Seq(Tokens)) /\ Len(s) = n + 1 /\ n \in Nat /\ s[n + 1] = <<>>
  BY <1>1, LenProperties DEF Chain, IsList
<1>3. /\ t \in Seq(Seq(Tokens)) /\ Len(t) = n + 2
      /\ t[1] = y /\ \A i \in 1..(n + 1) : t[i + 1] = s[i]
  <2>1. <<y>> \in Seq(Seq(Tokens)) /\ Len(<<y>>) = 1
    OBVIOUS
  <2>2. /\ t \in Seq(Seq(Tokens)) /\ Len(t) = 1 + Len(s)
        /\ \A i \in 1..(1 + Len(s)) : t[i] = IF i <= 1 THEN <<y>>[i] ELSE s[i - 1]
    BY <1>2, <2>1, ConcatProperties
  <2> HIDE DEF t, n
  <2>3. \A i \in 1..(n + 1) : i + 1 \in 1..(1 + Len(s)) /\ ~(i + 1 <= 1) /\ (i + 1) - 1 = i
    BY <1>2
  <2>4. 1 \in 1..(1 + Len(s))
    BY <1>2
  <2> QED
    BY <1>2, <2>2, <2>3, <2>4
<1>4. /\ Len(more) = n + 1
      /\ more[1] = f /\ \A i \in 1..n : more[i + 1] = calls[i]
  <2>1. IsList(<<f>>) /\ Len(<<f>>) = 1
    BY ListOfOne
  <2>2. /\ Len(more) = 1 + n
        /\ \A i \in 1..(1 + n) : more[i] = IF i <= 1 THEN <<f>>[i] ELSE calls[i - 1]
    BY <2>1, ListsJoined
  <2> HIDE DEF more, n
  <2>3. \A i \in 1..n : i + 1 \in 1..(1 + n) /\ ~(i + 1 <= 1) /\ (i + 1) - 1 = i
    BY <1>2
  <2>4. 1 \in 1..(1 + n)
    BY <1>2
  <2> QED
    BY <1>2, <2>2, <2>3, <2>4
<1> HIDE DEF t, more, n
<1>5. ASSUME NEW i \in 1..(n + 1) PROVE Link(tag, more[i], t[i + 1], t[i])
  <2>1. CASE i = 1
    <3>1. 1 \in 1..(n + 1)
      BY <1>2
    <3>2. t[i + 1] = x /\ t[i] = y /\ more[i] = f
      BY <1>1, <1>3, <1>4, <2>1, <3>1
    <3> QED
      BY <3>2
  <2>2. CASE i # 1
    <3>1. i - 1 \in 1..n /\ i - 1 \in 1..(n + 1) /\ i \in 1..(n + 1) /\ (i - 1) + 1 = i
      BY <1>2, <2>2
    <3>2. more[i] = calls[i - 1] /\ t[i] = s[i - 1] /\ t[i + 1] = s[i]
      BY <1>3, <1>4, <3>1
    <3>3. Link(tag, calls[i - 1], s[(i - 1) + 1], s[i - 1])
      BY <1>1, <3>1 DEF Chain, n
    <3> QED
      BY <3>1, <3>2, <3>3
  <2> QED
    BY <2>1, <2>2
<1>6. t[n + 2] = <<>>
  <2>1. n + 1 \in 1..(n + 1) /\ (n + 1) + 1 = n + 2
    BY <1>2
  <2> QED
    BY <1>2, <1>3, <2>1
<1>7. Chain(tag, more, t)
  <2>1. Len(t) = Len(more) + 1 /\ Len(more) + 1 = n + 2
    BY <1>2, <1>3, <1>4
  <2> QED
    BY <1>3, <1>4, <1>5, <1>6, <2>1 DEF Chain
<1> QED
  BY <1>3, <1>7 DEF Reach, more

(* The innermost call waits no more. *)
LEMMA ReachPopped ==
  ASSUME NEW tag, NEW calls, IsList(calls), calls # <<>>, NEW y, Reach(tag, calls, y)
  PROVE  \E x \in Seq(Tokens) : Reach(tag, Tail(calls), x) /\ Link(tag, Head(calls), x, y)
<1>1. PICK s : Chain(tag, calls, s) /\ s[1] = y
  BY DEF Reach
<1> DEFINE n == Len(calls)
           t == Tail(s)
           rest == Tail(calls)
<1>2. calls \in Seq(Range(calls)) /\ n \in Nat \ {0} /\ s \in Seq(Seq(Tokens))
        /\ Len(s) = n + 1 /\ s[n + 1] = <<>>
  BY <1>1, EmptySeq DEF Chain, IsList
<1>3. Len(rest) = n - 1 /\ Head(calls) = calls[1] /\ \A i \in 1..(n - 1) : rest[i] = calls[i + 1]
  BY <1>2, HeadTailProperties
<1>4. t \in Seq(Seq(Tokens)) /\ Len(t) = n /\ \A i \in 1..n : t[i] = s[i + 1]
  <2>1. s # <<>>
    BY <1>2, EmptySeq
  <2>2. t \in Seq(Seq(Tokens)) /\ Len(t) = Len(s) - 1 /\ \A i \in 1..Len(t) : t[i] = s[i + 1]
    BY <1>2, <2>1, HeadTailProperties
  <2> HIDE DEF t, n
  <2>3. Len(t) = n
    BY <1>2, <2>2
  <2> QED
    BY <2>2, <2>3
<1> HIDE DEF t, rest
<1>5. Chain(tag, rest, t)
  <2>1. Len(t) = Len(rest) + 1 /\ Len(rest) + 1 = n
    BY <1>2, <1>3, <1>4
  <2>2. t[Len(rest) + 1] = <<>>
    <3>1. n \in 1..n
      BY <1>2
    <3> QED
      BY <1>2, <1>4, <2>1, <3>1
  <2>3. ASSUME NEW i \in 1..Len(rest) PROVE Link(tag, rest[i], t[i + 1], t[i])
    <3>0. n \in Nat /\ Len(rest) = n - 1
      BY <1>2, <1>3
    <3> HIDE DEF n
    <3>1. i \in 1..(n - 1) /\ i + 1 \in 1..n /\ i \in 1..n
      BY <3>0
    <3>2. rest[i] = calls[i + 1] /\ t[i + 1] = s[(i + 1) + 1] /\ t[i] = s[i + 1]
      BY <1>3, <1>4, <3>1
    <3>3. Link(tag, calls[i + 1], s[(i + 1) + 1], s[i + 1])
      BY <1>1, <3>1 DEF Chain, n
    <3> QED
      BY <3>2, <3>3
  <2> QED
    BY <1>4, <2>1, <2>2, <2>3 DEF Chain
<1>6. 1 \in 1..n /\ 1 + 1 = 2
  BY <1>2
<1>7. Link(tag, calls[1], s[2], s[1])
  <2>1. Link(tag, calls[1], s[1 + 1], s[1])
    BY <1>1, <1>6 DEF Chain, n
  <2> QED
    BY <2>1
<1>8. t[1] = s[2] /\ s[2] \in Seq(Tokens)
  <2>1. 2 \in 1..Len(s)
    BY <1>2
  <2>2. s[2] \in Seq(Tokens)
    BY <1>2, <2>1, ElementOfSeq
  <2>3. t[1] = s[1 + 1]
    BY <1>4, <1>6
  <2> QED
    BY <2>2, <2>3
<1> QED
  BY <1>1, <1>3, <1>5, <1>7, <1>8 DEF Reach, rest

-----------------------------------------------------------------------------
(* What is due, y, where a value is awaited; in a list; behind an item;    *)
(* behind a name; and where a name is awaited.  calls are those around.    *)
DueValue(calls, y) ==
  \E v \in Values, x \in Seq(Tokens) : Reach("due", calls, x) /\ y = v.text \o x

DueIn(phrases, f, calls, y) ==
  \E q \in phrases, x \in Seq(Tokens) :
    /\ Reach("due", calls, x)
    /\ Clean(f.value.kind, f.value.items \o q.meaning)
    /\ y = q.text \o (<<CloseOf(f.value.kind)>> \o x)

DueList(f, calls, y) == DueIn(List(f.value.kind), f, calls, y)
DueRest(f, calls, y) == DueIn(Rest(f.value.kind), f, calls, y)

DueColon(f, calls, n, y) ==
  \E v \in Values, x \in Seq(Tokens), z \in Seq(Tokens) :
    /\ Reach("due", calls, x)
    /\ Closing(f.value.kind, f.value.items, n, x, z)
    /\ y = <<":">> \o (v.text \o z)

DueKey(f, calls, y) ==
  \E s \in Strings, z \in Seq(Tokens) : DueColon(f, calls, s, z) /\ y = <<s>> \o z

DueClose(f, calls, y) ==
  \E x \in Seq(Tokens) : Reach("due", calls, x) /\ y = <<CloseOf(f.value.kind)>> \o x

(* What is due at a colon is a text. *)
LEMMA ColonText ==
  ASSUME NEW f, NEW calls, NEW n, NEW y, DueColon(f, calls, n, y)
  PROVE  y \in Seq(Tokens)
<1>1. PICK v \in Values, z \in Seq(Tokens) : y = <<":">> \o (v.text \o z)
  BY DEF DueColon
<1>2. v.text \in Seq(Tokens) /\ <<":">> \in Seq(Tokens)
  BY ValueText, TokenText, TheseAreTokens DEF IsPhrase
<1> QED
  BY <1>1, <1>2, TextsJoined

(* What is due in a list begins with the end, a name or a value. *)
LEMMA DueListCases ==
  ASSUME NEW f, f.value.kind \in Kinds, IsList(f.value.items), NEW calls, IsList(calls),
         NEW y, DueList(f, calls, y)
  PROVE  \/ DueClose(f, calls, y)
         \/ f.value.kind = "object" /\ DueKey(f, calls, y)
         \/ f.value.kind = "array" /\ DueValue(<<f>> \o calls, y)
<1> DEFINE kind == f.value.kind
           items == f.value.items
<1>1. PICK q \in List(kind), x \in Seq(Tokens) :
         /\ Reach("due", calls, x) /\ Clean(kind, items \o q.meaning)
         /\ y = q.text \o (<<CloseOf(kind)>> \o x)
  BY Zenon DEF DueList, DueIn
<1> DEFINE end == <<CloseOf(kind)>> \o x
<1>2. end \in Seq(Tokens) /\ kind \in Kinds /\ IsList(items)
  BY BracketsAre, TextsJoined
<1>3. CASE q = Empty
  <2>1. y = end
    BY <1>1, <1>2, <1>3, EmptyIs, NoText
  <2> QED
    BY <1>1, <2>1, Zenon DEF DueClose
<1>4. ASSUME NEW e \in Entries(kind), NEW r \in Rest(kind), q = Both(e, r)
      PROVE  \/ kind = "object" /\ DueKey(f, calls, y)
             \/ kind = "array" /\ DueValue(<<f>> \o calls, y)
  <2> DEFINE z == r.text \o end
             m == e.meaning
             n == r.meaning
  <2>1. /\ e.text \in Seq(Tokens) /\ r.text \in Seq(Tokens) /\ z \in Seq(Tokens)
        /\ IsList(m) /\ IsList(n)
    BY <1>2, EntryText, RestIs, TextsJoined DEF IsPhrase
  <2>2. q.text = e.text \o r.text /\ q.meaning = m \o n
    BY <1>4, PhraseIs DEF Both
  <2>3. y = e.text \o z
    <3>1. y = (e.text \o r.text) \o end
      BY <1>1, <2>2
    <3> HIDE DEF end
    <3> QED
      BY <1>2, <2>1, <3>1, TextsAssociate
  <2>4. Clean(kind, (items \o m) \o n)
    <3>0. IsList(items) /\ IsList(m) /\ IsList(n)
      BY <2>1
    <3> HIDE DEF m, n, items, kind
    <3>1. (items \o m) \o n = items \o (m \o n)
      BY <3>0, ListsAssociate
    <3> QED
      BY <1>1, <2>2, <3>1
  <2>5. CASE kind = "object"
    <3>1. PICK s \in Strings, v \in Values :
             e.text = <<s>> \o (<<":">> \o v.text) /\ m = <<Item(s, v.meaning)>>
      BY <1>2, <2>5, EntryCases
    <3>2. v.text \in Seq(Tokens) /\ <<s>> \in Seq(Tokens) /\ <<":">> \in Seq(Tokens)
      <4>1. s \in Tokens /\ ":" \in Tokens
        BY TheseAreTokens
      <4> QED
        BY <4>1, ValueText, TokenText DEF IsPhrase
    <3> DEFINE rest == <<":">> \o (v.text \o z)
    <3>3. Closing(kind, items, s, x, z)
      BY <2>4, <3>1, Zenon DEF Closing
    <3>4. DueColon(f, calls, s, rest)
      <4> HIDE DEF z
      <4> QED
        BY <1>1, <2>1, <3>3, Zenon DEF DueColon
    <3>5. y = <<s>> \o rest
      <4>1. PICK name \in Seq(Tokens) : name = <<s>>
        BY <3>2
      <4>2. PICK colon \in Seq(Tokens) : colon = <<":">>
        BY <3>2
      <4>3. PICK w \in Seq(Tokens) : w = z
        BY <2>1
      <4>4. (name \o (colon \o v.text)) \o w = name \o (colon \o (v.text \o w))
        <5>1. \A t \in Seq(Tokens) : \A u \in Seq(Tokens) : \A p \in Seq(Tokens) :
                (name \o (t \o u)) \o p = name \o (t \o (u \o p))
          BY FourAssociate
        <5> QED
          BY <3>2, <5>1, Zenon
      <4>5. y = (name \o (colon \o v.text)) \o w /\ rest = colon \o (v.text \o w)
        BY <2>3, <3>1, <4>1, <4>2, <4>3
      <4> HIDE DEF rest
      <4>6. y = name \o rest
        BY <4>4, <4>5
      <4> QED
        BY <4>1, <4>6
    <3>6. rest \in Seq(Tokens)
      BY <3>4, ColonText
    <3> HIDE DEF rest
    <3> QED
      BY <2>5, <3>4, <3>5, <3>6 DEF DueKey
  <2>6. CASE kind = "array"
    <3>1. PICK v \in Values : e.text = v.text
      BY <1>2, <2>6, EntryCases
    <3>2. Clean(kind, (items \o <<Item(f.key.name, v.meaning)>>) \o r.meaning)
      BY <2>6 DEF Clean
    <3>3. Closing(kind, items, f.key.name, x, z)
      BY <3>2, Zenon DEF Closing
    <3>4. Link("due", f, x, z)
      BY <3>3 DEF Link, DueLink
    <3>5. Reach("due", <<f>> \o calls, z)
      <4> HIDE DEF z
      <4> QED
        BY <1>1, <2>1, <3>4, ReachPushed
    <3> HIDE DEF z
    <3> QED
      BY <2>1, <2>3, <2>6, <3>1, <3>5 DEF DueValue
  <2> QED
    BY <1>2, <2>5, <2>6 DEF Kinds
<1>5. q = Empty \/ \E e \in Entries(kind), r \in Rest(kind) : q = Both(e, r)
  BY <1>2, ListIsItemAndRest
<1> QED
  BY <1>3, <1>4, <1>5

DueComma(f, calls, y) == \E z \in Seq(Tokens) : DueList(f, calls, z) /\ y = <<",">> \o z
DueMember(calls, y) == \E z \in Seq(Tokens) : DueValue(calls, z) /\ y = <<":">> \o z

(* Behind an item, it is the end, or a comma and a list. *)
LEMMA DueRestCases ==
  ASSUME NEW f, f.value.kind \in Kinds, NEW calls, NEW y, DueRest(f, calls, y)
  PROVE  DueClose(f, calls, y) \/ DueComma(f, calls, y)
<1> DEFINE kind == f.value.kind
<1>1. PICK r \in Rest(kind), x \in Seq(Tokens) :
         /\ Reach("due", calls, x) /\ Clean(kind, f.value.items \o r.meaning)
         /\ y = r.text \o (<<CloseOf(kind)>> \o x)
  BY Zenon DEF DueRest, DueIn
<1> DEFINE end == <<CloseOf(kind)>> \o x
<1>2. end \in Seq(Tokens) /\ kind \in Kinds
  BY BracketsAre, TextsJoined
<1>3. CASE r = Empty
  <2>1. y = end
    BY <1>1, <1>2, <1>3, EmptyIs, NoText
  <2> QED
    BY <1>1, <2>1, Zenon DEF DueClose
<1>4. ASSUME NEW q \in List(kind), r.text = <<",">> \o q.text, r.meaning = q.meaning
      PROVE  \E z \in Seq(Tokens) : DueList(f, calls, z) /\ y = <<",">> \o z
  <2> DEFINE z == q.text \o end
  <2>1. q.text \in Seq(Tokens) /\ <<",">> \in Seq(Tokens) /\ z \in Seq(Tokens)
    BY <1>2, ListText, TextsJoined, TokenText, TheseAreTokens DEF IsPhrase
  <2>2. DueList(f, calls, z)
    BY <1>1, <1>4, Zenon DEF DueList, DueIn
  <2>3. y = <<",">> \o z
    <3>1. y = (<<",">> \o q.text) \o end
      BY <1>1, <1>4
    <3> HIDE DEF end
    <3> QED
      BY <1>2, <2>1, <3>1, TextsAssociate
  <2> HIDE DEF z
  <2> QED
    BY <2>1, <2>2, <2>3
<1>5. CASE \E q \in List(kind) : r.text = <<",">> \o q.text /\ r.meaning = q.meaning
  <2>1. \E z \in Seq(Tokens) : DueList(f, calls, z) /\ y = <<",">> \o z
    BY <1>4, <1>5
  <2> QED
    BY <2>1 DEF DueComma
<1> HIDE DEF end
<1> QED
  BY <1>2, <1>3, <1>5, RestIs

(* At a colon a value is due behind it. *)
LEMMA DueColonThen ==
  ASSUME NEW f, f.value.kind \in Kinds, NEW calls, IsList(calls), NEW y,
         DueColon(f, calls, f.key.name, y)
  PROVE  DueMember(<<f>> \o calls, y)
<1>1. PICK v \in Values, x \in Seq(Tokens), z \in Seq(Tokens) :
         /\ Reach("due", calls, x)
         /\ Closing(f.value.kind, f.value.items, f.key.name, x, z)
         /\ y = <<":">> \o (v.text \o z)
  BY DEF DueColon
<1>2. Link("due", f, x, z)
  BY <1>1 DEF Link, DueLink
<1>3. Reach("due", <<f>> \o calls, z)
  BY <1>1, <1>2, ReachPushed
<1>4. v.text \o z \in Seq(Tokens)
  BY ValueText, TextsJoined DEF IsPhrase
<1>5. DueValue(<<f>> \o calls, v.text \o z)
  BY <1>3, Zenon DEF DueValue
<1> QED
  BY <1>1, <1>4, <1>5, Zenon DEF DueMember

DueInside(kind, calls, z) ==
  \A f : f.value.kind = kind /\ f.value.items = <<>> => DueList(f, calls, z)

(* A value is a literal, or begins a container. *)
LEMMA DueValueCases ==
  ASSUME NEW calls, NEW y, DueValue(calls, y)
  PROVE  \/ \E t \in Literals, x \in Seq(Tokens) : Reach("due", calls, x) /\ y = <<t>> \o x
         \/ \E kind \in Kinds, z \in Seq(Tokens) : y = <<OpenOf(kind)>> \o z
              /\ DueInside(kind, calls, z)
<1>1. PICK v \in Values, x \in Seq(Tokens) : Reach("due", calls, x) /\ y = v.text \o x
  BY DEF DueValue
<1>2. ASSUME NEW t \in Literals, v.text = <<t>>
      PROVE  \E s \in Literals, w \in Seq(Tokens) : Reach("due", calls, w) /\ y = <<s>> \o w
  BY <1>1, <1>2, Zenon
<1>3. ASSUME NEW kind \in Kinds, NEW q \in List(kind), Clean(kind, q.meaning),
             v.text = <<OpenOf(kind)>> \o (q.text \o <<CloseOf(kind)>>)
      PROVE  \E z \in Seq(Tokens) : y = <<OpenOf(kind)>> \o z /\ DueInside(kind, calls, z)
  <2> DEFINE open == <<OpenOf(kind)>>
             close == <<CloseOf(kind)>>
             z == q.text \o (close \o x)
  <2>1. /\ q.text \in Seq(Tokens) /\ open \in Seq(Tokens) /\ close \in Seq(Tokens)
        /\ IsList(q.meaning)
    BY ListText, BracketsAre DEF IsPhrase
  <2>2. v.text = open \o (q.text \o close)
    BY <1>3
  <2>3. z \in Seq(Tokens)
    BY <2>1, TextsJoined
  <2>4. y = open \o z
    <3> HIDE DEF open, close
    <3>1. q.text \o close \in Seq(Tokens)
      BY <2>1, TextsJoined
    <3>2. (open \o (q.text \o close)) \o x = open \o ((q.text \o close) \o x)
      BY <2>1, <3>1, TextsAssociate
    <3>3. (q.text \o close) \o x = q.text \o (close \o x)
      BY <2>1, TextsAssociate
    <3> QED
      BY <1>1, <2>2, <3>2, <3>3
  <2>5. ASSUME NEW f, f.value.kind = kind, f.value.items = <<>> PROVE DueList(f, calls, z)
    <3>1. f.value.items \o q.meaning = q.meaning
      BY <2>1, <2>5, ListOfNone
    <3>2. Clean(f.value.kind, f.value.items \o q.meaning)
      BY <1>3, <2>5, <3>1
    <3>3. q \in List(f.value.kind) /\ z = q.text \o (<<CloseOf(f.value.kind)>> \o x)
      BY <2>5
    <3> HIDE DEF z
    <3> QED
      BY <1>1, <3>2, <3>3, Zenon DEF DueList, DueIn
  <2> HIDE DEF z
  <2> QED
    BY <2>3, <2>4, <2>5 DEF DueInside
<1>4. CASE \E t \in Literals : v.text = <<t>>
  BY <1>2, <1>4
<1>5. CASE \E kind \in Kinds : \E q \in List(kind) :
              /\ Clean(kind, q.meaning)
              /\ v.text = <<OpenOf(kind)>> \o (q.text \o <<CloseOf(kind)>>)
  BY <1>3, <1>5
<1> QED
  BY <1>4, <1>5, ValueCases

(* What is due around a value, once it is an item of its container; and it *)
(* is none whose name is there already.                                    *)
LEMMA DueAdded ==
  ASSUME NEW calls, IsList(calls), calls # <<>>,
         Head(calls).value.kind \in Kinds, IsList(Head(calls).value.items),
         NEW y, Reach("due", calls, y)
  PROVE  /\ \A g, m : /\ g.value.kind = Head(calls).value.kind
                      /\ g.value.items = Append(Head(calls).value.items,
                           Item(Head(calls).key.name, m))
                      => DueRest(g, Tail(calls), y)
         /\ Head(calls).value.kind = "object" => ~Holds(Head(calls).value, Head(calls).key.name)
<1> DEFINE f == Head(calls)
           kind == f.value.kind
           items == f.value.items
           n == f.key.name
<1>1. PICK x \in Seq(Tokens) : Reach("due", Tail(calls), x) /\ Link("due", f, x, y)
  BY ReachPopped
<1>2. PICK r, k :
         /\ r \in Rest(kind)
         /\ Clean(kind, (items \o <<Item(n, k)>>) \o r.meaning)
         /\ y = r.text \o (<<CloseOf(kind)>> \o x)
  BY <1>1 DEF Link, DueLink, Closing
<1>3. kind \in Kinds /\ IsList(items)
  OBVIOUS
<1> HIDE DEF kind, items, n
<1>4. IsList(r.meaning)
  BY <1>2, <1>3, RestIs
<1>5. ASSUME NEW g, NEW m, g.value.kind = kind, g.value.items = Append(items, Item(n, m))
      PROVE  DueRest(g, Tail(calls), y)
  <2>1. g.value.items = items \o <<Item(n, m)>>
    BY <1>3, <1>5, AppendedList
  <2>2. Clean(kind, (items \o <<Item(n, m)>>) \o r.meaning)
    BY <1>2, <1>3, <1>4, Renamed DEF Clean
  <2>3. Clean(g.value.kind, g.value.items \o r.meaning)
    BY <1>5, <2>1, <2>2
  <2>4. r \in Rest(g.value.kind) /\ y = r.text \o (<<CloseOf(g.value.kind)>> \o x)
    BY <1>2, <1>5
  <2> QED
    BY <1>1, <2>3, <2>4, Zenon DEF DueRest, DueIn
<1>6. ASSUME kind = "object" PROVE \A i \in DOMAIN items : items[i].name # n
  <2> DEFINE it == Item(n, k)
             u == items \o <<it>>
             w == u \o r.meaning
  <2>1. Distinct(w)
    BY <1>2, <1>6 DEF Clean
  <2>2. IsList(<<it>>) /\ Len(<<it>>) = 1
    BY ListOfOne
  <2>3. /\ IsList(u) /\ Len(u) = Len(items) + 1 /\ Len(items) \in Nat
        /\ \A i \in 1..(Len(items) + 1) :
             u[i] = IF i <= Len(items) THEN items[i] ELSE <<it>>[i - Len(items)]
    BY <1>3, <2>2, ListsJoined
  <2> DEFINE l == Len(items)
             d == Len(r.meaning)
  <2>4. l + 1 \in 1..(l + 1) /\ ~(l + 1 <= l) /\ (l + 1) - l = 1
    BY <2>3
  <2>5. u[l + 1] = it
    <3>1. u[l + 1] = <<it>>[(l + 1) - l]
      BY <2>3, <2>4
    <3> HIDE DEF it, u, l
    <3> QED
      BY <2>4, <3>1
  <2> HIDE DEF u
  <2> DEFINE c == r.meaning
  <2>6. /\ IsList(w) /\ Len(w) = (l + 1) + d /\ d \in Nat
        /\ \A i \in 1..((l + 1) + d) : w[i] = IF i <= l + 1 THEN u[i] ELSE c[i - (l + 1)]
    <3>1. IsList(c) /\ Len(u) = l + 1 /\ d = Len(c) /\ w = u \o c
      BY <1>4, <2>3
    <3> HIDE DEF c, l, d, w
    <3>2. /\ IsList(u \o c) /\ Len(u \o c) = Len(u) + Len(c) /\ Len(c) \in Nat
          /\ \A i \in 1..(Len(u) + Len(c)) :
               (u \o c)[i] = IF i <= Len(u) THEN u[i] ELSE c[i - Len(u)]
      BY <2>3, <3>1, ListsJoined
    <3> QED
      BY <3>1, <3>2
  <2>7. DOMAIN w = 1..((l + 1) + d) /\ DOMAIN items = 1..l
    BY <1>3, <2>6, LenProperties DEF IsList
  <2> HIDE DEF w, l, d, it
  <2>8. ASSUME NEW i \in DOMAIN items PROVE items[i].name # n
    <3>1. l \in Nat /\ d \in Nat
      BY <2>3, <2>6 DEF l
    <3>2. /\ i \in 1..((l + 1) + d) /\ i <= l + 1 /\ i \in 1..(l + 1) /\ i <= l /\ i # l + 1
          /\ l + 1 \in 1..((l + 1) + d)
      BY <2>7, <3>1
    <3>3. w[i] = items[i] /\ w[l + 1] = it
      <4>1. w[i] = u[i] /\ w[l + 1] = u[l + 1]
        BY <2>6, <3>2, <3>1
      <4>2. u[i] = items[i]
        BY <2>3, <3>2 DEF l
      <4> QED
        BY <2>5, <4>1, <4>2
    <3>4. it.name = n
      BY DEF it, Item
    <3>5. items[i].name = it.name => i = l + 1
      <4>1. i \in DOMAIN w /\ l + 1 \in DOMAIN w
        BY <2>7, <3>2
      <4>2. w[i].name = w[l + 1].name => i = l + 1
        BY <2>1, <4>1 DEF Distinct
      <4> QED
        BY <3>3, <4>2
    <3> QED
      BY <3>2, <3>4, <3>5
  <2> QED
    BY <2>8
<1>7. kind = "object" => ~Holds(f.value, n)
  BY <1>6 DEF Holds, items
<1> QED
  BY <1>5, <1>7 DEF kind, items, n

-----------------------------------------------------------------------------
(* The text. *)
TextInv ==
  /\ text \in Seq(Tokens \cup {End}) /\ Len(text) \in 1..(MaxTokens + 1)
  /\ Len(text) > MaxTokens => Ahead = End
  /\ Consumed \in Seq(Tokens)

(* The text can be, or be continued to, one that begins with S.            *)
Compat(S) == \A i \in 1..Len(S) : i <= Len(text) => S[i] = text[i]

(* No token is of two kinds. *)
LEMMA Kinded ==
  /\ End \notin Tokens
  /\ \A t \in Literals : t \notin {"{", "}", "[", "]", ":", ",", Minus, End} \cup Broken
  /\ {"{", "}", "[", "]", ":", ",", Minus, End} \cap Broken = {}
  /\ Literals \cap Broken = {}
BY TokensAssumption DEF Tokens, Brackets, Literals, Minus, End

(* The tokens of two texts in a row. *)
LEMMA TextAt ==
  ASSUME NEW s \in Seq(Tokens), NEW t \in Seq(Tokens)
  PROVE  /\ s \o t \in Seq(Tokens) /\ Len(s \o t) = Len(s) + Len(t) /\ Len(s) \in Nat
              /\ Len(t) \in Nat
         /\ \A i \in 1..(Len(s) + Len(t)) :
              (s \o t)[i] = IF i <= Len(s) THEN s[i] ELSE t[i - Len(s)]
BY ConcatProperties, LenProperties

(* The front of a sequence with one more. *)
LEMMA FrontIs ==
  ASSUME NEW S, NEW s \in Seq(S), NEW t
  PROVE  Front(Append(s, t)) = s /\ Len(Append(s, t)) = Len(s) + 1
<1> DEFINE T == S \cup {t}
           w == Append(s, t)
           n == Len(s)
           u == SubSeq(w, 1, n)
<1>1. s \in Seq(T) /\ t \in T
  BY SeqMonotonic
<1>2. w \in Seq(T) /\ Len(w) = n + 1 /\ n \in Nat /\ \A i \in 1..n : w[i] = s[i]
  <2> HIDE DEF T
  <2> QED
    BY <1>1, AppendProperties, LenProperties
<1>3. \A i \in 1..n : s[i] \in T
  <2> HIDE DEF T
  <2> QED
    BY <1>1, ElementOfSeq
<1> HIDE DEF T, w
<1>4. u \in Seq(T) /\ Len(u) = n /\ \A i \in 1..n : u[i] = s[i]
  <2>1. \A i \in 1..n : w[i] \in T
    BY <1>2, <1>3
  <2> HIDE DEF n
  <2>2. 1 \in Int /\ n \in Int /\ n - 1 + 1 = n /\ (1 <= n => n - 1 + 1 = n) /\ (~(1 <= n) => n = 0)
        /\ \A i \in 1..n : 1 + i - 1 = i
    BY <1>2
  <2>3. /\ u \in Seq(T) /\ Len(u) = (IF 1 <= n THEN n - 1 + 1 ELSE 0)
        /\ \A i \in 1..(n - 1 + 1) : u[i] = w[1 + i - 1]
    <3> HIDE DEF u
    <3>1. u = SubSeq(w, 1, n)
      BY DEF u
    <3> QED
      BY <2>1, <2>2, <3>1, SubSeqProperties
  <2> HIDE DEF u
  <2> QED
    BY <1>2, <2>2, <2>3
<1>5. u = s
  <2> HIDE DEF u
  <2> QED
    BY <1>1, <1>4, SeqEqual DEF n
<1>6. Front(w) = u
  <2>1. Len(w) - 1 = n
    BY <1>2
  <2> QED
    BY <2>1 DEF Front
<1> QED
  BY <1>2, <1>5, <1>6 DEF w

(* The text is what has been read and the token ahead. *)
LEMMA TextSplit ==
  ASSUME TextInv
  PROVE  /\ text = Consumed \o <<Ahead>> /\ Len(text) = Len(Consumed) + 1
         /\ \A i \in 1..Len(Consumed) : text[i] = Consumed[i]
         /\ Len(Consumed) \in Nat
<1> DEFINE T == Tokens \cup {End}
           n == Len(text)
<1>1. text \in Seq(T) /\ n \in Nat /\ n >= 1
  BY DEF TextInv
<1>2. \A i \in 1..n : text[i] \in T
  BY <1>1, ElementOfSeq
<1> HIDE DEF T
<1>3. /\ Consumed \in Seq(T) /\ Len(Consumed) = n - 1
      /\ \A i \in 1..(n - 1) : Consumed[i] = text[i]
  <2> DEFINE m == n - 1
             u == SubSeq(text, 1, m)
  <2>1. m \in Int /\ 1 \in Int /\ m \in Nat /\ m - 1 + 1 = m /\ (~(1 <= m) => m = 0)
        /\ \A i \in 1..m : 1 + i - 1 = i /\ i \in 1..n
    <3>1. n \in Nat /\ n >= 1
      BY <1>1
    <3> HIDE DEF n, u
    <3> QED
      BY <3>1
  <2>2. Consumed = u
    BY DEF Consumed, Front
  <2> HIDE DEF m, n
  <2>3. \A i \in 1..m : text[i] \in T
    BY <1>2, <2>1
  <2>4. /\ u \in Seq(T) /\ Len(u) = (IF 1 <= m THEN m - 1 + 1 ELSE 0)
        /\ \A i \in 1..(m - 1 + 1) : u[i] = text[1 + i - 1]
    <3> HIDE DEF u
    <3>1. u = SubSeq(text, 1, m)
      BY DEF u
    <3> QED
      BY <2>1, <2>3, <3>1, SubSeqProperties
  <2> HIDE DEF u
  <2>5. Len(u) = m /\ \A i \in 1..m : u[i] = text[i]
    BY <2>1, <2>4
  <2> QED
    BY <2>2, <2>4, <2>5 DEF m
<1>4. Ahead = text[n] /\ Ahead \in T
  BY <1>1, <1>2 DEF Ahead
<1> DEFINE a == <<Ahead>>
           w == Consumed \o a
<1>5. a \in Seq(T) /\ Len(a) = 1 /\ a[1] = Ahead
  BY <1>4
<1> HIDE DEF a
<1>6. /\ w \in Seq(T) /\ Len(w) = n
      /\ \A i \in 1..n : w[i] = IF i <= n - 1 THEN Consumed[i] ELSE a[i - (n - 1)]
  <2> HIDE DEF n
  <2>1. /\ w \in Seq(T) /\ Len(w) = Len(Consumed) + Len(a)
        /\ \A i \in 1..(Len(Consumed) + Len(a)) :
             w[i] = IF i <= Len(Consumed) THEN Consumed[i] ELSE a[i - Len(Consumed)]
    BY <1>3, <1>5, ConcatProperties
  <2> HIDE DEF w
  <2>2. Len(Consumed) + Len(a) = n
    BY <1>1, <1>3, <1>5
  <2> QED
    BY <1>3, <2>1, <2>2
<1> HIDE DEF w
<1>7. ASSUME NEW i \in 1..n PROVE w[i] = text[i]
  <2>1. CASE i <= n - 1
    BY <1>1, <1>3, <1>6, <2>1
  <2>2. CASE ~(i <= n - 1)
    <3>1. i = n /\ i - (n - 1) = 1
      BY <1>1, <2>2
    <3> QED
      BY <1>4, <1>5, <1>6, <2>2, <3>1
  <2> QED
    BY <2>1, <2>2
<1>8. w = text
  <2> HIDE DEF n
  <2>1. Len(w) = Len(text) /\ \A i \in 1..Len(w) : w[i] = text[i]
    BY <1>6, <1>7 DEF n
  <2> QED
    BY <1>1, <1>6, <2>1, SeqEqual
<1>9. /\ Len(text) = Len(Consumed) + 1 /\ Len(Consumed) \in Nat
      /\ \A i \in 1..Len(Consumed) : text[i] = Consumed[i]
  BY <1>1, <1>3
<1> QED
  BY <1>8, <1>9 DEF w, a

(* Nothing has been read at first. *)
LEMMA InitText == Init => TextInv /\ Consumed = <<>>
<1> SUFFICES ASSUME Init PROVE TextInv /\ Consumed = <<>>
  OBVIOUS
<1>1. PICK t \in Tokens \cup {End} : text = <<t>>
  BY DEF Init
<1>2. text \in Seq(Tokens \cup {End}) /\ Len(text) = 1
  BY <1>1
<1>3. Consumed = <<>>
  <2>1. Len(text) - 1 = 0 /\ 0 \in Int /\ 1 \in Int /\ 0 < 1
    BY <1>2
  <2>2. SubSeq(text, 1, 0) = <<>>
    BY <2>1, SubSeqEmpty
  <2> QED
    BY <2>1, <2>2 DEF Consumed, Front
<1>4. 1 \in 1..(MaxTokens + 1) /\ ~(1 > MaxTokens)
  BY BoundsAssumption
<1> QED
  BY <1>2, <1>3, <1>4, NoText DEF TextInv

(* A token is passed over. *)
LEMMA ConsumeStep ==
  ASSUME TextInv, Consume, Ahead \in Tokens
  PROVE  /\ TextInv' /\ Consumed' = Consumed \o <<Ahead>>
         /\ \A S : Compat(S)' => Compat(S)
<1>1. PICK t \in (IF Len(text) < MaxTokens THEN Tokens ELSE {}) \cup {End} : text' = Append(text, t)
  BY DEF Consume
<1>2. text \in Seq(Tokens \cup {End}) /\ Len(text) \in Nat /\ Len(text) \in 1..(MaxTokens + 1)
  BY DEF TextInv
<1>3. Consumed' = text /\ Len(text') = Len(text) + 1
  BY <1>1, <1>2, FrontIs DEF Consumed
<1>4. /\ text' \in Seq(Tokens \cup {End})
      /\ text'[Len(text) + 1] = t /\ \A i \in 1..Len(text) : text'[i] = text[i]
  <2>1. t \in Tokens \cup {End}
    BY <1>1
  <2> QED
    BY <1>1, <1>2, <2>1, AppendProperties
<1>5. text = Consumed \o <<Ahead>>
  BY TextSplit
<1>6. text \in Seq(Tokens)
  <2>1. Consumed \in Seq(Tokens) /\ <<Ahead>> \in Seq(Tokens)
    BY TokenText DEF TextInv
  <2>2. Consumed \o <<Ahead>> \in Seq(Tokens)
    BY <2>1, TextsJoined
  <2> QED
    BY <1>5, <2>2
<1>7. ~(Len(text) > MaxTokens)
  BY Kinded DEF TextInv
<1>8. Len(text') \in 1..(MaxTokens + 1)
  BY <1>2, <1>3, <1>7, BoundsAssumption
<1>9. Len(text') > MaxTokens => Ahead' = End
  <2>1. Ahead' = t
    BY <1>3, <1>4 DEF Ahead
  <2>2. Len(text') > MaxTokens => ~(Len(text) < MaxTokens)
    BY <1>2, <1>3, BoundsAssumption
  <2> QED
    BY <1>1, <2>1, <2>2
<1>10. TextInv'
  BY <1>3, <1>4, <1>6, <1>8, <1>9 DEF TextInv
<1>11. ASSUME NEW S, Compat(S)' PROVE Compat(S)
  <2> SUFFICES ASSUME NEW i \in 1..Len(S), i <= Len(text) PROVE S[i] = text[i]
    BY DEF Compat
  <2>1. i \in 1..Len(text) /\ i <= Len(text')
    BY <1>2, <1>3
  <2>2. S[i] = text'[i]
    BY <1>11, <2>1 DEF Compat
  <2> QED
    BY <1>4, <2>1, <2>2
<1> QED
  BY <1>3, <1>5, <1>10, <1>11

(* What such a text has behind what has been read begins with the token    *)
(* that is ahead.                                                          *)
LEMMA Advance ==
  ASSUME TextInv, NEW t \in Tokens, NEW z \in Seq(Tokens), NEW S,
         S = Consumed \o (<<t>> \o z), Compat(S)
  PROVE  t = Ahead /\ S = (Consumed \o <<Ahead>>) \o z
<1>1. Consumed \in Seq(Tokens) /\ <<t>> \in Seq(Tokens) /\ Len(<<t>>) = 1
  BY TokenText DEF TextInv
<1> DEFINE c == Consumed
           a == <<t>>
           n == Len(c)
           x == a \o z
<1>2. n \in Nat /\ Len(text) = n + 1 /\ c \in Seq(Tokens)
  BY <1>1, TextSplit
<1>3. /\ x \in Seq(Tokens) /\ Len(x) \in Nat /\ Len(x) >= 1 /\ x[1] = t
  <2>1. a \in Seq(Tokens) /\ Len(a) = 1 /\ a[1] = t
    BY <1>1
  <2> HIDE DEF a
  <2>2. /\ x \in Seq(Tokens) /\ Len(x) = 1 + Len(z) /\ Len(z) \in Nat
        /\ \A i \in 1..(1 + Len(z)) : x[i] = IF i <= 1 THEN a[i] ELSE z[i - 1]
    <3>1. /\ x \in Seq(Tokens) /\ Len(x) = Len(a) + Len(z) /\ Len(z) \in Nat
          /\ \A i \in 1..(Len(a) + Len(z)) : x[i] = IF i <= Len(a) THEN a[i] ELSE z[i - Len(a)]
      BY <2>1, TextAt
    <3> HIDE DEF x
    <3> QED
      BY <2>1, <3>1
  <2>3. 1 \in 1..(1 + Len(z)) /\ 1 <= 1
    BY <2>2
  <2> HIDE DEF x
  <2> QED
    BY <2>1, <2>2, <2>3
<1>4. S = c \o x
  OBVIOUS
<1> HIDE DEF x, c
<1>5. /\ Len(S) = n + Len(x)
      /\ \A i \in 1..(n + Len(x)) : S[i] = IF i <= n THEN c[i] ELSE x[i - n]
  BY <1>2, <1>3, <1>4, TextAt
<1>6. S[n + 1] = t
  <2> HIDE DEF n
  <2>1. n + 1 \in 1..(n + Len(x)) /\ ~(n + 1 <= n) /\ (n + 1) - n = 1
    BY <1>2, <1>3
  <2> QED
    BY <1>3, <1>5, <2>1
<1>7. S[n + 1] = text[n + 1]
  <2> HIDE DEF n
  <2>1. n + 1 \in 1..Len(S) /\ n + 1 <= Len(text)
    BY <1>2, <1>3, <1>5
  <2> QED
    BY <2>1 DEF Compat
<1>8. t = Ahead
  BY <1>2, <1>6, <1>7 DEF Ahead
<1>9. S = (c \o a) \o z
  <2>1. a \in Seq(Tokens)
    BY <1>1
  <2> HIDE DEF a
  <2>2. S = c \o (a \o z)
    BY <1>4 DEF x
  <2> QED
    BY <1>2, <2>1, <2>2, TextsAssociate
<1> QED
  BY <1>8, <1>9 DEF c

-----------------------------------------------------------------------------
(* How deep a text is nested. *)
Opens == {"[", "{"}
Closes == {"]", "}"}
Places(s, i, B) == {j \in 1..i : s[j] \in B}

(* The places of some tokens can be counted. *)
LEMMA PlacesFinite ==
  ASSUME NEW s, NEW i \in Nat, NEW B
  PROVE  IsFiniteSet(Places(s, i, B)) /\ Cardinality(Places(s, i, B)) \in Nat
<1>1. IsFiniteSet(1..i)
  BY FS_Interval
<1>2. Places(s, i, B) \subseteq 1..i
  BY DEF Places
<1>3. IsFiniteSet(Places(s, i, B))
  BY <1>1, <1>2, FS_Subset
<1> QED
  BY <1>3, FS_CardinalityType

(* The brackets that are open are a difference of two counts. *)
LEMMA OpenedIs ==
  ASSUME NEW s, NEW i \in Nat
  PROVE  /\ Opened(s, i) = Cardinality(Places(s, i, Opens)) - Cardinality(Places(s, i, Closes))
         /\ Opened(s, i) \in Int
<1>1. Opened(s, i) = Cardinality(Places(s, i, Opens)) - Cardinality(Places(s, i, Closes))
  BY Zenon DEF Opened, Places, Opens, Closes
<1>2. Cardinality(Places(s, i, Opens)) \in Nat /\ Cardinality(Places(s, i, Closes)) \in Nat
  BY PlacesFinite
<1> QED
  BY <1>1, <1>2

(* What comes behind does not count. *)
LEMMA OpenedBefore ==
  ASSUME NEW s \in Seq(Tokens), NEW z \in Seq(Tokens), NEW i \in 0..Len(s)
  PROVE  Opened(s \o z, i) = Opened(s, i)
<1> DEFINE w == s \o z
<1>1. Len(s) \in Nat /\ i \in Nat
  BY LenProperties
<1>2. \A j \in 1..(Len(s) + Len(z)) : w[j] = IF j <= Len(s) THEN s[j] ELSE z[j - Len(s)]
  BY TextAt
<1>3. Len(z) \in Nat
  BY LenProperties
<1> HIDE DEF w
<1>4. \A j \in 1..i : w[j] = s[j]
  <2>1. \A j \in 1..i : j \in 1..(Len(s) + Len(z)) /\ j <= Len(s)
    BY <1>1, <1>3
  <2> QED
    BY <1>2, <2>1
<1>5. \A B : Places(w, i, B) = Places(s, i, B)
  BY <1>4 DEF Places
<1> QED
  BY <1>1, <1>5, OpenedIs DEF w

(* One place more. *)
LEMMA PlacesMore ==
  ASSUME NEW w, NEW n \in Nat, NEW B
  PROVE  Cardinality(Places(w, n + 1, B))
           = Cardinality(Places(w, n, B)) + (IF w[n + 1] \in B THEN 1 ELSE 0)
<1>1. IsFiniteSet(Places(w, n, B)) /\ n + 1 \notin Places(w, n, B)
        /\ Cardinality(Places(w, n, B)) \in Nat
  <2>1. n + 1 \notin 1..n
    OBVIOUS
  <2>2. n + 1 \notin Places(w, n, B)
    BY <2>1 DEF Places
  <2> QED
    BY <2>2, PlacesFinite
<1>2. CASE w[n + 1] \in B
  <2>1. Places(w, n + 1, B) = Places(w, n, B) \cup {n + 1}
    BY <1>2 DEF Places
  <2>2. Cardinality(Places(w, n, B) \cup {n + 1}) = Cardinality(Places(w, n, B)) + 1
    BY <1>1, FS_AddElement
  <2> QED
    BY <1>2, <2>1, <2>2
<1>3. CASE w[n + 1] \notin B
  <2>1. Places(w, n + 1, B) = Places(w, n, B)
    BY <1>3 DEF Places
  <2> QED
    BY <1>1, <1>3, <2>1
<1> QED
  BY <1>2, <1>3

(* A text with one more token. *)
LEMMA OneMore ==
  ASSUME NEW s \in Seq(Tokens), NEW t \in Tokens
  PROVE  LET w == s \o <<t>>
             n == Len(s)
         IN  /\ w \in Seq(Tokens) /\ Len(w) = n + 1 /\ n \in Nat
             /\ w[n + 1] = t /\ \A i \in 1..n : w[i] = s[i]
<1> DEFINE a == <<t>>
           w == s \o a
           n == Len(s)
<1>1. a \in Seq(Tokens) /\ Len(a) = 1 /\ a[1] = t
  BY TokenText
<1> HIDE DEF a
<1>2. /\ w \in Seq(Tokens) /\ Len(w) = n + 1 /\ n \in Nat
      /\ \A i \in 1..(n + 1) : w[i] = IF i <= n THEN s[i] ELSE a[i - n]
  <2>1. /\ w \in Seq(Tokens) /\ Len(w) = Len(s) + Len(a) /\ Len(s) \in Nat
        /\ \A i \in 1..(Len(s) + Len(a)) : w[i] = IF i <= Len(s) THEN s[i] ELSE a[i - Len(s)]
    BY <1>1, TextAt
  <2> HIDE DEF w
  <2> QED
    BY <1>1, <2>1
<1> HIDE DEF w, n
<1>3. n + 1 \in 1..(n + 1) /\ ~(n + 1 <= n) /\ (n + 1) - n = 1
      /\ \A i \in 1..n : i \in 1..(n + 1) /\ i <= n
  BY <1>2
<1>4. w[n + 1] = t /\ \A i \in 1..n : w[i] = s[i]
  BY <1>1, <1>2, <1>3
<1> QED
  BY <1>2, <1>4 DEF w, n, a

(* What one more token leaves open. *)
LEMMA OpenedMore ==
  ASSUME NEW s \in Seq(Tokens), NEW t \in Tokens
  PROVE  Opened(s \o <<t>>, Len(s \o <<t>>))
           = Opened(s, Len(s)) + (IF t \in Opens THEN 1 ELSE IF t \in Closes THEN -1 ELSE 0)
<1> DEFINE w == s \o <<t>>
           n == Len(s)
<1>1. w \in Seq(Tokens) /\ Len(w) = n + 1 /\ n \in Nat /\ w[n + 1] = t
  BY OneMore
<1>2. Opened(w, n) = Opened(s, n)
  <2>1. <<t>> \in Seq(Tokens) /\ n \in 0..Len(s)
    BY <1>1, TokenText
  <2> QED
    BY <2>1, OpenedBefore
<1> HIDE DEF w, n
<1> DEFINE o == Cardinality(Places(w, n, Opens))
           c == Cardinality(Places(w, n, Closes))
           p == Cardinality(Places(w, n + 1, Opens))
           d == Cardinality(Places(w, n + 1, Closes))
<1>3. Opened(w, n) = o - c /\ Opened(w, n + 1) = p - d
  <2>1. n + 1 \in Nat
    BY <1>1
  <2> QED
    BY <1>1, <2>1, OpenedIs
<1>4. o \in Nat /\ c \in Nat
  BY <1>1, PlacesFinite
<1>5. p = o + (IF t \in Opens THEN 1 ELSE 0) /\ d = c + (IF t \in Closes THEN 1 ELSE 0)
  BY <1>1, PlacesMore
<1> HIDE DEF o, c, p, d
<1>6. t \in Opens => t \notin Closes
  BY DEF Opens, Closes
<1>7. p - d = (o - c) + (IF t \in Opens THEN 1 ELSE IF t \in Closes THEN -1 ELSE 0)
  BY <1>4, <1>5, <1>6
<1>8. Opened(w, Len(w)) = Opened(s, n) + (IF t \in Opens THEN 1 ELSE IF t \in Closes THEN -1 ELSE 0)
  BY <1>1, <1>2, <1>3, <1>7
<1> QED
  BY <1>8 DEF w, n

(* One more token that closes, or that is not too deep. *)
LEMMA ShallowMore ==
  ASSUME NEW s \in Seq(Tokens), NEW t \in Tokens, Shallow(s),
         t \in Closes \/ Opened(s, Len(s)) <= MaxNesting
  PROVE  Shallow(s \o <<t>>)
<1> DEFINE w == s \o <<t>>
           n == Len(s)
<1>1. w \in Seq(Tokens) /\ Len(w) = n + 1 /\ n \in Nat /\ w[n + 1] = t /\ \A i \in 1..n :
        w[i] = s[i]
  BY OneMore
<1>2. DOMAIN s = 1..n /\ DOMAIN w = 1..(n + 1)
  BY <1>1, LenProperties
<1>3. \A i \in 0..n : Opened(w, i) = Opened(s, i)
  BY TokenText, OpenedBefore
<1> HIDE DEF w
<1>4. ASSUME NEW i \in DOMAIN w PROVE w[i] \in Closes \/ Opened(w, i - 1) <= MaxNesting
  <2>1. i - 1 \in 0..n /\ (i = n + 1 \/ i \in 1..n)
    <3> HIDE DEF n
    <3> QED
      BY <1>1, <1>2
  <2>2. Opened(w, i - 1) = Opened(s, i - 1)
    BY <1>3, <2>1
  <2>3. CASE i = n + 1
    <3>1. i - 1 = n
      <4> HIDE DEF n
      <4> QED
        BY <1>1, <2>3
    <3> QED
      BY <1>1, <2>2, <2>3, <3>1
  <2>4. CASE i \in 1..n
    <3>1. s[i] \in Closes \/ Opened(s, i - 1) <= MaxNesting
      BY <1>2, <2>4 DEF Shallow, Closes
    <3> QED
      BY <1>1, <2>2, <2>4, <3>1
  <2> QED
    BY <2>1, <2>3, <2>4
<1>5. Shallow(w)
  BY <1>4 DEF Shallow, Closes
<1> QED
  BY <1>5 DEF w

(* Where such a text goes on with no closing bracket it is not too deep.   *)
LEMMA ShallowHere ==
  ASSUME NEW s \in Seq(Tokens), NEW t \in Tokens \ Closes, NEW z \in Seq(Tokens),
         Shallow(s \o (<<t>> \o z))
  PROVE  Opened(s, Len(s)) <= MaxNesting
<1> DEFINE a == <<t>>
           v == s \o a
           w == v \o z
           n == Len(s)
<1>1. a \in Seq(Tokens)
  BY TokenText
<1>2. w = s \o (a \o z)
  <2> HIDE DEF a
  <2> QED
    BY <1>1, TextsAssociate
<1>3. v \in Seq(Tokens) /\ Len(v) = n + 1 /\ n \in Nat /\ v[n + 1] = t
  BY OneMore
<1>4. Shallow(w)
  BY <1>2
<1>5. Opened(v, n) = Opened(s, n)
  <2>1. n \in 0..Len(s)
    BY <1>3
  <2> QED
    BY <1>1, <2>1, OpenedBefore
<1> HIDE DEF v, n
<1>6. Opened(w, n) = Opened(v, n)
  <2>1. n \in 0..Len(v)
    BY <1>3
  <2> QED
    BY <1>3, <2>1, OpenedBefore
<1>7. n + 1 \in DOMAIN w /\ w[n + 1] = t
  <2>1. /\ w \in Seq(Tokens) /\ Len(w) = Len(v) + Len(z) /\ Len(z) \in Nat
        /\ \A i \in 1..(Len(v) + Len(z)) : w[i] = IF i <= Len(v) THEN v[i] ELSE z[i - Len(v)]
    BY <1>3, TextAt
  <2>2. DOMAIN w = 1..Len(w)
    BY <2>1, LenProperties
  <2> HIDE DEF w
  <2>3. n + 1 \in 1..(Len(v) + Len(z)) /\ n + 1 <= Len(v)
    BY <1>3, <2>1
  <2> QED
    BY <1>3, <2>1, <2>2, <2>3
<1> HIDE DEF w
<1>8. w[n + 1] \in Closes \/ Opened(w, (n + 1) - 1) <= MaxNesting
  BY <1>4, <1>7 DEF Shallow, Closes
<1>9. (n + 1) - 1 = n
  BY <1>3
<1> QED
  BY <1>5, <1>6, <1>7, <1>8, <1>9 DEF n

(* The text of no tokens opens nothing. *)
LEMMA NothingOpened == Opened(<<>>, Len(<<>>)) = 0 /\ Shallow(<<>>)
<1>1. Len(<<>>) = 0 /\ DOMAIN <<>> = {}
  BY EmptySeq
<1>2. \A B : Places(<<>>, 0, B) = {}
  BY DEF Places
<1>3. Opened(<<>>, 0) = 0
  <2>1. Cardinality(Places(<<>>, 0, Opens)) = 0 /\ Cardinality(Places(<<>>, 0, Closes)) = 0
    BY <1>2, FS_EmptySet, Zenon
  <2>2. Opened(<<>>, 0) = Cardinality(Places(<<>>, 0, Opens)) - Cardinality(Places(<<>>, 0, Closes))
    BY OpenedIs
  <2> QED
    BY <2>1, <2>2
<1> QED
  BY <1>1, <1>3 DEF Shallow

(* The inside of a container, with what was before it, is a text. *)
LEMMA InnerIs ==
  ASSUME NEW kind \in Kinds
  PROVE  \A x \in Seq(Tokens) : \A b \in Seq(Tokens) : Inner(kind, x, b) \in Seq(Tokens)
BY NoText, InnerMore

(* It is one text with what is read behind it. *)
LEMMA InnerLonger ==
  ASSUME NEW kind \in Kinds
  PROVE  \A x \in Seq(Tokens) : \A b \in Seq(Tokens) : \A t \in Seq(Tokens) :
           Inner(kind, x, b \o t) = Inner(kind, x, b) \o t
BY InnerMore

(* The same, when the text behind it is itself two texts in a row. *)
LEMMA InnerThenTwo ==
  ASSUME NEW kind \in Kinds
  PROVE  \A x \in Seq(Tokens) : \A b \in Seq(Tokens) :
         \A k \in Seq(Tokens) : \A w \in Seq(Tokens) :
           (Inner(kind, x, b) \o k) \o w = Inner(kind, x, b \o (k \o w))
<1> SUFFICES ASSUME NEW x \in Seq(Tokens), NEW b \in Seq(Tokens)
             PROVE  \A k \in Seq(Tokens) : \A w \in Seq(Tokens) :
                      (Inner(kind, x, b) \o k) \o w = Inner(kind, x, b \o (k \o w))
  OBVIOUS
<1>1. PICK p \in Seq(Tokens) : p = Inner(kind, x, b)
  BY InnerIs
<1>2. ASSUME NEW k \in Seq(Tokens), NEW w \in Seq(Tokens)
      PROVE  (p \o k) \o w = Inner(kind, x, b \o (k \o w))
  <2>1. (p \o k) \o w = p \o (k \o w)
    BY TextsAssociate
  <2>2. PICK t \in Seq(Tokens) : t = k \o w
    BY TextsJoined
  <2>3. \A q \in Seq(Tokens) : \A r \in Seq(Tokens) : \A s \in Seq(Tokens) :
          Inner(kind, q, r \o s) = Inner(kind, q, r) \o s
    BY InnerLonger
  <2>4. Inner(kind, x, b \o t) = Inner(kind, x, b) \o t
    BY <2>3
  <2> QED
    BY <1>1, <2>1, <2>2, <2>4
<1> QED
  BY <1>1, <1>2

-----------------------------------------------------------------------------
(* What has been read, c, where an item or the end can come; behind an     *)
(* item; behind a name; and behind a value with the meaning m.             *)
ReadIn(f, calls, c) ==
  \E x \in Seq(Tokens), b \in Seq(Tokens) :
    /\ Reach("read", calls, x)
    /\ Before(f.value.kind, b, f.value.items)
    /\ c = Inner(f.value.kind, x, b)

ReadBehind(f, calls, c) ==
  \E x \in Seq(Tokens), b \in Seq(Tokens) :
    /\ Reach("read", calls, x)
    /\ After(f.value.kind, b, f.value.items)
    /\ c = Inner(f.value.kind, x, b)

ReadName(f, calls, c) ==
  /\ f.key.name \in Strings
  /\ \E d \in Seq(Tokens) : ReadIn(f, calls, d) /\ c = d \o <<f.key.name>>

ReadValue(calls, c, m) ==
  \E x \in Seq(Tokens), w \in Seq(Tokens) :
    Reach("read", calls, x) /\ Phrase(w, m) \in Values /\ c = x \o w

(* Two tokens are a text. *)
LEMMA TwoTokens == ASSUME NEW s \in Tokens, NEW t \in Tokens PROVE <<s, t>> \in Seq(Tokens)
OBVIOUS

(* An opening bracket has been read. *)
LEMMA ReadOpened ==
  ASSUME NEW f, f.value.kind \in Kinds, f.value.items = <<>>, NEW calls, IsList(calls),
         NEW c, Reach("read", calls, c)
  PROVE  ReadIn(f, calls, c \o <<OpenOf(f.value.kind)>>)
<1>1. c \in Seq(Tokens)
  BY ReachText
<1> DEFINE kind == f.value.kind
           open == <<OpenOf(kind)>>
<1>2. open \o <<>> = open
  <2>1. open \in Seq(Tokens)
    BY BracketsAre
  <2> HIDE DEF open
  <2> QED
    BY <2>1, NoText
<1>3. Before(kind, <<>>, f.value.items) /\ <<>> \in Seq(Tokens)
  BY BeforeAll, NoText
<1>4. c \o open = Inner(kind, c, <<>>)
  BY <1>2 DEF Inner
<1> QED
  BY <1>1, <1>3, <1>4, Zenon DEF ReadIn

(* A closing bracket has been read: the container is a value. *)
LEMMA ReadClosed ==
  ASSUME NEW f, f.value.kind \in Kinds, Clean(f.value.kind, f.value.items),
         NEW calls, NEW c, ReadIn(f, calls, c) \/ ReadBehind(f, calls, c)
  PROVE  ReadValue(calls, c \o <<CloseOf(f.value.kind)>>, Meant(f.value.kind, f.value.items))
<1> DEFINE kind == f.value.kind
           items == f.value.items
           close == <<CloseOf(kind)>>
<1>1. PICK x \in Seq(Tokens), b \in Seq(Tokens) :
        /\ Reach("read", calls, x)
        /\ Before(kind, b, items) \/ After(kind, b, items)
        /\ c = Inner(kind, x, b)
  BY Zenon DEF ReadIn, ReadBehind
<1> DEFINE w == <<OpenOf(kind)>> \o (b \o close)
<1>2. Phrase(b, items) \in List(kind)
  BY <1>1, ReadIsList
<1>3. Phrase(w, Meant(kind, items)) \in Values
  BY <1>2, ContainerIsValue
<1>4. <<OpenOf(kind)>> \in Seq(Tokens) /\ close \in Seq(Tokens)
  BY BracketsAre
<1>5. Inner(kind, x, b \o close) = x \o w
  BY DEF Inner
<1>6. w \in Seq(Tokens)
  <2>1. b \o close \in Seq(Tokens)
    BY <1>4, TextsJoined
  <2> QED
    BY <1>4, <2>1, TextsJoined
<1> HIDE DEF w, close
<1>7. c \o close = x \o w
  <2>1. \A p \in Seq(Tokens) : \A q \in Seq(Tokens) : \A t \in Seq(Tokens) :
          Inner(kind, p, q \o t) = Inner(kind, p, q) \o t
    BY InnerLonger
  <2>2. Inner(kind, x, b) \o close = Inner(kind, x, b \o close)
    BY <1>4, <2>1
  <2> QED
    BY <1>1, <1>5, <2>2
<1>8. ReadValue(calls, c \o close, Meant(kind, items))
  BY <1>1, <1>3, <1>6, <1>7, Zenon DEF ReadValue
<1> QED
  BY <1>8 DEF close

(* A comma has been read. *)
LEMMA ReadComma ==
  ASSUME NEW f, f.value.kind \in Kinds, NEW calls, NEW c, ReadBehind(f, calls, c)
  PROVE  ReadIn(f, calls, c \o <<",">>)
<1> DEFINE kind == f.value.kind
           items == f.value.items
           comma == <<",">>
<1>1. PICK x \in Seq(Tokens), b \in Seq(Tokens) :
        /\ Reach("read", calls, x) /\ After(kind, b, items) /\ c = Inner(kind, x, b)
  BY Zenon DEF ReadBehind
<1>2. Before(kind, b \o comma, items)
  BY <1>1, AfterThenBefore
<1>3. comma \in Seq(Tokens)
  BY TheseAreTokens, TokenText
<1> HIDE DEF comma
<1>4. c \o comma = Inner(kind, x, b \o comma) /\ b \o comma \in Seq(Tokens)
  <2>1. \A p \in Seq(Tokens) : \A q \in Seq(Tokens) : \A t \in Seq(Tokens) :
          Inner(kind, p, q \o t) = Inner(kind, p, q) \o t
    BY InnerLonger
  <2>2. Inner(kind, x, b) \o comma = Inner(kind, x, b \o comma)
    BY <1>3, <2>1
  <2>3. b \o comma \in Seq(Tokens)
    BY <1>3, TextsJoined
  <2> QED
    BY <1>1, <2>2, <2>3
<1>5. ReadIn(f, calls, c \o comma)
  BY <1>1, <1>2, <1>4, Zenon DEF ReadIn
<1> QED
  BY <1>5 DEF comma

(* A value is awaited: an item of an array, or one behind a name.          *)
LEMMA ReadToItem ==
  ASSUME NEW f, f.value.kind = "array", NEW calls, IsList(calls), NEW c, ReadIn(f, calls, c)
  PROVE  Reach("read", <<f>> \o calls, c)
<1>1. PICK x \in Seq(Tokens), b \in Seq(Tokens) :
        /\ Reach("read", calls, x) /\ Before(f.value.kind, b, f.value.items)
             /\ c = Inner(f.value.kind, x, b)
  BY Zenon DEF ReadIn
<1>2. c \in Seq(Tokens)
  <2>1. f.value.kind \in Kinds
    BY DEF Kinds
  <2>2. \A p \in Seq(Tokens) : \A q \in Seq(Tokens) : Inner(f.value.kind, p, q) \in Seq(Tokens)
    BY <2>1, InnerIs
  <2> QED
    BY <1>1, <2>2
<1>3. f.value.kind # "object" /\ KeyTokens(f) = <<>>
  BY DEF KeyTokens
<1>4. c = Inner(f.value.kind, x, b) \o KeyTokens(f)
  BY <1>1, <1>2, <1>3, NoText
<1>5. ReadLink(f, x, c)
  BY <1>1, <1>3, <1>4, Zenon DEF ReadLink
<1>6. Link("read", f, x, c)
  BY <1>5 DEF Link
<1> QED
  BY <1>1, <1>2, <1>6, ReachPushed

(* A name and a colon have been read. *)
LEMMA ReadToMember ==
  ASSUME NEW f, f.value.kind = "object", NEW calls, IsList(calls), NEW c, ReadName(f, calls, c)
  PROVE  Reach("read", <<f>> \o calls, c \o <<":">>)
<1> DEFINE n == f.key.name
<1>1. PICK d \in Seq(Tokens) : ReadIn(f, calls, d) /\ c = d \o <<n>>
  BY Zenon DEF ReadName
<1>2. n \in Strings
  BY DEF ReadName
<1>3. PICK x \in Seq(Tokens), b \in Seq(Tokens) :
        /\ Reach("read", calls, x) /\ Before(f.value.kind, b, f.value.items)
             /\ d = Inner(f.value.kind, x, b)
  BY <1>1, Zenon DEF ReadIn
<1>4. n \in Tokens /\ ":" \in Tokens
  BY <1>2, TheseAreTokens
<1>8. KeyTokens(f) = <<n>> \o <<":">>
  <2>1. <<n, ":">> = <<n>> \o <<":">>
    BY <1>4
  <2>2. KeyTokens(f) = <<n, ":">>
    BY DEF KeyTokens
  <2> QED
    BY <2>1, <2>2
<1> HIDE DEF n
<1>5. PICK name \in Seq(Tokens) : name = <<n>>
  BY <1>4, TokenText
<1>6. PICK colon \in Seq(Tokens) : colon = <<":">>
  BY <1>4, TokenText
<1>7. c \o colon = d \o (name \o colon) /\ c \o colon \in Seq(Tokens)
  BY <1>1, <1>5, TextsAssociate, TextsJoined
<1>9. c \o colon = Inner(f.value.kind, x, b) \o KeyTokens(f)
  BY <1>3, <1>5, <1>6, <1>7, <1>8
<1>10. ReadLink(f, x, c \o colon)
  BY <1>2, <1>3, <1>9, Zenon DEF ReadLink, n
<1>11. Link("read", f, x, c \o colon)
  BY <1>10 DEF Link
<1>12. Reach("read", <<f>> \o calls, c \o colon)
  BY <1>3, <1>7, <1>11, ReachPushed
<1> QED
  BY <1>6, <1>12

(* The value read becomes an item. *)
LEMMA ReadAdded ==
  ASSUME NEW calls, IsList(calls), calls # <<>>, NEW kind \in Kinds,
         kind = Head(calls).value.kind,
         NEW c, NEW m, ReadValue(calls, c, m),
         NEW g, g.value.kind = kind, NEW n,
         kind = "object" => n = Head(calls).key.name, kind = "array" => n = "",
         g.value.items = Append(Head(calls).value.items, Item(n, m))
  PROVE  ReadBehind(g, Tail(calls), c)
<1> DEFINE f == Head(calls)
           items == f.value.items
           keys == KeyTokens(f)
<1>1. PICK y \in Seq(Tokens), w \in Seq(Tokens) : Reach("read", calls, y)
        /\ Phrase(w, m) \in Values /\ c = y \o w
  BY Zenon DEF ReadValue
<1>2. PICK x \in Seq(Tokens) : Reach("read", Tail(calls), x) /\ Link("read", f, x, y)
  BY <1>1, ReachPopped
<1>3. ReadLink(f, x, y)
  BY <1>2 DEF Link
<1>4. kind = "object" => n \in Strings
  BY <1>3 DEF ReadLink
<1>5. PICK b \in Seq(Tokens) : Before(kind, b, items) /\ y = Inner(kind, x, b) \o keys
  BY <1>3, Zenon DEF ReadLink
<1>6. PICK v \in Values : v.text = w /\ v.meaning = m
  <2> DEFINE p == Phrase(w, m)
  <2>1. p \in Values /\ p.text = w /\ p.meaning = m
    BY <1>1, PhraseIs
  <2> HIDE DEF p
  <2> QED
    BY <2>1
<1>7. PICK e \in Entries(kind) :
         /\ e.meaning = <<Item(n, v.meaning)>>
         /\ e.text = (IF kind = "object" THEN <<n, ":">> ELSE <<>>) \o v.text
  BY <1>4, EntryOf
<1>8. e.text = keys \o w
  <2>1. keys = IF kind = "object" THEN <<n, ":">> ELSE <<>>
    BY DEF KeyTokens
  <2> QED
    BY <1>6, <1>7, <2>1
<1>9. keys \in Seq(Tokens)
  <2>1. CASE kind = "object"
    <3>1. n \in Tokens /\ ":" \in Tokens
      BY <1>4, <2>1, TheseAreTokens
    <3>2. <<n, ":">> \in Seq(Tokens)
      BY <3>1, TwoTokens
    <3> QED
      BY <2>1, <3>2 DEF KeyTokens
  <2>2. CASE kind # "object"
    BY <2>2, NoText DEF KeyTokens
  <2> QED
    BY <2>1, <2>2
<1>10. After(kind, b \o e.text, items \o e.meaning)
  BY <1>5, BeforeThenAfter
<1>11. IsList(items)
  BY <1>5 DEF Before
<1>12. g.value.items = items \o e.meaning
  <2>1. g.value.items = items \o <<Item(n, m)>>
    BY <1>11, AppendedList
  <2> QED
    BY <1>6, <1>7, <2>1
<1> HIDE DEF keys
<1>13. c = Inner(kind, x, b \o e.text) /\ b \o e.text \in Seq(Tokens)
  <2>1. PICK k \in Seq(Tokens) : k = keys
    BY <1>9
  <2>2. PICK t \in Seq(Tokens) : t = k \o w
    BY TextsJoined
  <2>3. \A p \in Seq(Tokens) : \A q \in Seq(Tokens) :
        \A r \in Seq(Tokens) : \A s \in Seq(Tokens) :
          (Inner(kind, p, q) \o r) \o s = Inner(kind, p, q \o (r \o s))
    BY InnerThenTwo
  <2>4. (Inner(kind, x, b) \o k) \o w = Inner(kind, x, b \o (k \o w))
    <3>1. \A q \in Seq(Tokens) : \A r \in Seq(Tokens) : \A s \in Seq(Tokens) :
          (Inner(kind, x, q) \o r) \o s = Inner(kind, x, q \o (r \o s))
      BY <2>3
    <3>2. \A r \in Seq(Tokens) : \A s \in Seq(Tokens) :
          (Inner(kind, x, b) \o r) \o s = Inner(kind, x, b \o (r \o s))
      BY <3>1
    <3>3. \A s \in Seq(Tokens) : (Inner(kind, x, b) \o k) \o s = Inner(kind, x, b \o (k \o s))
      BY <3>2
    <3> QED
      BY <3>3
  <2>5. b \o t \in Seq(Tokens)
    BY TextsJoined
  <2>6. t = e.text
    BY <1>8, <2>1, <2>2
  <2> QED
    BY <1>1, <1>5, <2>1, <2>2, <2>4, <2>5, <2>6
<1>14. After(g.value.kind, b \o e.text, g.value.items)
  BY <1>10, <1>12
<1> QED
  BY <1>2, <1>13, <1>14, Zenon DEF ReadBehind

-----------------------------------------------------------------------------
(* The invariant.  What the calls under way hold is a list, without a name *)
(* twice in an object.                                                     *)
FrameItems(f) ==
  /\ IsList(f.value.items) /\ Clean(f.value.kind, f.value.items)
  /\ f.value.kind = "array" => f.key.name = ""

ItemsOk(calls) == \A i \in DOMAIN calls : FrameItems(calls[i])

(* A sign without digits has been taken for a value. *)
Sign == Ahead = Minus /\ (stack = <<>> => Consumed = <<>>)

(* What has been read is what the calls under way say it is. *)
ReadInv ==
  /\ mode = "value" => Reach("read", stack, Consumed)
  /\ mode = "return" /\ ret # NULL => ReadValue(stack, Consumed, Meaning(ret)) \/ Sign
  /\ mode \in {"first", "key", "next"} => ReadIn(Top, Tail(stack), Consumed)
  /\ mode = "colon" => ReadName(Top, Tail(stack), Consumed)
  /\ mode = "after" => ReadBehind(Top, Tail(stack), Consumed) \/ Ahead = Minus
  /\ mode = "parsed" => Phrase(Consumed, Meaning(ret)) \in Values \/ text = <<Minus>>

(* What must follow what has been read, to make it a value. *)
Due(y) ==
  /\ mode = "value" => DueValue(stack, y)
  /\ mode = "return" => ret # NULL /\ Reach("due", stack, y)
  /\ mode \in {"first", "next"} => DueList(Top, Tail(stack), y)
  /\ mode = "key" => DueKey(Top, Tail(stack), y)
  /\ mode = "colon" => DueColon(Top, Tail(stack), Top.key.name, y)
  /\ mode = "after" => DueRest(Top, Tail(stack), y)
  /\ mode # "failed"

SentenceText(S) == \E v \in Values : v.text = S /\ Shallow(S)
NoSentence == \A S : SentenceText(S) => ~Compat(S)

(* Every sentence that may still be the text goes on as the calls under    *)
(* way expect.                                                             *)
DueInv ==
  ~short => \A S : SentenceText(S) /\ Compat(S) => \E y \in Seq(Tokens) : S = Consumed \o y
    /\ Due(y)

(* What has been read leaves open what is under way, and is not nested too *)
(* deep; but for a container opened too deep, in which nothing will be.    *)
Nulled == mode = "return" /\ ret = NULL
DepthInv ==
  \/ mode = "failed" \/ Nulled
  \/ /\ Opened(Consumed, Len(Consumed)) = Len(stack)
     /\ Len(stack) <= MaxNesting + 1
     /\ Len(stack) <= MaxNesting \/ mode = "first" => Shallow(Consumed)
     /\ mode \in {"after", "next", "return", "parsed"} => Len(stack) <= MaxNesting

GrammarInv == mode # "undefined" => TextInv /\ ItemsOk(stack) /\ ReadInv /\ DueInv /\ DepthInv

-----------------------------------------------------------------------------
(* A text that begins with a token begins with the one ahead. *)
Fits(y) == \A t \in Tokens, z \in Seq(Tokens) : y = <<t>> \o z => t = Ahead

(* A sentence that may still be the text has the token ahead next. *)
LEMMA SentenceFits ==
  ASSUME TextInv, NEW S, Compat(S), NEW y \in Seq(Tokens), S = Consumed \o y
  PROVE  Fits(y)
<1> SUFFICES ASSUME NEW t \in Tokens, NEW z \in Seq(Tokens), y = <<t>> \o z PROVE t = Ahead
  BY DEF Fits
<1> QED
  BY Advance

(* The invariant of what is due, when nothing is passed over. *)
LEMMA DueNow ==
  ASSUME TextInv, DueInv, UNCHANGED text, short => short',
         \A y \in Seq(Tokens) : Due(y) /\ Fits(y) => Due(y)'
  PROVE  DueInv'
<1>1. Consumed' = Consumed
  BY DEF Consumed
<1> SUFFICES ASSUME ~short', NEW S, SentenceText(S), Compat(S)'
             PROVE  \E y \in Seq(Tokens) : S = Consumed' \o y /\ Due(y)'
  BY DEF DueInv
<1>2. Compat(S)
  BY DEF Compat
<1>3. PICK y \in Seq(Tokens) : S = Consumed \o y /\ Due(y)
  BY <1>2 DEF DueInv
<1> QED
  BY <1>1, <1>2, <1>3, SentenceFits

(* The same, when a token is passed over. *)
LEMMA DuePast ==
  ASSUME TextInv, Consume, Ahead \in Tokens, DueInv, short => short',
         \A y \in Seq(Tokens) : Due(y) /\ Fits(y) =>
           \E t \in Tokens, z \in Seq(Tokens) : y = <<t>> \o z /\ Due(z)'
  PROVE  DueInv'
<1> SUFFICES ASSUME ~short', NEW S, SentenceText(S), Compat(S)'
             PROVE  \E z \in Seq(Tokens) : S = Consumed' \o z /\ Due(z)'
  BY DEF DueInv
<1>1. Consumed' = Consumed \o <<Ahead>> /\ Compat(S)
  BY ConsumeStep
<1>2. PICK y \in Seq(Tokens) : S = Consumed \o y /\ Due(y)
  BY <1>1 DEF DueInv
<1>3. PICK t \in Tokens, z \in Seq(Tokens) : y = <<t>> \o z /\ Due(z)'
  BY <1>1, <1>2, SentenceFits
<1>4. S = (Consumed \o <<Ahead>>) \o z
  BY <1>1, <1>2, <1>3, Advance
<1> QED
  BY <1>1, <1>3, <1>4

(* If what is due cannot begin with the token ahead, no sentence fits. *)
LEMMA NoneDue ==
  ASSUME TextInv, DueInv, ~short, \A y \in Seq(Tokens) : ~(Due(y) /\ Fits(y))
  PROVE  NoSentence
<1> SUFFICES ASSUME NEW S, SentenceText(S), Compat(S) PROVE FALSE
  BY DEF NoSentence
<1>1. PICK y \in Seq(Tokens) : S = Consumed \o y /\ Due(y)
  BY DEF DueInv
<1> QED
  BY <1>1, SentenceFits

-----------------------------------------------------------------------------
(* One more call, with items that are in order. *)
LEMMA ItemsPushed ==
  ASSUME NEW f, FrameItems(f), NEW calls, IsList(calls), ItemsOk(calls)
  PROVE  ItemsOk(<<f>> \o calls)
<1> DEFINE new == <<f>> \o calls
<1>1. /\ DOMAIN new = 1..(Len(calls) + 1) /\ DOMAIN calls = 1..Len(calls) /\ Len(calls) \in Nat
      /\ new[1] = f /\ \A i \in DOMAIN calls : i + 1 \in DOMAIN new /\ new[i + 1] = calls[i]
  BY Pushed DEF IsList
<1> HIDE DEF new
<1> SUFFICES ASSUME NEW i \in DOMAIN new PROVE FrameItems(new[i])
  BY DEF ItemsOk, new
<1>2. CASE i = 1
  BY <1>1, <1>2
<1>3. CASE i # 1
  <2>1. i - 1 \in DOMAIN calls /\ (i - 1) + 1 = i
    BY <1>1, <1>3
  <2>2. new[(i - 1) + 1] = calls[i - 1] /\ FrameItems(calls[i - 1])
    BY <1>1, <2>1 DEF ItemsOk
  <2> QED
    BY <2>1, <2>2
<1> QED
  BY <1>2, <1>3

(* One call less. *)
LEMMA ItemsPopped ==
  ASSUME NEW calls, StackOk(calls), ItemsOk(calls), calls # <<>>
  PROVE  FrameItems(Head(calls)) /\ ItemsOk(Tail(calls)) /\ IsList(calls) /\ IsList(Tail(calls))
<1>1. calls = <<Head(calls)>> \o Tail(calls) /\ StackOk(Tail(calls))
  BY Popped
<1>2. IsList(calls) /\ IsList(Tail(calls))
  BY <1>1 DEF IsList, StackOk
<1> DEFINE f == Head(calls)
           rest == Tail(calls)
           new == <<f>> \o rest
<1>3. /\ DOMAIN new = 1..(Len(rest) + 1) /\ DOMAIN rest = 1..Len(rest) /\ Len(rest) \in Nat
      /\ new[1] = f /\ \A i \in DOMAIN rest : i + 1 \in DOMAIN new /\ new[i + 1] = rest[i]
  BY <1>2, Pushed DEF IsList
<1>4. new = calls
  BY <1>1
<1> HIDE DEF new, f, rest
<1>5. FrameItems(f)
  <2>1. 1 \in DOMAIN calls
    BY <1>3, <1>4
  <2> QED
    BY <1>3, <1>4, <2>1 DEF ItemsOk
<1>6. ItemsOk(rest)
  <2> SUFFICES ASSUME NEW i \in DOMAIN rest PROVE FrameItems(rest[i])
    BY DEF ItemsOk
  <2>1. i + 1 \in DOMAIN calls /\ calls[i + 1] = rest[i]
    BY <1>3, <1>4
  <2> QED
    BY <2>1 DEF ItemsOk
<1> QED
  BY <1>2, <1>5, <1>6 DEF f, rest

(* No calls have no items. *)
LEMMA NoItems == ItemsOk(<<>>)
BY DEF ItemsOk

(* An error path, or a value that fails: nothing more is passed over. *)
LEMMA FailStep ==
  ASSUME TextInv, ItemsOk(stack'), UNCHANGED text, mode' = "return", ret' = NULL,
         short' \/ NoSentence
  PROVE  GrammarInv'
<1>1. TextInv'
  BY DEF TextInv, Ahead, Consumed
<1>2. ReadInv'
  BY DEF ReadInv
<1>3. DueInv'
  <2>1. CASE short'
    BY <2>1 DEF DueInv
  <2>2. CASE NoSentence
    <3>1. \A S : SentenceText(S) => ~Compat(S)'
      BY <2>2 DEF NoSentence, Compat
    <3> QED
      BY <3>1 DEF DueInv
  <2> QED
    BY <2>1, <2>2
<1>4. DepthInv'
  BY DEF DepthInv, Nulled
<1>5. ItemsOk(stack)'
  OBVIOUS
<1> QED
  BY <1>1, <1>2, <1>3, <1>4, <1>5 DEF GrammarInv

-----------------------------------------------------------------------------
Begins(y, T) == \E t \in Tokens, z \in Seq(Tokens) : y = <<t>> \o z /\ t \in T

(* A text that fits begins with the token ahead. *)
LEMMA BeginsHere ==
  ASSUME NEW y, NEW T, Begins(y, T), Fits(y)
  PROVE  Ahead \in T
BY DEF Begins, Fits

(* A value begins with a literal or a bracket that opens. *)
LEMMA ValueBegins ==
  ASSUME NEW calls, NEW y, DueValue(calls, y)
  PROVE  Begins(y, Literals \cup Opens)
<1> SUFFICES \E t \in Tokens, z \in Seq(Tokens) : y = <<t>> \o z /\ t \in Literals \cup Opens
  BY DEF Begins
<1>1. CASE \E t \in Literals, x \in Seq(Tokens) : Reach("due", calls, x) /\ y = <<t>> \o x
  <2>1. \A t \in Literals : t \in Tokens
    BY TheseAreTokens DEF Literals
  <2> QED
    BY <1>1, <2>1
<1>2. CASE \E kind \in Kinds, z \in Seq(Tokens) : y = <<OpenOf(kind)>> \o z
  <2>1. \A kind \in Kinds : OpenOf(kind) \in Tokens /\ OpenOf(kind) \in Opens
    BY BracketsAre DEF OpenOf, Opens
  <2> QED
    BY <1>2, <2>1
<1>3. \/ \E t \in Literals, x \in Seq(Tokens) : Reach("due", calls, x) /\ y = <<t>> \o x
      \/ \E kind \in Kinds, z \in Seq(Tokens) : y = <<OpenOf(kind)>> \o z
           /\ DueInside(kind, calls, z)
  BY DueValueCases
<1> QED
  BY <1>1, <1>2, <1>3

(* With a token ahead that begins no value, no sentence fits. *)
LEMMA NoValueHere ==
  ASSUME TextInv, DueInv, ~short, mode = "value", Ahead \notin Literals \cup Opens
  PROVE  NoSentence
<1> SUFFICES ASSUME NEW y \in Seq(Tokens), Due(y), Fits(y) PROVE FALSE
  BY NoneDue
<1>1. DueValue(stack, y)
  BY DEF Due
<1>2. Begins(y, Literals \cup Opens)
  BY <1>1, ValueBegins
<1> QED
  BY <1>2, BeginsHere

(* Where the nesting is too deep for a value, no sentence fits. *)
LEMMA TooDeep ==
  ASSUME TextInv, DueInv, ~short, DepthInv, mode = "value", IsList(stack), Len(stack) > MaxNesting
  PROVE  NoSentence
<1> SUFFICES ASSUME NEW S, SentenceText(S), Compat(S) PROVE FALSE
  BY DEF NoSentence
<1>1. PICK y \in Seq(Tokens) : S = Consumed \o y /\ Due(y)
  BY DEF DueInv
<1>2. DueValue(stack, y)
  BY <1>1 DEF Due
<1>3. PICK t \in Tokens, z \in Seq(Tokens) : y = <<t>> \o z /\ t \in Literals \cup Opens
  BY <1>2, ValueBegins DEF Begins
<1>4. t \in Tokens \ Closes
  BY <1>3, Kinded DEF Opens, Closes
<1>5. Shallow(Consumed \o (<<t>> \o z)) /\ Consumed \in Seq(Tokens)
  BY <1>1, <1>3 DEF SentenceText, TextInv
<1>6. Opened(Consumed, Len(Consumed)) <= MaxNesting
  BY <1>4, <1>5, ShallowHere
<1>7. Opened(Consumed, Len(Consumed)) = Len(stack) /\ Len(stack) \in Nat /\ MaxNesting \in Nat
  BY LenProperties, BoundsAssumption DEF DepthInv, Nulled, IsList
<1> QED
  BY <1>6, <1>7

(* A value that cannot be had. *)
LEMMA FailedValues ==
  ASSUME ParseInv, GrammarInv, ParseNothing \/ ScalarFails \/ StringFails \/ OpenFails
  PROVE  GrammarInv'
<1>1. mode = "value" /\ UNCHANGED <<text, stack>> /\ mode' = "return" /\ ret' = NULL
  BY DEF ParseNothing, ScalarFails, StringFails, OpenFails, AtValue, Returns
<1>2. TextInv /\ ItemsOk(stack) /\ DueInv /\ DepthInv /\ IsList(stack)
  BY <1>1 DEF GrammarInv, ParseInv, StackOk, IsList
<1>3. short' \/ NoSentence
  <2>1. CASE ScalarFails \/ StringFails \/ OpenFails
    BY <2>1 DEF ScalarFails, StringFails, OpenFails
  <2>2. CASE ParseNothing
    <3>1. short' = short
      BY <2>2 DEF ParseNothing
    <3>2. CASE Len(stack) > MaxNesting
      BY <1>1, <1>2, <3>1, <3>2, TooDeep
    <3>3. CASE Ahead \in Broken \cup {"}", "]", ":", ",", End}
      <4>1. Ahead \notin Literals
        BY <3>3, Kinded
      <4>2. Ahead \notin Opens
        <5>1. "[" \notin Broken /\ "{" \notin Broken /\ "[" # End /\ "{" # End
          BY Kinded DEF End
        <5> QED
          BY <3>3, <5>1 DEF Opens, End
      <4> QED
        BY <1>1, <1>2, <3>1, <4>1, <4>2, NoValueHere
    <3> QED
      BY <2>2, <3>2, <3>3 DEF ParseNothing
  <2> QED
    BY <2>1, <2>2
<1>4. ItemsOk(stack')
  BY <1>1, <1>2
<1> QED
  BY <1>1, <1>2, <1>3, <1>4, FailStep

-----------------------------------------------------------------------------
(* The depth after one more token. *)
LEMMA DeeperText ==
  ASSUME TextInv, Consume, Ahead \in Tokens,
         Opened(Consumed, Len(Consumed)) = Len(stack), Len(stack) \in Nat
  PROVE  /\ Opened(Consumed, Len(Consumed))' =
              Len(stack) + (IF Ahead \in Opens THEN 1 ELSE IF Ahead \in Closes THEN -1 ELSE 0)
         /\ Shallow(Consumed) /\ (Ahead \in Closes \/ Len(stack) <= MaxNesting) =>
              Shallow(Consumed)'
<1>1. Consumed \in Seq(Tokens)
  BY DEF TextInv
<1>2. Consumed' = Consumed \o <<Ahead>>
  BY ConsumeStep
<1>3. Opened(Consumed', Len(Consumed')) =
        Len(stack) + (IF Ahead \in Opens THEN 1 ELSE IF Ahead \in Closes THEN -1 ELSE 0)
  BY <1>1, <1>2, OpenedMore
<1>4. Shallow(Consumed) /\ (Ahead \in Closes \/ Len(stack) <= MaxNesting) => Shallow(Consumed')
  BY <1>1, <1>2, ShallowMore
<1> QED
  BY <1>3, <1>4

(* A value with a block, or a container, is not NULL. *)
LEMMA NotNull == ASSUME NEW v, v.id # 0 \/ v.kind \in {"object", "array"} PROVE v # NULL
<1>1. NULL.id = 0 /\ NULL.kind = "error"
  BY DEF NULL, Value
<1> QED
  BY <1>1

(* A literal is read. *)
LEMMA LiteralRead ==
  ASSUME TextInv, ItemsOk(stack), ReadInv, DueInv, DepthInv, IsList(stack),
         mode = "value", Len(stack) <= MaxNesting, Ahead \in Literals, Consume,
         UNCHANGED <<stack, short>>, mode' = "return", ret' # NULL,
           Meaning(ret') = Meant(Ahead, <<>>)
  PROVE  GrammarInv'
<1>1. Ahead \in Tokens
  BY TheseAreTokens DEF Literals
<1>2. TextInv' /\ Consumed' = Consumed \o <<Ahead>>
  BY <1>1, ConsumeStep
<1>3. Consumed \in Seq(Tokens) /\ <<Ahead>> \in Seq(Tokens)
  BY <1>1, TokenText DEF TextInv
<1>4. ReadInv'
  <2>1. Reach("read", stack, Consumed) /\ Phrase(<<Ahead>>, Meant(Ahead, <<>>)) \in Values
    BY LiteralIsValue DEF ReadInv
  <2>2. ReadValue(stack, Consumed', Meaning(ret'))
    BY <1>2, <1>3, <2>1 DEF ReadValue
  <2> QED
    BY <2>2 DEF ReadInv
<1>5. DueInv'
  <2> SUFFICES ASSUME NEW y \in Seq(Tokens), Due(y), Fits(y)
               PROVE  \E t \in Tokens, z \in Seq(Tokens) : y = <<t>> \o z /\ Due(z)'
    BY <1>1, DuePast
  <2>1. DueValue(stack, y)
    BY DEF Due
  <2>2. CASE \E t \in Literals, x \in Seq(Tokens) : Reach("due", stack, x) /\ y = <<t>> \o x
    <3>1. PICK t \in Literals, x \in Seq(Tokens) : Reach("due", stack, x) /\ y = <<t>> \o x
      BY <2>2
    <3>2. t \in Tokens
      BY TheseAreTokens DEF Literals
    <3>3. Due(x)'
      BY <3>1 DEF Due
    <3> QED
      BY <3>1, <3>2, <3>3
  <2>3. CASE \E kind \in Kinds, z \in Seq(Tokens) : y = <<OpenOf(kind)>> \o z
    <3>1. PICK kind \in Kinds, z \in Seq(Tokens) : y = <<OpenOf(kind)>> \o z
      BY <2>3
    <3>2. OpenOf(kind) \in Tokens /\ OpenOf(kind) \in {"{", "["}
      BY BracketsAre DEF OpenOf
    <3>3. OpenOf(kind) = Ahead
      BY <3>1, <3>2 DEF Fits
    <3> QED
      BY <3>2, <3>3, Kinded
  <2>4. \/ \E t \in Literals, x \in Seq(Tokens) : Reach("due", stack, x) /\ y = <<t>> \o x
        \/ \E kind \in Kinds, z \in Seq(Tokens) : y = <<OpenOf(kind)>> \o z
             /\ DueInside(kind, stack, z)
    BY <2>1, DueValueCases
  <2> QED
    BY <2>2, <2>3, <2>4
<1>6. DepthInv'
  <2>1. Opened(Consumed, Len(Consumed)) = Len(stack) /\ Len(stack) \in Nat /\ MaxNesting \in Nat
        /\ Shallow(Consumed)
    BY LenProperties, BoundsAssumption DEF DepthInv, Nulled, IsList
  <2>2. Ahead \notin Opens /\ Ahead \notin Closes
    BY Kinded DEF Opens, Closes
  <2>3. Opened(Consumed, Len(Consumed))' = Len(stack) + 0 /\ Shallow(Consumed)'
    BY <1>1, <2>1, <2>2, DeeperText
  <2>4. Len(stack)' = Len(stack)
    OBVIOUS
  <2> QED
    BY <2>1, <2>3, <2>4 DEF DepthInv
<1>7. ItemsOk(stack)'
  OBVIOUS
<1> QED
  BY <1>2, <1>4, <1>5, <1>6, <1>7 DEF GrammarInv

(* What a value just made means. *)
LEMMA ValueIsMeant ==
  ASSUME NEW kind, NEW id, NEW inner
  PROVE  Meaning(Value(kind, id, inner)) = Meant(kind, <<>>) /\ Value(kind, id, inner).id = id
BY DEF Value, Meaning

(* A number, a literal or a string is read. *)
LEMMA ScalarsRead ==
  ASSUME ParseInv, GrammarInv, ParseScalar \/ ParseString
  PROVE  GrammarInv'
<1>1. /\ mode = "value" /\ Len(stack) <= MaxNesting /\ Ahead \in Literals /\ Consume
      /\ UNCHANGED <<stack, short>> /\ mode' = "return"
  BY DEF ParseScalar, ParseString, AtValue, Returns, Literals
<1>2. TextInv /\ ItemsOk(stack) /\ ReadInv /\ DueInv /\ DepthInv /\ IsList(stack)
  BY <1>1 DEF GrammarInv, ParseInv, StackOk, IsList
<1>3. IsFiniteSet(blocks) /\ blocks \subseteq Ids
  BY <1>1, Live
<1>4. ret' # NULL /\ Meaning(ret') = Meant(Ahead, <<>>)
  <2>1. CASE ParseScalar
    <3>1. ret' = Value(Ahead, Fresh(1)[1], 0)
      BY <2>1 DEF ParseScalar, Returns
    <3>2. Fresh(1)[1] \in Ids
      BY <1>3, FreshIsNew
    <3> QED
      BY <3>1, <3>2, ValueIsMeant, NotNull DEF Ids
  <2>2. CASE ParseString
    <3>1. ret' = Value(Ahead, Fresh(2)[1], Fresh(2)[2])
      BY <2>2 DEF ParseString, Returns
    <3>2. Fresh(2)[1] \in Ids
      BY <1>3, FreshPair
    <3> QED
      BY <3>1, <3>2, ValueIsMeant, NotNull DEF Ids
  <2> QED
    BY <2>1, <2>2
<1> QED
  BY <1>1, <1>2, <1>4, LiteralRead

(* A sign without digits is read: it is no value, and no sentence fits. *)
LEMMA MinusRead ==
  ASSUME ParseInv, GrammarInv, ParseMinus
  PROVE  GrammarInv'
<1>1. /\ mode = "value" /\ Len(stack) <= MaxNesting /\ Ahead = Minus
      /\ UNCHANGED <<text, stack, short>> /\ mode' = "return" /\ ret' = Value("0", Fresh(1)[1], 0)
  BY DEF ParseMinus, AtValue, Returns
<1>2. TextInv /\ ItemsOk(stack) /\ ReadInv /\ DueInv /\ DepthInv /\ IsList(stack)
  BY <1>1 DEF GrammarInv, ParseInv, StackOk, IsList
<1>3. TextInv' /\ Consumed' = Consumed /\ Ahead' = Ahead
  BY <1>1, <1>2 DEF TextInv, Ahead, Consumed
<1>4. ReadInv'
  <2>1. Reach("read", stack, Consumed)
    BY <1>1, <1>2 DEF ReadInv
  <2>2. stack = <<>> => Consumed = <<>>
    BY <2>1, ReachNone
  <2>3. Sign'
    BY <1>1, <1>3, <2>2 DEF Sign
  <2> QED
    BY <1>1, <2>3 DEF ReadInv
<1>5. DueInv'
  <2>1. CASE short
    BY <1>1, <2>1 DEF DueInv
  <2>2. CASE ~short
    <3>1. Ahead \notin Literals /\ Ahead \notin Opens
      BY <1>1, Kinded DEF Opens, Minus
    <3>2. NoSentence
      BY <1>1, <1>2, <2>2, <3>1, NoValueHere
    <3>3. \A S : SentenceText(S) => ~Compat(S)'
      BY <1>1, <3>2 DEF NoSentence, Compat
    <3> QED
      BY <3>3 DEF DueInv
  <2> QED
    BY <2>1, <2>2
<1>6. DepthInv'
  BY <1>1, <1>2, <1>3 DEF DepthInv, Nulled
<1>7. ItemsOk(stack)'
  BY <1>1, <1>2
<1> QED
  BY <1>3, <1>4, <1>5, <1>6, <1>7 DEF GrammarInv

-----------------------------------------------------------------------------
(* An array or an object begins, and ends. *)
LEMMA OpenedKind ==
  ASSUME Ahead \in {"{", "["}
  PROVE  \E kind \in Kinds : /\ kind = (IF Ahead = "{" THEN "object" ELSE "array")
                             /\ OpenOf(kind) = Ahead
                             /\ \A k \in Kinds : OpenOf(k) = Ahead => k = kind
BY DEF Kinds, OpenOf

(* Among no items no name is there twice. *)
LEMMA NothingDistinct == Distinct(<<>>)
<1> SUFFICES ASSUME NEW items, items = <<>> PROVE Distinct(items)
  OBVIOUS
<1>1. DOMAIN items = {}
  OBVIOUS
<1> QED
  BY <1>1 DEF Distinct

(* Arithmetic: one more on both sides. *)
LEMMA BothMore ==
  ASSUME NEW n \in Nat, NEW m \in Nat, n <= m
  PROVE  n + 1 <= m + 1
OBVIOUS

(* One more call under way. *)
LEMMA OneMoreCall ==
  ASSUME NEW f, NEW calls, IsList(calls)
  PROVE  /\ Len(<<f>> \o calls) = Len(calls) + 1 /\ Len(calls) \in Nat
         /\ Head(<<f>> \o calls) = f /\ Tail(<<f>> \o calls) = calls /\ IsList(<<f>> \o calls)
<1>1. IsList(<<f>>) /\ Len(<<f>>) = 1
  BY ListOfOne
<1>2. Len(<<f>> \o calls) = 1 + Len(calls) /\ Len(calls) \in Nat /\ IsList(<<f>> \o calls)
  BY <1>1, ListsJoined
<1>3. Head(<<f>> \o calls) = f /\ Tail(<<f>> \o calls) = calls
  BY Pushed DEF IsList
<1> QED
  BY <1>2, <1>3

(* An opening bracket is passed over. *)
LEMMA Begun ==
  ASSUME TextInv, ItemsOk(stack), ReadInv, DueInv, DepthInv, IsList(stack),
         mode = "value", Len(stack) <= MaxNesting, NEW kind \in Kinds, Ahead = OpenOf(kind),
         \A k \in Kinds : OpenOf(k) = Ahead => k = kind,
         NEW f, f.value.kind = kind, f.value.items = <<>>, f.key.name = "",
         Consume, UNCHANGED short, stack' = <<f>> \o stack, mode' = "first"
  PROVE  GrammarInv'
<1>1. Ahead \in Tokens
  BY BracketsAre
<1>2. TextInv' /\ Consumed' = Consumed \o <<Ahead>>
  BY <1>1, ConsumeStep
<1>3. Top' = f /\ Tail(stack)' = stack /\ Len(stack)' = Len(stack) + 1 /\ Len(stack) \in Nat
  BY OneMoreCall DEF Top
<1>4. ReadInv'
  <2>1. Reach("read", stack, Consumed)
    BY DEF ReadInv
  <2>2. ReadIn(f, stack, Consumed \o <<OpenOf(f.value.kind)>>)
    BY <2>1, ReadOpened
  <2>3. ReadIn(Top', Tail(stack)', Consumed')
    BY <1>2, <1>3, <2>2
  <2> QED
    BY <2>3 DEF ReadInv
<1>5. DueInv'
  <2> SUFFICES ASSUME NEW y \in Seq(Tokens), Due(y), Fits(y)
               PROVE  \E t \in Tokens, z \in Seq(Tokens) : y = <<t>> \o z /\ Due(z)'
    BY <1>1, DuePast
  <2>1. DueValue(stack, y)
    BY DEF Due
  <2>2. CASE \E t \in Literals, x \in Seq(Tokens) : Reach("due", stack, x) /\ y = <<t>> \o x
    <3>1. PICK t \in Literals, x \in Seq(Tokens) : y = <<t>> \o x
      BY <2>2
    <3>2. t \in Tokens
      BY TheseAreTokens DEF Literals
    <3>3. t = Ahead
      BY <3>1, <3>2 DEF Fits
    <3>4. Ahead \in {"{", "["}
      BY DEF OpenOf
    <3> QED
      BY <3>3, <3>4, Kinded
  <2>3. CASE \E k \in Kinds, z \in Seq(Tokens) : y = <<OpenOf(k)>> \o z /\ DueInside(k, stack, z)
    <3>1. PICK k \in Kinds, z \in Seq(Tokens) : y = <<OpenOf(k)>> \o z /\ DueInside(k, stack, z)
      BY <2>3
    <3>2. OpenOf(k) \in Tokens
      BY BracketsAre
    <3>3. OpenOf(k) = Ahead
      BY <3>1, <3>2 DEF Fits
    <3>4. DueList(f, stack, z)
      BY <3>1, <3>3 DEF DueInside
    <3>5. DueList(Top', Tail(stack)', z)
      BY <1>3, <3>4
    <3>6. Due(z)'
      BY <3>5 DEF Due
    <3> QED
      BY <3>1, <3>2, <3>6
  <2>4. \/ \E t \in Literals, x \in Seq(Tokens) : Reach("due", stack, x) /\ y = <<t>> \o x
        \/ \E k \in Kinds, z \in Seq(Tokens) : y = <<OpenOf(k)>> \o z /\ DueInside(k, stack, z)
    BY <2>1, DueValueCases
  <2> QED
    BY <2>2, <2>3, <2>4
<1>6. DepthInv'
  <2>1. Opened(Consumed, Len(Consumed)) = Len(stack) /\ MaxNesting \in Nat /\ Shallow(Consumed)
    BY BoundsAssumption DEF DepthInv, Nulled
  <2>2. Ahead \in Opens
    BY DEF Opens, OpenOf
  <2>3. Opened(Consumed, Len(Consumed))' = Len(stack) + 1 /\ Shallow(Consumed)'
    BY <1>1, <1>3, <2>1, <2>2, DeeperText
  <2>4. Opened(Consumed, Len(Consumed))' = Len(stack)' /\ Len(stack)' <= MaxNesting + 1
    <3>1. Len(stack)' = Len(stack) + 1 /\ Len(stack) \in Nat
      BY <1>3
    <3>2. Opened(Consumed, Len(Consumed))' = Len(stack)'
      BY <2>3, <3>1
    <3>3. Len(stack) + 1 <= MaxNesting + 1
      BY <2>1, <3>1, BothMore
    <3> QED
      BY <3>1, <3>2, <3>3
  <2> QED
    BY <2>3, <2>4 DEF DepthInv
<1>7. ItemsOk(stack)'
  <2>1. FrameItems(f)
    <3>1. IsList(<<>>)
      BY ListOfNone
    <3>2. Clean(kind, <<>>)
      BY NothingDistinct DEF Clean
    <3> QED
      BY <3>1, <3>2 DEF FrameItems
  <2> QED
    BY <2>1, ItemsPushed
<1> QED
  BY <1>2, <1>4, <1>5, <1>6, <1>7 DEF GrammarInv

(* An array or an object begins. *)
LEMMA ContainerBegun ==
  ASSUME ParseInv, GrammarInv, Open
  PROVE  GrammarInv'
<1>1. /\ mode = "value" /\ Len(stack) <= MaxNesting /\ Ahead \in {"{", "["} /\ Consume
      /\ UNCHANGED short /\ mode' = "first"
  BY DEF Open, AtValue
<1>2. TextInv /\ ItemsOk(stack) /\ ReadInv /\ DueInv /\ DepthInv /\ IsList(stack)
  BY <1>1 DEF GrammarInv, ParseInv, StackOk, IsList
<1>3. PICK kind \in Kinds :
        /\ kind = (IF Ahead = "{" THEN "object" ELSE "array") /\ OpenOf(kind) = Ahead
        /\ \A k \in Kinds : OpenOf(k) = Ahead => k = kind
  BY <1>1, OpenedKind
<1>4. PICK f : f = [value |-> Value(kind, Fresh(2)[1], Fresh(2)[2]), key |-> NoKey]
  OBVIOUS
<1>5. stack' = <<f>> \o stack
  BY <1>3, <1>4 DEF Open
<1>6. f.value.kind = kind /\ f.value.items = <<>> /\ f.key.name = ""
  BY <1>4 DEF Value, NoKey
<1> QED
  BY <1>1, <1>2, <1>3, <1>5, <1>6, Begun

-----------------------------------------------------------------------------
(* The innermost call is in an array or in an object. *)
LEMMA TopKind ==
  ASSUME ParseInv, mode # "undefined", stack # <<>>
  PROVE  /\ Top.value.kind \in Kinds /\ (InObject <=> Top.value.kind = "object")
         /\ (InArray <=> Top.value.kind = "array")
         /\ CloseOf(Top.value.kind) = (IF InObject THEN "}" ELSE "]")
         /\ CloseOf(Top.value.kind) \in Tokens
<1>1. Top.value.kind \in Kinds
  BY Live DEF FrameOk, Kinds
<1> QED
  BY <1>1, BracketsAre DEF InObject, InArray, CloseOf

(* Where an item or the end can come, the token ahead tells which. *)
LEMMA DueClosed ==
  ASSUME NEW f, f.value.kind \in Kinds, IsList(f.value.items), NEW calls, IsList(calls),
         NEW y, DueList(f, calls, y) \/ DueRest(f, calls, y), Fits(y), Ahead = CloseOf(f.value.kind)
  PROVE  DueClose(f, calls, y)
<1>1. Ahead \in {"}", "]"}
  BY DEF CloseOf
<1>2. CASE DueList(f, calls, y)
  <2>1. CASE DueKey(f, calls, y)
    <3>1. PICK s \in Strings, z \in Seq(Tokens) : DueColon(f, calls, s, z) /\ y = <<s>> \o z
      BY <2>1 DEF DueKey
    <3>2. s \in Tokens /\ s \in Literals
      BY TheseAreTokens DEF Literals
    <3>3. s = Ahead
      BY <3>1, <3>2 DEF Fits
    <3> QED
      BY <1>1, <3>2, <3>3, Kinded
  <2>2. CASE DueValue(<<f>> \o calls, y)
    <3>1. Begins(y, Literals \cup Opens)
      BY <2>2, ValueBegins
    <3>2. Ahead \in Literals \cup Opens
      BY <3>1, BeginsHere
    <3> QED
      BY <1>1, <3>2, Kinded DEF Opens
  <2> QED
    BY <1>2, <2>1, <2>2, DueListCases
<1>3. CASE DueRest(f, calls, y)
  <2>1. CASE DueComma(f, calls, y)
    <3>1. "," = Ahead
      BY <2>1, TheseAreTokens DEF Fits, DueComma
    <3> QED
      BY <1>1, <3>1
  <2> QED
    BY <1>3, <2>1, DueRestCases
<1> QED
  BY <1>2, <1>3

(* A closing bracket is due only if it is ahead. *)
LEMMA NotClosing ==
  ASSUME NEW f, f.value.kind \in Kinds, NEW calls, NEW y, DueClose(f, calls, y), Fits(y)
  PROVE  Ahead = CloseOf(f.value.kind)
<1>1. PICK x \in Seq(Tokens) : y = <<CloseOf(f.value.kind)>> \o x
  BY DEF DueClose
<1>2. CloseOf(f.value.kind) \in Tokens
  BY BracketsAre
<1> QED
  BY <1>1, <1>2 DEF Fits

(* A closing bracket is passed over: the container is the value returned. *)
LEMMA Closed ==
  ASSUME ParseInv, GrammarInv, mode \in {"first", "after", "next"}, stack # <<>>,
         Ahead = CloseOf(Top.value.kind), Consume, UNCHANGED short,
         stack' = Tail(stack), mode' = "return",
         ret'.kind = Top.value.kind, ret'.items = Top.value.items
  PROVE  GrammarInv'
<1> DEFINE kind == Top.value.kind
<1>1. kind \in Kinds /\ Ahead \in Tokens /\ Ahead \in {"}", "]"}
  BY TopKind DEF CloseOf
<1>2. TextInv /\ ItemsOk(stack) /\ ReadInv /\ DueInv /\ DepthInv /\ StackOk(stack)
  BY DEF GrammarInv, ParseInv
<1>3. TextInv' /\ Consumed' = Consumed \o <<Ahead>>
  BY <1>1, <1>2, ConsumeStep
<1>4. FrameItems(Top) /\ ItemsOk(Tail(stack)) /\ IsList(Tail(stack))
        /\ stack = <<Top>> \o Tail(stack)
  BY <1>2, ItemsPopped, Popped DEF Top
<1>5. ret' # NULL /\ Meaning(ret') = Meant(kind, Top.value.items)
  <2>1. ret' # NULL
    BY <1>1, NotNull DEF Kinds
  <2> QED
    BY <2>1 DEF Meaning
<1>6. ReadInv'
  <2>1. ReadIn(Top, Tail(stack), Consumed) \/ ReadBehind(Top, Tail(stack), Consumed)
    <3>1. Ahead # Minus
      BY <1>1, Kinded DEF Minus
    <3> QED
      BY <1>2, <3>1 DEF ReadInv
  <2>2. Clean(Top.value.kind, Top.value.items)
    BY <1>4 DEF FrameItems
  <2>3. ReadValue(Tail(stack), Consumed \o <<CloseOf(Top.value.kind)>>,
          Meant(Top.value.kind, Top.value.items))
    BY <1>1, <2>1, <2>2, ReadClosed
  <2>4. ReadValue(stack', Consumed', Meaning(ret'))
    BY <1>3, <1>5, <2>3
  <2> QED
    BY <2>4 DEF ReadInv
<1>7. DueInv'
  <2> SUFFICES ASSUME NEW y \in Seq(Tokens), Due(y), Fits(y)
               PROVE  \E t \in Tokens, z \in Seq(Tokens) : y = <<t>> \o z /\ Due(z)'
    BY <1>1, <1>2, DuePast
  <2>1. DueList(Top, Tail(stack), y) \/ DueRest(Top, Tail(stack), y)
    BY DEF Due
  <2>2. DueClose(Top, Tail(stack), y)
    BY <1>1, <1>4, <2>1, DueClosed DEF FrameItems
  <2>3. PICK x \in Seq(Tokens) : Reach("due", Tail(stack), x) /\ y = <<CloseOf(kind)>> \o x
    BY <2>2 DEF DueClose
  <2>4. Due(x)'
    BY <1>5, <2>3 DEF Due
  <2> QED
    BY <1>1, <2>3, <2>4
<1>8. DepthInv'
  <2>1. /\ Opened(Consumed, Len(Consumed)) = Len(stack) /\ Len(stack) <= MaxNesting + 1
        /\ Shallow(Consumed)
    BY <1>2 DEF DepthInv, Nulled
  <2>2. Len(stack) = Len(Tail(stack)) + 1 /\ Len(Tail(stack)) \in Nat
    BY <1>4, OneMoreCall
  <2>3. Ahead \in Closes /\ Ahead \notin Opens
    BY <1>1 DEF Closes, Opens
  <2>4. Opened(Consumed, Len(Consumed))' = Len(stack) + -1 /\ Shallow(Consumed)'
    <3>1. Len(stack) \in Nat
      BY <2>2
    <3>2. /\ Opened(Consumed, Len(Consumed))' =
                Len(stack) + (IF Ahead \in Opens THEN 1 ELSE IF Ahead \in Closes THEN -1 ELSE 0)
          /\ Shallow(Consumed) /\ (Ahead \in Closes \/ Len(stack) <= MaxNesting) =>
               Shallow(Consumed)'
      BY <1>1, <1>2, <2>1, <3>1, DeeperText
    <3> QED
      BY <2>1, <2>3, <3>2
  <2>5. Len(stack)' = Len(Tail(stack)) /\ MaxNesting \in Nat
    BY BoundsAssumption
  <2>6. Opened(Consumed, Len(Consumed))' = Len(stack)' /\ Len(stack)' <= MaxNesting
          /\ Len(stack)' <= MaxNesting + 1
    BY <2>1, <2>2, <2>4, <2>5
  <2> QED
    BY <2>4, <2>6 DEF DepthInv
<1>9. ItemsOk(stack)'
  BY <1>4
<1> QED
  BY <1>3, <1>6, <1>7, <1>8, <1>9 DEF GrammarInv

(* An array or an object ends. *)
LEMMA ContainerClosed ==
  ASSUME ParseInv, GrammarInv, CloseEmpty \/ CloseObject \/ CloseArray
  PROVE  GrammarInv'
<1>1. /\ mode \in {"first", "after", "next"} /\ Consume /\ UNCHANGED short
      /\ stack' = Tail(stack) /\ mode' = "return"
  BY DEF CloseEmpty, CloseObject, CloseArray, AtEnd, Close, Returns
<1>2. stack # <<>>
  BY <1>1 DEF ParseInv, ModeInv
<1>3. Ahead = CloseOf(Top.value.kind)
  <2>1. Ahead = IF InObject THEN "}" ELSE "]"
    BY DEF CloseEmpty, CloseObject, CloseArray, AtEnd, InObject, InArray
  <2> QED
    BY <1>1, <1>2, <2>1, TopKind
<1>4. ret'.kind = Top.value.kind /\ ret'.items = Top.value.items
  <2>1. CASE CloseEmpty \/ CloseObject
    BY <2>1 DEF CloseEmpty, CloseObject, Returns
  <2>2. CASE CloseArray
    <3>1. IsValue(Top.value)
      BY <1>1, <1>2, Live DEF FrameOk, ValueOk
    <3>2. ret' = [Top.value EXCEPT !.tables = Fresh(2), !.capacity = Len(Top.value.items)]
      BY <2>2 DEF CloseArray, Returns
    <3> QED
      BY <3>1, <3>2 DEF IsValue, Fields
  <2> QED
    BY <2>1, <2>2
<1> QED
  BY <1>1, <1>2, <1>3, <1>4, Closed

-----------------------------------------------------------------------------
(* From where an item or the end can come to the item. *)
LEMMA InsideFacts ==
  ASSUME ParseInv, GrammarInv, mode # "undefined", stack # <<>>
  PROVE  /\ TextInv /\ ItemsOk(stack) /\ ReadInv /\ DueInv /\ DepthInv
         /\ FrameItems(Top) /\ ItemsOk(Tail(stack)) /\ IsList(stack) /\ IsList(Tail(stack))
         /\ stack = <<Top>> \o Tail(stack)
<1>1. TextInv /\ ItemsOk(stack) /\ ReadInv /\ DueInv /\ DepthInv /\ StackOk(stack)
  BY DEF GrammarInv, ParseInv
<1> QED
  BY <1>1, ItemsPopped, Popped DEF Top

(* It is not the end: an item comes. *)
LEMMA ItemAwaited ==
  ASSUME ParseInv, GrammarInv, First \/ NextItem
  PROVE  GrammarInv'
<1>1. /\ mode \in {"first", "next"} /\ Ahead # (IF InObject THEN "}" ELSE "]")
      /\ mode' = (IF InObject THEN "key" ELSE "value")
      /\ UNCHANGED <<text, stack, ret, short>>
  BY DEF First, NextItem
<1>2. stack # <<>>
  BY <1>1 DEF ParseInv, ModeInv
<1>3. /\ TextInv /\ ItemsOk(stack) /\ ReadInv /\ DueInv /\ DepthInv /\ FrameItems(Top)
      /\ IsList(Tail(stack)) /\ stack = <<Top>> \o Tail(stack)
  BY <1>1, <1>2, InsideFacts
<1>4. TextInv' /\ Consumed' = Consumed /\ Ahead' = Ahead /\ Top' = Top /\ ItemsOk(stack)'
  BY <1>1, <1>3 DEF TextInv, Ahead, Consumed, Top
<1>5. Top.value.kind \in Kinds /\ (InObject <=> Top.value.kind = "object")
        /\ Ahead # CloseOf(Top.value.kind)
  BY <1>1, <1>2, TopKind
<1>6. ReadInv'
  <2>1. ReadIn(Top, Tail(stack), Consumed)
    BY <1>1, <1>3 DEF ReadInv
  <2>2. CASE InObject
    BY <1>1, <1>4, <2>1, <2>2 DEF ReadInv
  <2>3. CASE ~InObject
    <3>1. Top.value.kind = "array"
      BY <1>5, <2>3 DEF Kinds
    <3>2. Reach("read", <<Top>> \o Tail(stack), Consumed)
      BY <1>3, <2>1, <3>1, ReadToItem
    <3>3. Reach("read", stack', Consumed')
      BY <1>1, <1>3, <1>4, <3>2
    <3>4. mode' = "value"
      BY <1>1, <2>3
    <3> QED
      BY <3>3, <3>4 DEF ReadInv
  <2> QED
    BY <2>2, <2>3
<1>7. DueInv'
  <2> SUFFICES ASSUME NEW y \in Seq(Tokens), Due(y), Fits(y) PROVE Due(y)'
    BY <1>1, <1>3, DueNow
  <2>1. DueList(Top, Tail(stack), y)
    BY <1>1 DEF Due
  <2>2. ~DueClose(Top, Tail(stack), y)
    BY <1>5, NotClosing
  <2>3. \/ Top.value.kind = "object" /\ DueKey(Top, Tail(stack), y)
        \/ Top.value.kind = "array" /\ DueValue(<<Top>> \o Tail(stack), y)
    BY <1>3, <1>5, <2>1, <2>2, DueListCases DEF FrameItems
  <2>4. CASE Top.value.kind = "object" /\ DueKey(Top, Tail(stack), y)
    <3>1. DueKey(Top', Tail(stack'), y) /\ mode' = "key"
      BY <1>1, <1>4, <1>5, <2>4
    <3> QED
      BY <3>1 DEF Due
  <2>5. CASE Top.value.kind = "array" /\ DueValue(<<Top>> \o Tail(stack), y)
    <3>1. DueValue(stack', y) /\ mode' = "value"
      BY <1>1, <1>3, <1>5, <2>5
    <3> QED
      BY <3>1 DEF Due
  <2> QED
    BY <2>3, <2>4, <2>5
<1>8. DepthInv'
  <2>1. Len(stack)' = Len(stack) /\ mode' \in {"key", "value"}
    BY <1>1
  <2> QED
    BY <1>1, <1>3, <1>4, <2>1 DEF DepthInv, Nulled
<1> QED
  BY <1>4, <1>6, <1>7, <1>8 DEF GrammarInv

-----------------------------------------------------------------------------
(* A name, a colon or a comma is passed over. *)
LEMMA TokenDepth ==
  ASSUME TextInv, DepthInv, Consume, Ahead \in Tokens, Ahead \notin Opens \cup Closes,
         IsList(stack), Len(stack') = Len(stack), mode \in {"key", "colon", "after"},
         \/ mode' \in {"colon", "value"}
         \/ mode = "after" /\ mode' = "next"
  PROVE  DepthInv'
<1>1. /\ Opened(Consumed, Len(Consumed)) = Len(stack) /\ Len(stack) <= MaxNesting + 1
      /\ Len(stack) <= MaxNesting => Shallow(Consumed)
      /\ mode = "after" => Len(stack) <= MaxNesting
  BY DEF DepthInv, Nulled
<1>2. Len(stack) \in Nat
  BY LenProperties DEF IsList
<1>3. /\ Opened(Consumed, Len(Consumed))' =
            Len(stack) + (IF Ahead \in Opens THEN 1 ELSE IF Ahead \in Closes THEN -1 ELSE 0)
      /\ Shallow(Consumed) /\ (Ahead \in Closes \/ Len(stack) <= MaxNesting) => Shallow(Consumed)'
  BY <1>1, <1>2, DeeperText
<1>4. Opened(Consumed, Len(Consumed))' = Len(stack)
  BY <1>2, <1>3
<1>5. Len(stack)' = Len(stack)
  OBVIOUS
<1> QED
  BY <1>1, <1>3, <1>4, <1>5 DEF DepthInv

(* A name is passed over. *)
LEMMA NameRead ==
  ASSUME ParseInv, GrammarInv, Key
  PROVE  GrammarInv'
<1>1. mode = "key" /\ Ahead \in Strings /\ Consume /\ mode' = "colon" /\ UNCHANGED <<ret, short>>
  BY DEF Key
<1>2. stack # <<>> /\ InObject
  BY <1>1 DEF ParseInv, ModeInv
<1>3. /\ TextInv /\ ItemsOk(stack) /\ ReadInv /\ DueInv /\ DepthInv /\ FrameItems(Top)
           /\ IsList(stack)
      /\ IsList(Tail(stack)) /\ ItemsOk(Tail(stack)) /\ stack = <<Top>> \o Tail(stack)
  BY <1>1, <1>2, InsideFacts
<1>4. PICK f : /\ stack' = <<f>> \o Tail(stack) /\ f.value = Top.value /\ f.key.name = Ahead
  <2>1. Top = [value |-> Top.value, key |-> Top.key]
    BY <1>1, <1>2, Live DEF FrameOk
  <2> DEFINE f == [Top EXCEPT !.key = [name |-> Ahead, id |-> Fresh(2)[2]]]
  <2>2. stack' = <<f>> \o Tail(stack)
    BY DEF Key, SetTop
  <2>3. f.value = Top.value /\ f.key.name = Ahead
    BY <2>1
  <2> HIDE DEF f
  <2> QED
    BY <2>2, <2>3
<1>5. Ahead \in Tokens /\ Ahead \in Literals
  BY <1>1, TheseAreTokens DEF Literals
<1>6. TextInv' /\ Consumed' = Consumed \o <<Ahead>>
  BY <1>1, <1>3, <1>5, ConsumeStep
<1>7. Top' = f /\ Tail(stack') = Tail(stack) /\ Len(stack') = Len(stack)
  BY <1>3, <1>4, OneMoreCall DEF Top
<1>8. ReadInv'
  <2>1. ReadIn(Top, Tail(stack), Consumed) /\ Consumed \in Seq(Tokens)
    BY <1>1, <1>3 DEF ReadInv, TextInv
  <2>2. ReadIn(f, Tail(stack), Consumed)
    BY <1>4, <2>1 DEF ReadIn
  <2>3. ReadName(f, Tail(stack), Consumed \o <<Ahead>>)
    BY <1>1, <1>4, <2>1, <2>2 DEF ReadName
  <2>4. ReadName(Top', Tail(stack'), Consumed')
    BY <1>6, <1>7, <2>3
  <2> QED
    BY <1>1, <2>4 DEF ReadInv
<1>9. DueInv'
  <2> SUFFICES ASSUME NEW y \in Seq(Tokens), Due(y), Fits(y)
               PROVE  \E t \in Tokens, z \in Seq(Tokens) : y = <<t>> \o z /\ Due(z)'
    BY <1>1, <1>3, <1>5, DuePast
  <2>1. DueKey(Top, Tail(stack), y)
    BY <1>1 DEF Due
  <2>2. PICK s \in Strings, z \in Seq(Tokens) : DueColon(Top, Tail(stack), s, z) /\ y = <<s>> \o z
    BY <2>1 DEF DueKey
  <2>3. s \in Tokens
    BY TheseAreTokens
  <2>4. s = Ahead
    BY <2>2, <2>3 DEF Fits
  <2>5. DueColon(f, Tail(stack), Ahead, z)
    BY <1>4, <2>2, <2>4 DEF DueColon
  <2>6. DueColon(Top', Tail(stack'), Top'.key.name, z)
    BY <1>4, <1>7, <2>5
  <2>7. Due(z)'
    BY <1>1, <2>6 DEF Due
  <2> QED
    BY <2>2, <2>3, <2>7
<1>10. DepthInv'
  <2>1. Ahead \notin Opens \cup Closes
    BY <1>5, Kinded DEF Opens, Closes
  <2> QED
    BY <1>1, <1>3, <1>5, <1>7, <2>1, TokenDepth
<1>11. ItemsOk(stack)'
  <2>1. FrameItems(f)
    BY <1>2, <1>3, <1>4 DEF FrameItems, InObject
  <2> QED
    BY <1>3, <1>4, <2>1, ItemsPushed
<1> QED
  BY <1>6, <1>8, <1>9, <1>10, <1>11 DEF GrammarInv

(* A colon is passed over. *)
LEMMA ColonRead ==
  ASSUME ParseInv, GrammarInv, Colon
  PROVE  GrammarInv'
<1>1. mode = "colon" /\ Ahead = ":" /\ Consume /\ mode' = "value" /\ UNCHANGED <<stack, ret, short>>
  BY DEF Colon
<1>2. stack # <<>> /\ InObject
  BY <1>1 DEF ParseInv, ModeInv
<1>3. /\ TextInv /\ ItemsOk(stack) /\ ReadInv /\ DueInv /\ DepthInv /\ FrameItems(Top)
           /\ IsList(stack)
      /\ IsList(Tail(stack)) /\ stack = <<Top>> \o Tail(stack)
  BY <1>1, <1>2, InsideFacts
<1>4. Ahead \in Tokens /\ Top.value.kind = "object"
  BY <1>1, <1>2, TheseAreTokens DEF InObject
<1>5. TextInv' /\ Consumed' = Consumed \o <<Ahead>>
  BY <1>1, <1>3, <1>4, ConsumeStep
<1>6. ReadInv'
  <2>1. ReadName(Top, Tail(stack), Consumed)
    BY <1>1, <1>3 DEF ReadInv
  <2>2. Reach("read", <<Top>> \o Tail(stack), Consumed \o <<":">>)
    BY <1>3, <1>4, <2>1, ReadToMember
  <2>3. Reach("read", stack', Consumed')
    BY <1>1, <1>3, <1>5, <2>2
  <2> QED
    BY <1>1, <2>3 DEF ReadInv
<1>7. DueInv'
  <2> SUFFICES ASSUME NEW y \in Seq(Tokens), Due(y), Fits(y)
               PROVE  \E t \in Tokens, z \in Seq(Tokens) : y = <<t>> \o z /\ Due(z)'
    BY <1>1, <1>3, <1>4, DuePast
  <2>1. DueColon(Top, Tail(stack), Top.key.name, y)
    BY <1>1 DEF Due
  <2>2. DueMember(<<Top>> \o Tail(stack), y)
    BY <1>2, <1>3, <1>4, <2>1, DueColonThen DEF Kinds
  <2>3. PICK z \in Seq(Tokens) : DueValue(stack, z) /\ y = <<":">> \o z
    BY <1>3, <2>2 DEF DueMember
  <2>4. Due(z)'
    BY <1>1, <2>3 DEF Due
  <2> QED
    BY <1>1, <1>4, <2>3, <2>4
<1>8. DepthInv'
  <2>1. Ahead \notin Opens \cup Closes
    BY <1>1 DEF Opens, Closes
  <2> QED
    BY <1>1, <1>3, <1>4, <2>1, TokenDepth
<1>9. ItemsOk(stack)'
  BY <1>1, <1>3
<1> QED
  BY <1>5, <1>6, <1>7, <1>8, <1>9 DEF GrammarInv

(* A comma is passed over. *)
LEMMA CommaRead ==
  ASSUME ParseInv, GrammarInv, Comma
  PROVE  GrammarInv'
<1>1. mode = "after" /\ Ahead = "," /\ Consume /\ mode' = "next" /\ UNCHANGED <<stack, ret, short>>
  BY DEF Comma
<1>2. stack # <<>>
  BY <1>1 DEF ParseInv, ModeInv
<1>3. /\ TextInv /\ ItemsOk(stack) /\ ReadInv /\ DueInv /\ DepthInv /\ FrameItems(Top)
           /\ IsList(stack)
      /\ IsList(Tail(stack)) /\ stack = <<Top>> \o Tail(stack)
  BY <1>1, <1>2, InsideFacts
<1>4. Ahead \in Tokens /\ Top.value.kind \in Kinds
  BY <1>1, <1>2, TheseAreTokens, TopKind
<1>5. TextInv' /\ Consumed' = Consumed \o <<Ahead>> /\ Top' = Top
  BY <1>1, <1>3, <1>4, ConsumeStep DEF Top
<1>6. ReadInv'
  <2>1. ReadBehind(Top, Tail(stack), Consumed)
    BY <1>1, <1>3 DEF ReadInv, Minus
  <2>2. ReadIn(Top, Tail(stack), Consumed \o <<",">>)
    BY <1>4, <2>1, ReadComma
  <2>3. ReadIn(Top', Tail(stack'), Consumed')
    BY <1>1, <1>5, <2>2
  <2> QED
    BY <1>1, <2>3 DEF ReadInv
<1>7. DueInv'
  <2> SUFFICES ASSUME NEW y \in Seq(Tokens), Due(y), Fits(y)
               PROVE  \E t \in Tokens, z \in Seq(Tokens) : y = <<t>> \o z /\ Due(z)'
    BY <1>1, <1>3, <1>4, DuePast
  <2>1. DueRest(Top, Tail(stack), y)
    BY <1>1 DEF Due
  <2>2. ~DueClose(Top, Tail(stack), y)
    <3>1. CloseOf(Top.value.kind) # ","
      BY DEF CloseOf
    <3> QED
      BY <1>1, <1>4, <3>1, NotClosing
  <2>3. PICK z \in Seq(Tokens) : DueList(Top, Tail(stack), z) /\ y = <<",">> \o z
    <3>1. DueComma(Top, Tail(stack), y)
      BY <1>4, <2>1, <2>2, DueRestCases
    <3> QED
      BY <3>1 DEF DueComma
  <2>4. DueList(Top', Tail(stack'), z)
    BY <1>1, <1>5, <2>3
  <2>5. Due(z)'
    BY <1>1, <2>4 DEF Due
  <2> QED
    BY <1>1, <1>4, <2>3, <2>5
<1>8. DepthInv'
  <2>1. Ahead \notin Opens \cup Closes
    BY <1>1 DEF Opens, Closes
  <2> QED
    BY <1>1, <1>3, <1>4, <2>1, TokenDepth
<1>9. ItemsOk(stack)'
  BY <1>1, <1>3
<1> QED
  BY <1>5, <1>6, <1>7, <1>8, <1>9 DEF GrammarInv

-----------------------------------------------------------------------------
(* A value becomes an item. *)
LEMMA StillDistinct ==
  ASSUME NEW items, IsList(items), Distinct(items), NEW n, NEW m,
         \A i \in DOMAIN items : items[i].name # n
  PROVE  Distinct(Append(items, Item(n, m)))
<1> DEFINE last == Item(n, m)
           more == Append(items, last)
<1>1. IsList(<<last>>) /\ Len(<<last>>) = 1 /\ last.name = n /\ <<last>>[1] = last
  BY ListOfOne DEF Item
<1>2. more = items \o <<last>>
  BY AppendedList
<1> HIDE DEF last
<1>3. /\ IsList(items \o <<last>>) /\ Len(items \o <<last>>) = Len(items) + 1 /\ Len(items) \in Nat
      /\ \A i \in 1..(Len(items) + 1) :
           (items \o <<last>>)[i] = IF i <= Len(items) THEN items[i] ELSE <<last>>[i - Len(items)]
  BY <1>1, ListsJoined
<1> HIDE DEF more
<1>4. DOMAIN more = 1..(Len(items) + 1) /\ DOMAIN items = 1..Len(items)
  <2>1. DOMAIN more = 1..Len(more)
    BY <1>2, <1>3, LenProperties DEF IsList
  <2>2. DOMAIN items = 1..Len(items)
    BY LenProperties DEF IsList
  <2> QED
    BY <1>2, <1>3, <2>1, <2>2
<1>5. \A i \in DOMAIN items : more[i] = items[i]
  BY <1>2, <1>3, <1>4
<1>6. more[Len(items) + 1] = last
  <2>1. PICK k \in Nat : k = Len(items)
    BY <1>3
  <2>2. k + 1 \in 1..(k + 1) /\ ~(k + 1 <= k) /\ (k + 1) - k = 1
    OBVIOUS
  <2> QED
    BY <1>1, <1>2, <1>3, <2>1, <2>2
<1>7. \A i \in DOMAIN more : i \in DOMAIN items \/ i = Len(items) + 1
  BY <1>3, <1>4
<1> SUFFICES ASSUME NEW i \in DOMAIN more, NEW j \in DOMAIN more,
      more[i].name = more[j].name PROVE i = j
  BY DEF Distinct, more, last
<1>8. CASE i \in DOMAIN items /\ j \in DOMAIN items
  BY <1>5, <1>8 DEF Distinct
<1>9. CASE i \in DOMAIN items /\ j = Len(items) + 1
  BY <1>1, <1>5, <1>6, <1>9
<1>10. CASE j \in DOMAIN items /\ i = Len(items) + 1
  BY <1>1, <1>5, <1>6, <1>10
<1> QED
  BY <1>7, <1>8, <1>9, <1>10

(* The value returned becomes an item. *)
LEMMA Added ==
  ASSUME ParseInv, GrammarInv, mode = "return", ret # NULL, stack # <<>>,
         NEW n, InObject => n = Top.key.name, InArray => n = "", InObject => ~Holds(Top.value, n),
         NEW id, NEW tables, NEW capacity, Add(Top.value, n, id, tables, capacity)
  PROVE  GrammarInv'
<1>1. UNCHANGED <<text, ret, short>> /\ mode' = "after"
  BY DEF Add
<1>2. /\ TextInv /\ ItemsOk(stack) /\ ReadInv /\ DueInv /\ DepthInv /\ FrameItems(Top)
           /\ IsList(stack)
      /\ IsList(Tail(stack)) /\ ItemsOk(Tail(stack)) /\ stack = <<Top>> \o Tail(stack)
  BY InsideFacts
<1>3. Top.value.kind \in Kinds /\ (InObject <=> Top.value.kind = "object")
        /\ (InArray <=> Top.value.kind = "array")
  BY TopKind
<1>4. PICK g : /\ stack' = <<g>> \o Tail(stack) /\ g.key.name = "" /\ g.value.kind = Top.value.kind
               /\ g.value.items = Append(Top.value.items, Item(n, Meaning(ret)))
  <2>1. IsValue(Top.value)
    BY Live DEF FrameOk, ValueOk
  <2>2. PICK w : w = Extended(Top.value, n, id, ret, tables, capacity)
    OBVIOUS
  <2>3. w.kind = Top.value.kind /\ w.items = Append(Top.value.items, Item(n, Meaning(ret)))
    <3>1. PICK more : more = Append(Top.value.items, Item(n, Meaning(ret)))
      OBVIOUS
    <3>2. PICK below : below = Top.value.below \o Block(id) \o Owned(ret)
      OBVIOUS
    <3>3. PICK bare : bare = (Top.value.bare \/ HasNeverGrown(ret))
      OBVIOUS
    <3>4. w = [Top.value EXCEPT !.items = more, !.below = below, !.bare = bare,
                                !.tables = tables, !.capacity = capacity]
      BY <2>2, <3>1, <3>2, <3>3 DEF Extended
    <3>5. w.kind = Top.value.kind /\ w.items = more
      BY <2>1, <3>4 DEF IsValue, Fields
    <3> QED
      BY <3>1, <3>5
  <2>4. PICK f : f = [value |-> w, key |-> NoKey]
    OBVIOUS
  <2>5. f.value = w /\ f.key.name = ""
    BY <2>4 DEF NoKey
  <2>6. stack' = <<f>> \o Tail(stack)
    BY <2>2, <2>4 DEF Add, SetTop
  <2> QED
    BY <2>3, <2>5, <2>6
<1>5. n = Top.key.name
  BY <1>2, <1>3 DEF FrameItems, Kinds
<1>6. TextInv' /\ Consumed' = Consumed /\ Ahead' = Ahead
  BY <1>1, <1>2 DEF TextInv, Ahead, Consumed
<1>7. Top' = g /\ Tail(stack') = Tail(stack) /\ Len(stack') = Len(stack)
  BY <1>2, <1>4, OneMoreCall DEF Top
<1>8. ReadInv'
  <2>1. CASE ReadValue(stack, Consumed, Meaning(ret))
    <3>1. Top = Head(stack)
      BY DEF Top
    <3>2. ReadBehind(g, Tail(stack), Consumed)
      <4>1. g.value.items = Append(Head(stack).value.items, Item(n, Meaning(ret)))
              /\ g.value.kind = Top.value.kind
        BY <1>4, <3>1
      <4>2. n = Head(stack).key.name /\ Top.value.kind = Head(stack).value.kind
        BY <1>5, <3>1
      <4>3. Top.value.kind = "array" => n = ""
        BY <1>2, <1>5 DEF FrameItems
      <4> QED
        BY <1>2, <1>3, <2>1, <4>1, <4>2, <4>3, ReadAdded
    <3>3. ReadBehind(Top', Tail(stack'), Consumed')
      BY <1>6, <1>7, <3>2
    <3> QED
      BY <1>1, <3>3 DEF ReadInv
  <2>2. CASE Sign
    <3>1. Ahead' = Minus
      BY <1>6, <2>2 DEF Sign
    <3> QED
      BY <1>1, <3>1 DEF ReadInv
  <2> QED
    BY <1>2, <2>1, <2>2 DEF ReadInv
<1>9. DueInv'
  <2> SUFFICES ASSUME NEW y \in Seq(Tokens), Due(y), Fits(y) PROVE Due(y)'
    BY <1>1, <1>2, DueNow
  <2>1. Reach("due", stack, y) /\ Top = Head(stack)
    BY DEF Due, Top
  <2>2. \A h, m : /\ h.value.kind = Head(stack).value.kind
                  /\ h.value.items = Append(Head(stack).value.items, Item(Head(stack).key.name, m))
                  => DueRest(h, Tail(stack), y)
    BY <1>2, <1>3, <2>1, DueAdded DEF FrameItems
  <2>3. DueRest(g, Tail(stack), y)
    BY <1>4, <1>5, <2>1, <2>2
  <2>4. DueRest(Top', Tail(stack'), y)
    BY <1>7, <2>3
  <2> QED
    BY <1>1, <2>4 DEF Due
<1>10. DepthInv'
  <2>1. /\ Opened(Consumed, Len(Consumed)) = Len(stack) /\ Len(stack) <= MaxNesting + 1
        /\ Shallow(Consumed) /\ Len(stack) <= MaxNesting
    BY <1>2 DEF DepthInv, Nulled
  <2> QED
    BY <1>6, <1>7, <2>1 DEF DepthInv
<1>11. ItemsOk(stack)'
  <2>1. IsList(g.value.items)
    BY <1>2, <1>4, AppendedList DEF FrameItems
  <2>2. Clean(g.value.kind, g.value.items)
    <3> SUFFICES ASSUME Top.value.kind = "object" PROVE Distinct(g.value.items)
      BY <1>4 DEF Clean
    <3>1. Distinct(Top.value.items) /\ IsList(Top.value.items)
      BY <1>2 DEF FrameItems, Clean
    <3>2. \A i \in DOMAIN Top.value.items : Top.value.items[i].name # n
      BY <1>3 DEF Holds
    <3> QED
      BY <1>4, <3>1, <3>2, StillDistinct
  <2>3. FrameItems(g)
    BY <1>4, <2>1, <2>2 DEF FrameItems
  <2> QED
    BY <1>2, <1>4, <2>3, ItemsPushed
<1> QED
  BY <1>6, <1>8, <1>9, <1>10, <1>11 DEF GrammarInv

(* json_object_add and json_array_add succeed. *)
LEMMA ItemsRead ==
  ASSUME ParseInv, GrammarInv, ObjectAdd \/ ObjectAddGrows \/ ArrayAdd \/ ArrayAddGrows
  PROVE  GrammarInv'
<1>1. CASE ObjectAdd \/ ObjectAddGrows
  <2>1. /\ mode = "return" /\ ret # NULL /\ stack # <<>> /\ InObject
             /\ ~Holds(Top.value, Top.key.name)
        /\ \E tables, capacity : Add(Top.value, Top.key.name, Top.key.id, tables, capacity)
    BY <1>1 DEF ObjectAdd, ObjectAddGrows, Returned, InObject
  <2>2. PICK tables, capacity : Add(Top.value, Top.key.name, Top.key.id, tables, capacity)
    BY <2>1
  <2>3. ~InArray
    BY <2>1 DEF InObject, InArray
  <2> QED
    BY <2>1, <2>2, <2>3, Added
<1>2. CASE ArrayAdd \/ ArrayAddGrows
  <2>1. mode = "return" /\ ret # NULL /\ stack # <<>> /\ InArray /\ ~InObject
    BY <1>2 DEF ArrayAdd, ArrayAddGrows, Returned, InArray, InObject
  <2>2. CASE Strays
    BY <2>2 DEF Strays, GrammarInv
  <2>3. CASE \E tables, capacity : Add(Top.value, "", 0, tables, capacity)
    BY <2>1, <2>3, Added
  <2> QED
    BY <1>2, <2>2, <2>3 DEF ArrayAdd, ArrayAddGrows
<1> QED
  BY <1>1, <1>2

-----------------------------------------------------------------------------
(* The error paths: with a token that nothing awaits ahead, there is no    *)
(* sentence that the text begins with, or that begins with the text.       *)
LEMMA UnexpectedToken ==
  ASSUME ParseInv, GrammarInv, ~short, mode # "undefined", stack # <<>>,
         \/ mode = "key" /\ Ahead \notin Strings
         \/ mode = "colon" /\ Ahead # ":"
         \/ mode = "after" /\ Ahead # "," /\ Ahead # CloseOf(Top.value.kind)
         \/ mode = "return" /\ ret = NULL
         \/ mode = "return" /\ InObject /\ Holds(Top.value, Top.key.name)
  PROVE  NoSentence
<1>1. /\ TextInv /\ DueInv /\ FrameItems(Top) /\ IsList(stack) /\ IsList(Tail(stack))
      /\ stack = <<Top>> \o Tail(stack)
  BY InsideFacts
<1>2. Top.value.kind \in Kinds /\ (InObject <=> Top.value.kind = "object")
  BY TopKind
<1> SUFFICES ASSUME NEW y \in Seq(Tokens), Due(y), Fits(y) PROVE FALSE
  BY <1>1, NoneDue
<1>3. CASE mode = "key" /\ Ahead \notin Strings
  <2>1. DueKey(Top, Tail(stack), y)
    BY <1>3 DEF Due
  <2>2. PICK s \in Strings, z \in Seq(Tokens) : y = <<s>> \o z
    BY <2>1 DEF DueKey
  <2>3. s \in Tokens
    BY TheseAreTokens
  <2> QED
    BY <1>3, <2>2, <2>3 DEF Fits
<1>4. CASE mode = "colon" /\ Ahead # ":"
  <2>1. DueColon(Top, Tail(stack), Top.key.name, y) /\ ":" \in Tokens
    BY <1>4, TheseAreTokens DEF Due
  <2>2. PICK v \in Values, z \in Seq(Tokens) : y = <<":">> \o (v.text \o z)
    BY <2>1 DEF DueColon
  <2>3. PICK u \in Seq(Tokens) : u = v.text \o z
    BY ValueText, TextsJoined DEF IsPhrase
  <2> QED
    BY <1>4, <2>1, <2>2, <2>3 DEF Fits
<1>5. CASE mode = "after" /\ Ahead # "," /\ Ahead # CloseOf(Top.value.kind)
  <2>1. DueRest(Top, Tail(stack), y)
    BY <1>5 DEF Due
  <2>2. ~DueClose(Top, Tail(stack), y)
    BY <1>2, <1>5, NotClosing
  <2>3. DueComma(Top, Tail(stack), y)
    BY <1>2, <2>1, <2>2, DueRestCases
  <2> QED
    BY <1>5, <2>3, TheseAreTokens DEF DueComma, Fits
<1>6. CASE mode = "return" /\ ret = NULL
  BY <1>6 DEF Due
<1>7. CASE mode = "return" /\ InObject /\ Holds(Top.value, Top.key.name)
  <2>1. Reach("due", stack, y) /\ Top = Head(stack)
    BY <1>7 DEF Due, Top
  <2>2. Head(stack).value.kind = "object" => ~Holds(Head(stack).value, Head(stack).key.name)
    BY <1>1, <1>2, <2>1, DueAdded DEF FrameItems
  <2> QED
    BY <1>2, <1>7, <2>1, <2>2
<1> QED
  BY <1>3, <1>4, <1>5, <1>6, <1>7

(* A call gives up for want of memory, or where no sentence fits. *)
LEMMA GivenUp ==
  ASSUME ParseInv, GrammarInv, mode # "undefined", stack # <<>>,
         \/ Strays
         \/ \E new, ids : GivesUp(new, ids),
         short' \/ NoSentence
  PROVE  GrammarInv'
<1>1. CASE mode' = "undefined"
  BY <1>1 DEF GrammarInv
<1>2. CASE stack' = Tail(stack) /\ mode' = "return" /\ ret' = NULL /\ UNCHANGED text
  <2>1. TextInv /\ ItemsOk(Tail(stack))
    BY InsideFacts
  <2> QED
    BY <1>2, <2>1, FailStep
<1> QED
  BY <1>1, <1>2 DEF Strays, GivesUp, Returns

(* Every error path is taken for one of these reasons. *)
LEMMA ErrorPaths ==
  ASSUME ParseInv, GrammarInv,
         \/ NoKeyThere \/ KeyWithNul \/ KeyFails \/ NoColon \/ ObjectAddFails \/ ObjectGivesUp
         \/ ArrayAddFails \/ ArrayGivesUp \/ TrimFails \/ NotClosed
  PROVE  GrammarInv'
<1>1. mode # "undefined" /\ stack # <<>>
  <2>1. CASE NoKeyThere \/ KeyWithNul \/ KeyFails \/ NoColon \/ NotClosed
    BY <2>1 DEF NoKeyThere, KeyWithNul, KeyFails, NoColon, NotClosed, ParseInv, ModeInv
  <2>2. CASE ObjectAddFails \/ ObjectGivesUp \/ ArrayAddFails \/ ArrayGivesUp \/ TrimFails
    BY <2>2 DEF ObjectAddFails, ObjectGivesUp, ArrayAddFails, ArrayGivesUp, TrimFails, AtEnd,
                Returned, InObject, InArray
  <2> QED
    BY <2>1, <2>2
<1>2. Strays \/ \E new, ids : GivesUp(new, ids)
  BY DEF NoKeyThere, KeyWithNul, KeyFails, NoColon, ObjectAddFails, ObjectGivesUp,
         ArrayAddFails, ArrayGivesUp, TrimFails, NotClosed
<1>3. short' \/ NoSentence
  <2>1. CASE KeyFails \/ ArrayAddFails \/ TrimFails
    BY <2>1 DEF KeyFails, ArrayAddFails, TrimFails
  <2>2. CASE short
    BY <2>2 DEF NoKeyThere, KeyWithNul, KeyFails, NoColon, ObjectAddFails, ObjectGivesUp,
                ArrayAddFails, ArrayGivesUp, TrimFails, NotClosed
  <2>3. CASE ~short /\ (NoKeyThere \/ KeyWithNul)
    <3>1. mode = "key" /\ Ahead \notin Strings
      BY <2>3, TokensAssumption DEF NoKeyThere, KeyWithNul
    <3> QED
      BY <1>1, <2>3, <3>1, UnexpectedToken
  <2>4. CASE ~short /\ NoColon
    BY <1>1, <2>4, UnexpectedToken DEF NoColon
  <2>5. CASE ~short /\ (ObjectGivesUp \/ ArrayGivesUp)
    BY <1>1, <2>5, UnexpectedToken DEF ObjectGivesUp, ArrayGivesUp
  <2>6. CASE ~short /\ NotClosed
    <3>1. mode = "after" /\ Ahead # "," /\ Ahead # CloseOf(Top.value.kind)
      BY <1>1, <2>6, TopKind DEF NotClosed
    <3> QED
      BY <1>1, <2>6, <3>1, UnexpectedToken
  <2>7. CASE ~short /\ ObjectAddFails
    <3>1. CASE short'
      BY <3>1
    <3>2. CASE Holds(Top.value, Top.key.name)
      <4>1. mode = "return" /\ InObject
        BY <2>7 DEF ObjectAddFails, Returned
      <4> QED
        BY <1>1, <2>7, <3>2, <4>1, UnexpectedToken
    <3> QED
      BY <2>7, <3>1, <3>2 DEF ObjectAddFails
  <2> QED
    BY <2>1, <2>2, <2>3, <2>4, <2>5, <2>6, <2>7
<1> QED
  BY <1>1, <1>2, <1>3, GivenUp

-----------------------------------------------------------------------------
(* The end of the parse. *)
LEMMA Finished ==
  ASSUME ParseInv, GrammarInv, Finish
  PROVE  GrammarInv'
<1>1. /\ mode = "return" /\ stack = <<>> /\ UNCHANGED <<text, stack, ret, short>>
      /\ mode' = (IF ret = NULL THEN "failed" ELSE "parsed")
  BY DEF Finish
<1>2. TextInv /\ ItemsOk(stack) /\ ReadInv /\ DueInv /\ DepthInv
  BY <1>1 DEF GrammarInv
<1>3. TextInv' /\ Consumed' = Consumed /\ Ahead' = Ahead
  BY <1>1, <1>2 DEF TextInv, Ahead, Consumed
<1>4. ReadInv'
  <2>1. CASE ret = NULL
    <3>1. mode' = "failed"
      BY <1>1, <2>1
    <3> QED
      BY <3>1 DEF ReadInv
  <2>2. CASE ret # NULL
    <3>1. Phrase(Consumed, Meaning(ret)) \in Values \/ text = <<Minus>>
      <4>1. CASE ReadValue(stack, Consumed, Meaning(ret))
        <5>1. PICK x \in Seq(Tokens), w \in Seq(Tokens) :
                Reach("read", <<>>, x) /\ Phrase(w, Meaning(ret)) \in Values /\ Consumed = x \o w
          BY <1>1, <4>1 DEF ReadValue
        <5>2. x = <<>>
          BY <5>1, ReachNone
        <5>3. Consumed = w
          BY <5>1, <5>2, NoText
        <5> QED
          BY <5>1, <5>3
      <4>2. CASE Sign
        <5>1. Consumed = <<>> /\ Ahead = Minus
          BY <1>1, <4>2 DEF Sign
        <5>2. text = Consumed \o <<Ahead>>
          BY <1>2, TextSplit
        <5>3. <<Minus>> \in Seq(Tokens)
          <6>1. Minus \in Tokens
            BY DEF Tokens
          <6> QED
            BY <6>1, TokenText
        <5> QED
          BY <5>1, <5>2, <5>3, NoText
      <4> QED
        BY <1>1, <1>2, <2>2, <4>1, <4>2 DEF ReadInv
    <3>2. mode' = "parsed"
      BY <1>1, <2>2
    <3>3. Phrase(Consumed', Meaning(ret')) \in Values \/ text' = <<Minus>>
      BY <1>1, <1>3, <3>1
    <3> QED
      BY <3>2, <3>3 DEF ReadInv
  <2> QED
    BY <2>1, <2>2
<1>5. DueInv'
  <2> SUFFICES ASSUME NEW y \in Seq(Tokens), Due(y), Fits(y) PROVE Due(y)'
    BY <1>1, <1>2, DueNow
  <2>1. ret # NULL
    BY <1>1 DEF Due
  <2>2. mode' = "parsed"
    BY <1>1, <2>1
  <2> QED
    BY <2>2 DEF Due
<1>6. DepthInv'
  <2>1. CASE ret = NULL
    BY <1>1, <2>1 DEF DepthInv
  <2>2. CASE ret # NULL
    <3>1. /\ Opened(Consumed, Len(Consumed)) = Len(stack) /\ Len(stack) <= MaxNesting + 1
          /\ Shallow(Consumed) /\ Len(stack) <= MaxNesting
      BY <1>1, <1>2, <2>2 DEF DepthInv, Nulled
    <3>2. Len(stack') = Len(stack) /\ mode' = "parsed"
      BY <1>1, <2>2
    <3> QED
      BY <1>3, <3>1, <3>2 DEF DepthInv
  <2> QED
    BY <2>1, <2>2
<1>7. ItemsOk(stack)'
  BY <1>1, <1>2
<1> QED
  BY <1>3, <1>4, <1>5, <1>6, <1>7 DEF GrammarInv

(* The value is freed. *)
LEMMA RootFreed ==
  ASSUME ParseInv, GrammarInv, FreeRoot
  PROVE  GrammarInv'
<1>1. CASE Strays
  BY <1>1 DEF Strays, GrammarInv
<1>2. CASE mode = "parsed" /\ mode' = "freed" /\ UNCHANGED <<text, stack, ret, short>>
  <2>1. TextInv /\ ItemsOk(stack) /\ ReadInv /\ DueInv /\ DepthInv
    BY <1>2 DEF GrammarInv
  <2>2. TextInv' /\ Consumed' = Consumed
    BY <1>2, <2>1 DEF TextInv, Ahead, Consumed
  <2>3. ReadInv'
    BY <1>2 DEF ReadInv
  <2>4. DueInv'
    <3> SUFFICES ASSUME NEW y \in Seq(Tokens), Due(y), Fits(y) PROVE Due(y)'
      BY <1>2, <2>1, DueNow
    <3> QED
      BY <1>2 DEF Due
  <2>5. DepthInv'
    BY <1>2, <2>1, <2>2 DEF DepthInv, Nulled
  <2>6. ItemsOk(stack)'
    BY <1>2, <2>1
  <2> QED
    BY <2>2, <2>3, <2>4, <2>5, <2>6 DEF GrammarInv
<1> QED
  BY <1>1, <1>2 DEF FreeRoot

-----------------------------------------------------------------------------
(* The invariant holds at first. *)
LEMMA InitGrammar == Init => GrammarInv
<1> SUFFICES ASSUME Init PROVE GrammarInv
  OBVIOUS
<1>1. stack = <<>> /\ mode = "value" /\ ret = NULL
  BY DEF Init
<1>2. TextInv /\ Consumed = <<>>
  BY InitText
<1>3. ItemsOk(stack)
  BY <1>1, NoItems
<1>4. ReadInv
  <2>1. Reach("read", stack, Consumed)
    BY <1>1, <1>2, ReachNone
  <2> QED
    BY <1>1, <2>1 DEF ReadInv
<1>5. DueInv
  <2> SUFFICES ASSUME NEW S, SentenceText(S) PROVE \E y \in Seq(Tokens) : S = Consumed \o y
        /\ Due(y)
    BY DEF DueInv
  <2>1. PICK v \in Values : v.text = S
    BY DEF SentenceText
  <2>2. S \in Seq(Tokens) /\ <<>> \in Seq(Tokens)
    BY <2>1, ValueText, NoText DEF IsPhrase
  <2>3. S = Consumed \o S /\ S = v.text \o <<>>
    BY <1>2, <2>1, <2>2, NoText
  <2>4. Reach("due", stack, <<>>)
    BY <1>1, ReachNone
  <2>5. DueValue(stack, S)
    BY <2>2, <2>3, <2>4 DEF DueValue
  <2>6. Due(S)
    BY <1>1, <2>5 DEF Due
  <2> QED
    BY <2>2, <2>3, <2>6
<1>6. DepthInv
  <2>1. Len(stack) = 0
    BY <1>1, EmptySeq
  <2>2. 0 <= MaxNesting + 1 /\ 0 <= MaxNesting
    BY BoundsAssumption
  <2>3. Opened(Consumed, Len(Consumed)) = 0 /\ Shallow(Consumed)
    BY <1>2, NothingOpened
  <2> QED
    BY <1>1, <2>1, <2>2, <2>3 DEF DepthInv
<1> QED
  BY <1>2, <1>3, <1>4, <1>5, <1>6 DEF GrammarInv

(* Every step keeps it. *)
LEMMA NextGrammar == ParseInv /\ GrammarInv /\ [Next]_vars => GrammarInv'
<1> SUFFICES ASSUME ParseInv, GrammarInv, [Next]_vars PROVE GrammarInv'
  OBVIOUS
<1>1. CASE ParseNothing \/ ScalarFails \/ StringFails \/ OpenFails
  BY <1>1, FailedValues
<1>2. CASE ParseScalar \/ ParseString
  BY <1>2, ScalarsRead
<1>3. CASE ParseMinus
  BY <1>3, MinusRead
<1>4. CASE Open
  BY <1>4, ContainerBegun
<1>5. CASE CloseEmpty \/ CloseObject \/ CloseArray
  BY <1>5, ContainerClosed
<1>6. CASE First \/ NextItem
  BY <1>6, ItemAwaited
<1>7. CASE Key
  BY <1>7, NameRead
<1>8. CASE Colon
  BY <1>8, ColonRead
<1>9. CASE Comma
  BY <1>9, CommaRead
<1>10. CASE ObjectAdd \/ ObjectAddGrows \/ ArrayAdd \/ ArrayAddGrows
  BY <1>10, ItemsRead
<1>11. CASE \/ NoKeyThere \/ KeyWithNul \/ KeyFails \/ NoColon \/ ObjectAddFails \/ ObjectGivesUp
            \/ ArrayAddFails \/ ArrayGivesUp \/ TrimFails \/ NotClosed
  BY <1>11, ErrorPaths
<1>12. CASE Finish
  BY <1>12, Finished
<1>13. CASE FreeRoot
  BY <1>13, RootFreed
<1>14. CASE UNCHANGED vars
  <2>1. UNCHANGED <<text, stack, mode, ret, short>>
    BY <1>14 DEF vars
  <2>2. UNCHANGED <<Consumed, Ahead, Top>>
    BY <2>1 DEF Consumed, Ahead, Top
  <2>3. \A S : Compat(S)' <=> Compat(S)
    BY <2>1 DEF Compat
  <2>4. \A y : Due(y)' <=> Due(y)
    BY <2>1, <2>2 DEF Due
  <2>5. TextInv => TextInv'
    BY <2>1, <2>2 DEF TextInv
  <2>6. ReadInv => ReadInv'
    BY <2>1, <2>2 DEF ReadInv, Sign
  <2>7. DueInv => DueInv'
    BY <2>1, <2>2, <2>3, <2>4 DEF DueInv
  <2>8. DepthInv => DepthInv'
    BY <2>1, <2>2 DEF DepthInv, Nulled
  <2> QED
    BY <2>1, <2>5, <2>6, <2>7, <2>8 DEF GrammarInv
<1> QED
  BY <1>1, <1>2, <1>3, <1>4, <1>5, <1>6, <1>7, <1>8, <1>9, <1>10, <1>11, <1>12, <1>13,
    <1>14 DEF Next

(* At each step of the descent, what has been read is the beginning of a   *)
(* value that the calls under way hold the parts of, and every sentence    *)
(* that the text may still turn out to be goes on with what these calls    *)
(* expect; the nesting is never deeper than MAX_NESTING.                   *)
THEOREM GrammarInvariant == Spec => []GrammarInv
<1>1. Init => GrammarInv
  BY InitGrammar
<1>2. ParseInv /\ GrammarInv /\ [Next]_vars => GrammarInv'
  BY NextGrammar
<1> QED
  BY <1>1, <1>2, ParseInvariant, PTL DEF Spec

-----------------------------------------------------------------------------
(* The sentences of the reference are the values that fit in the bound. *)
LEMMA SentencesAre ==
  ASSUME NEW p
  PROVE  p \in Sentences <=> p \in Values /\ Shallow(p.text) /\ Len(p.text) <= MaxTokens
<1>1. MaxTokens \in Nat
  BY BoundsAssumption
<1>2. \A n \in 0..MaxTokens : Grammar[MaxTokens][n] = At(n)
  BY <1>1, TablesKept
<1>3. p \in UNION {Grammar[MaxTokens][n].value : n \in 0..MaxTokens}
        <=> \E n \in 0..MaxTokens : p \in At(n).value
  BY <1>2
<1>4. ASSUME NEW n \in 0..MaxTokens, p \in At(n).value
      PROVE  p \in Values /\ Len(p.text) <= MaxTokens
  <2>1. n \in Nat
    BY <1>1
  <2>2. SizedAt(n)
    BY <2>1, AllSized
  <2>3. Len(p.text) = n
    BY <1>4, <2>2 DEF SizedAt, Sized
  <2>4. p \in Values
    BY <1>4, <2>1 DEF Values
  <2> QED
    BY <1>1, <2>3, <2>4
<1>5. ASSUME p \in Values, Len(p.text) <= MaxTokens
      PROVE  \E n \in 0..MaxTokens : p \in At(n).value
  <2>1. Len(p.text) \in Nat /\ p \in At(Len(p.text)).value
    BY <1>5, ValueText
  <2>2. Len(p.text) \in 0..MaxTokens
    BY <1>1, <1>5, <2>1
  <2> QED
    BY <2>1, <2>2
<1> QED
  BY <1>3, <1>4, <1>5 DEF Sentences

(* A prefix agrees with the sequence as far as it goes. *)
LEMMA PrefixAgrees ==
  ASSUME NEW S, NEW s \in Seq(S), NEW p \in Prefixes(s)
  PROVE  Len(p) \in Nat /\ Len(p) <= Len(s) /\ \A i \in 1..Len(p) : p[i] = s[i]
<1>1. PICK l \in 0..Len(s) : p = SubSeq(s, 1, l)
  BY DEF Prefixes
<1>2. Len(s) \in Nat /\ \A i \in 1..Len(s) : s[i] \in S
  BY LenProperties, ElementOfSeq
<1>3. l \in Nat /\ l <= Len(s)
  BY <1>1, <1>2
<1>4. /\ Len(SubSeq(s, 1, l)) = (IF 1 <= l THEN l - 1 + 1 ELSE 0)
      /\ \A i \in 1..(l - 1 + 1) : SubSeq(s, 1, l)[i] = s[1 + i - 1]
  <2>1. 1 \in Int /\ l \in Int /\ \A i \in 1..l : s[i] \in S
    BY <1>2, <1>3
  <2> QED
    BY <2>1, SubSeqProperties
<1>5. Len(p) = l
  BY <1>1, <1>3, <1>4
<1>6. ASSUME NEW i \in 1..l PROVE p[i] = s[i]
  <2>1. i \in 1..(l - 1 + 1) /\ 1 + i - 1 = i
    BY <1>3
  <2> QED
    BY <1>1, <1>4, <2>1
<1> QED
  BY <1>3, <1>5, <1>6

(* The texts of the sentences of the reference. *)
LEMMA SentenceTextsAre ==
  ASSUME NEW S \in SentenceTexts
  PROVE  SentenceText(S) /\ S \in Seq(Tokens)
<1>1. PICK p \in Sentences : S = p.text
  BY DEF SentenceTexts
<1>2. p \in Values /\ Shallow(p.text)
  BY SentencesAre
<1> QED
  BY <1>1, <1>2, ValueText DEF SentenceText, IsPhrase

(* Unless memory runs short, json_parse_string accepts what begins with a  *)
(* value of the grammar, builds what it means, and refuses only what       *)
(* neither begins with a value nor can be continued to one; the exception  *)
(* is a sign without digits.  For texts of any length and any nesting.     *)
THEOREM ParserMeetsGrammar == Spec => []ParsesGrammar
<1>1. GrammarInv => ParsesGrammar
  <2> SUFFICES ASSUME GrammarInv PROVE ParsesGrammar
    OBVIOUS
  <2>1. ASSUME mode = "parsed"
        PROVE  Phrase(Consumed, Meaning(ret)) \in Sentences \/ text = <<Minus>>
    <3>1. TextInv /\ ReadInv /\ DepthInv
      BY <2>1 DEF GrammarInv
    <3>2. SUFFICES ASSUME Phrase(Consumed, Meaning(ret)) \in Values
                   PROVE  Phrase(Consumed, Meaning(ret)) \in Sentences
      BY <2>1, <3>1 DEF ReadInv
    <3>3. Shallow(Consumed)
      BY <2>1, <3>1 DEF DepthInv, Nulled
    <3>4. Len(Consumed) <= MaxTokens
      <4>1. Len(text) \in 1..(MaxTokens + 1) /\ Len(text) = Len(Consumed) + 1
              /\ Len(Consumed) \in Nat
        BY <3>1, TextSplit DEF TextInv
      <4>2. MaxTokens \in Nat
        BY BoundsAssumption
      <4> QED
        BY <4>1, <4>2
    <3>5. Phrase(Consumed, Meaning(ret)).text = Consumed
      BY PhraseIs
    <3> QED
      BY <3>2, <3>3, <3>4, <3>5, SentencesAre
  <2>2. ASSUME mode = "failed", ~short
        PROVE  text \notin Beginnings /\ \A s \in Prefixes(text) : s \notin SentenceTexts
    <3>1. TextInv /\ DueInv
      BY <2>2 DEF GrammarInv
    <3>2. \A S : SentenceText(S) => ~Compat(S)
      BY <2>2, <3>1 DEF DueInv, Due
    <3>3. text \in Seq(Tokens \cup {End})
      BY <3>1 DEF TextInv
    <3>4. ASSUME NEW s \in Prefixes(text), s \in SentenceTexts PROVE FALSE
      <4>1. SentenceText(s)
        BY <3>4, SentenceTextsAre
      <4>2. Len(s) \in Nat /\ \A i \in 1..Len(s) : s[i] = text[i]
        BY <3>3, PrefixAgrees
      <4>3. Compat(s)
        BY <4>2 DEF Compat
      <4> QED
        BY <3>2, <4>1, <4>3
    <3>5. ASSUME NEW S \in SentenceTexts, text \in Prefixes(S) PROVE FALSE
      <4>1. SentenceText(S) /\ S \in Seq(Tokens)
        BY SentenceTextsAre
      <4>2. Len(text) \in Nat /\ \A i \in 1..Len(text) : text[i] = S[i]
        BY <3>5, <4>1, PrefixAgrees
      <4>3. Compat(S)
        <5>1. Len(S) \in Nat
          BY <4>1, LenProperties
        <5> QED
          BY <4>2, <5>1 DEF Compat
      <4> QED
        BY <3>2, <4>1, <4>3
    <3>6. text \notin Beginnings
      BY <3>5 DEF Beginnings
    <3> QED
      BY <3>4, <3>6
  <2> QED
    BY <2>1, <2>2 DEF ParsesGrammar
<1> QED
  BY <1>1, GrammarInvariant, PTL
=============================================================================
