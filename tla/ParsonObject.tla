----------------------------- MODULE ParsonObject -----------------------------
(***************************************************************************)
(* JSON_Object of src/parson/parson.c: items in the order of addition, and *)
(* a hash table of open addressing over them.  An object that is full      *)
(* moves into a new one of twice the capacity, whose seven tables are each *)
(* a block of the kernel's memory; any of them may be refused, and what    *)
(* the object held must then still be there.                               *)
(*                                                                         *)
(* Capacities are powers of two, so that hash & (capacity - 1) is          *)
(* hash % capacity.  The hash kept beside each item only saves comparing   *)
(* names, and cell_ixs is written and never read: both are left out.       *)
(***************************************************************************)
EXTENDS Integers, Sequences

CONSTANTS
  Names,             (* the keys added and looked up                       *)
  Values,            (* the values added; each is in one place at most     *)
  None,              (* NULL                                               *)
  Hash,              (* hash_string                                        *)
  StartingCapacity   (* STARTING_CAPACITY                                  *)

ASSUME ObjectAssumption ==
  /\ None \notin Names \cup Values
  /\ Hash \in [Names -> Nat]
  /\ StartingCapacity \in Nat /\ StartingCapacity >= 2
  /\ \E k \in 1..30 : StartingCapacity = 2^k

VARIABLES
  step,          (* where json_object_add stands; "ready" between calls    *)
  object,        (* cell_capacity, cells, and names and values as items    *)
  next,          (* new_object of json_object_grow_and_rehash              *)
  adding,        (* the name and the value json_object_add was called with *)
  answer,        (* what the last call returned                            *)
  short,         (* history: that call was refused memory                  *)
  blocks,        (* live blocks                                            *)
  wildFree       (* history: a block was freed that was not live           *)

vars == <<step, object, next, adding, answer, short, blocks, wildFree>>

-----------------------------------------------------------------------------
Item(n, v) == [name |-> n, value |-> v]
NoItem == Item(None, None)
Items == [name : Names, value : Values]
Answer(op, n, v) == [op |-> op, name |-> n, value |-> v]

(* item_capacity: 0.7 of the cells, rounded down. *)
ItemCapacity(capacity) == (7 * capacity) \div 10

(* A cell holds the place of its item, or 0 for OBJECT_INVALID_IX. *)
Table(capacity) ==
  [capacity |-> capacity, cells |-> [c \in 0..(capacity - 1) |-> 0], items |-> <<>>]

(* A capacity twice as large, or the first one. *)
NewCapacity(table) == IF table.capacity = 0 THEN StartingCapacity ELSE 2 * table.capacity

(* Mutant: the probe stops at the last cell instead of going round. *)
ProbeToTheEnd(n, i, capacity) ==
  LET s == Hash[n] % capacity IN IF s + i < capacity THEN s + i ELSE capacity - 1

(* The cell json_object_get_cell_ix looks at after i others. *)
Probe(n, i, capacity) ==
  LET s == Hash[n] % capacity IN IF s + i < capacity THEN s + i ELSE s + i - capacity

(* The probes at which it stops: a free cell, or the name. *)
Stops(table, n) ==
  {i \in 0..(table.capacity - 1) :
     LET place == table.cells[Probe(n, i, table.capacity)]
     IN  place = 0 \/ table.items[place].name = n}

FirstOf(S) == CHOOSE i \in S : \A j \in S : i <= j

(* json_object_get_cell_ix: where it stops, and whether that is the name.  *)
(* With no such cell it returns OBJECT_INVALID_IX.                         *)
CellIx(table, n) == Probe(n, FirstOf(Stops(table, n)), table.capacity)
Found(table, n) == Stops(table, n) # {} /\ table.cells[CellIx(table, n)] # 0

(* Mutant: count is raised before the cell is written. *)
InsertedLate(table, item) ==
  [capacity |-> table.capacity,
   cells    |-> [table.cells EXCEPT ![CellIx(table, item.name)] = Len(table.items) + 2],
   items    |-> Append(table.items, item)]

(* The end of json_object_add, once there is room. *)
Inserted(table, item) ==
  [capacity |-> table.capacity,
   cells    |-> [table.cells EXCEPT ![CellIx(table, item.name)] = Len(table.items) + 1],
   items    |-> Append(table.items, item)]

HasRoom(table) == Len(table.items) < ItemCapacity(table.capacity)

-----------------------------------------------------------------------------
(* Blocks: the object itself, the seven tables of each capacity, and a key *)
(* and a value for each item.                                              *)
Arrays == {"cells", "nameIds", "names", "valueIds", "values", "cell_ixs", "hashes"}

Tables(table) == IF table.capacity = 0 THEN {} ELSE Arrays \X {table.capacity}
KeyAndValue(item) == {"key", "value"} \X {item.value}
ItemBlocks(table) == UNION {KeyAndValue(table.items[i]) : i \in DOMAIN table.items}
Object == <<"object", 0>>

(* parson_free of each of ids, after the kernel has given out new. *)
AllocAndFree(new, ids) ==
  /\ blocks' = (blocks \cup new) \ ids
  /\ wildFree' = (wildFree \/ ~(ids \subseteq blocks \cup new))

-----------------------------------------------------------------------------
(* json_object_make. *)
Init ==
  /\ step = "ready"
  /\ object = Table(0)
  /\ next = Table(0)
  /\ adding = NoItem
  /\ answer = Answer("make", None, None)
  /\ short = FALSE
  /\ blocks = {Object}
  /\ wildFree = FALSE

(* A caller has a key and a value of its own and calls json_object_add. *)
Add(n, v) ==
  /\ step = "ready"
  /\ \A i \in DOMAIN object.items : object.items[i].value # v
  /\ step' = "find"
  /\ adding' = Item(n, v)
  /\ blocks' = blocks \cup KeyAndValue(Item(n, v))
  /\ UNCHANGED <<object, next, answer, short, wildFree>>

Returns(v, outOfMemory) ==
  /\ step' = "ready"
  /\ adding' = NoItem
  /\ answer' = Answer("add", adding.name, v)
  /\ short' = outOfMemory

(* json_object_add refuses a name that is there; its caller frees the key  *)
(* and the value.                                                          *)
AddFound ==
  /\ step = "find"
  /\ Found(object, adding.name)
  /\ Returns(None, FALSE)
  /\ AllocAndFree({}, KeyAndValue(adding))
  /\ UNCHANGED <<object, next>>

AddHere ==
  /\ step = "find"
  /\ ~Found(object, adding.name)
  /\ HasRoom(object)
  /\ object' = Inserted(object, adding)
  /\ Returns(adding.value, FALSE)
  /\ UNCHANGED <<next, blocks, wildFree>>

(* json_object_grow_and_rehash starts: json_object_init gets its tables. *)
Grow ==
  /\ step = "find"
  /\ ~Found(object, adding.name)
  /\ ~HasRoom(object)
  /\ next' = Table(NewCapacity(object))
  /\ AllocAndFree(Tables(next'), {})
  /\ step' = "rehash"
  /\ UNCHANGED <<object, adding, answer, short>>

(* Mutant: the last table is forgotten on the error path. *)
GivenBackShort(new) == Tables(new) \ {<<"hashes", new.capacity>>}

(* What the error path of json_object_init frees. *)
GivenBack(new) == Tables(new)

(* One table or more is refused.  All seven are asked for all the same,    *)
(* and all seven ids are freed; those of failures are error codes, which   *)
(* the kernel turns away.                                                  *)
GrowFails ==
  /\ step = "find"
  /\ ~Found(object, adding.name)
  /\ ~HasRoom(object)
  /\ LET new == Table(NewCapacity(object)) IN
       \E refused \in SUBSET Tables(new) :
         /\ refused # {}
         /\ AllocAndFree(Tables(new) \ refused, (GivenBack(new) \ refused) \cup KeyAndValue(adding))
  /\ Returns(None, TRUE)
  /\ UNCHANGED <<object, next>>

(* Its loop: the next item is added to the new object. *)
Rehash ==
  /\ step = "rehash"
  /\ Len(next.items) < Len(object.items)
  /\ next' = Inserted(next, object.items[Len(next.items) + 1])
  /\ UNCHANGED <<step, object, adding, answer, short, blocks, wildFree>>

(* Mutant: the item goes to the cell that was found before the growth. *)
GrownAtOldCell ==
  /\ step = "rehash"
  /\ Len(next.items) = Len(object.items)
  /\ object' = [capacity |-> next.capacity,
                cells    |-> [next.cells EXCEPT
                                ![Hash[adding.name] % next.capacity] = Len(next.items) + 1],
                items    |-> Append(next.items, adding)]
  /\ AllocAndFree({}, Tables(object))
  /\ next' = Table(0)
  /\ Returns(adding.value, FALSE)

(* It takes the place of the old object, and json_object_add goes on.      *)
Grown ==
  /\ step = "rehash"
  /\ Len(next.items) = Len(object.items)
  /\ object' = Inserted(next, adding)
  /\ AllocAndFree({}, Tables(object))
  /\ next' = Table(0)
  /\ Returns(adding.value, FALSE)

Looked(op, n, v) ==
  /\ step = "ready"
  /\ answer' = Answer(op, n, v)
  /\ short' = FALSE
  /\ UNCHANGED <<step, object, next, adding, blocks, wildFree>>

(* json_object_get_value. *)
Get(n) ==
  Looked("get", n, IF Found(object, n) THEN object.items[object.cells[CellIx(object, n)]].value
                   ELSE None)

(* json_object_get_name and json_object_get_value_at, for a place in the   *)
(* object and for the first one past its count.                            *)
GetAt(i) ==
  /\ i \in DOMAIN object.items
  /\ Looked("at", object.items[i].name, object.items[i].value)

GetPastTheEnd == Looked("at", None, None)

(* json_object_free: keys, values, tables and the object. *)
Free ==
  /\ step = "ready"
  /\ AllocAndFree({}, ItemBlocks(object) \cup Tables(object) \cup {Object})
  /\ step' = "freed"
  /\ object' = Table(0)
  /\ answer' = Answer("free", None, None)
  /\ short' = FALSE
  /\ UNCHANGED <<next, adding>>

-----------------------------------------------------------------------------
Next ==
  \/ \E n \in Names, v \in Values : Add(n, v)
  \/ AddFound \/ AddHere \/ Grow \/ GrowFails \/ Rehash \/ Grown
  \/ \E n \in Names : Get(n)
  \/ \E i \in DOMAIN object.items : GetAt(i)
  \/ GetPastTheEnd \/ Free

Spec == Init /\ [][Next]_vars
-----------------------------------------------------------------------------
TablesOK(table) ==
  /\ table.capacity \in Nat
  /\ table.items \in Seq(Items)
  /\ table.cells \in [0..(table.capacity - 1) -> 0..Len(table.items)]
  /\ table = [capacity |-> table.capacity, cells |-> table.cells, items |-> table.items]

(* Every variable has its type; cells point at items. *)
TypeOK ==
  /\ step \in {"ready", "find", "rehash", "freed"}
  /\ TablesOK(object)
  /\ TablesOK(next)
  /\ adding \in Items \cup {NoItem}
  /\ (adding = NoItem) <=> step \in {"ready", "freed"}
  /\ answer \in [op : {"make", "add", "get", "at", "free"},
                 name : Names \cup {None}, value : Values \cup {None}]
  /\ short \in BOOLEAN
  /\ blocks \subseteq {Object} \cup (Arrays \X Nat) \cup ({"key", "value"} \X Values)
  /\ wildFree \in BOOLEAN

(* Whenever json_object_add is about to store an item, json_object_get_cell_ix *)
(* has stopped at a free cell, and there is room for one more item: no     *)
(* write goes to cells[OBJECT_INVALID_IX], none hides another item, and    *)
(* the additions that rehash an object neither fail nor grow it again.     *)
StoresInFreeCell(table, n) ==
  /\ HasRoom(table)
  /\ Stops(table, n) # {}
  /\ ~Found(table, n)

InsertsFit ==
  /\ step = "find" /\ ~Found(object, adding.name) /\ HasRoom(object) =>
       StoresInFreeCell(object, adding.name)
  /\ step = "rehash" /\ Len(next.items) < Len(object.items) =>
       StoresInFreeCell(next, object.items[Len(next.items) + 1].name)
  /\ step = "rehash" /\ Len(next.items) = Len(object.items) =>
       StoresInFreeCell(next, adding.name)

(* Between calls an object owns the blocks of its items and one set of     *)
(* tables, and nothing else of all the additions that failed or grew it is *)
(* left; json_object_free leaves nothing; and no block is freed that is    *)
(* not live.                                                               *)
OwnsItsBlocks ==
  /\ ~wildFree
  /\ step = "ready" => blocks = {Object} \cup Tables(object) \cup ItemBlocks(object)
  /\ step = "freed" => blocks = {}

(* An object is a map: an addition appends one new name or changes         *)
(* nothing, growth moves no value to another name, and a lookup finds      *)
(* every name that was added, and no other, with its value.                *)
Map == INSTANCE JsonMap WITH entries <- object.items, call <- adding
MapSpec == Map!Spec
=============================================================================
