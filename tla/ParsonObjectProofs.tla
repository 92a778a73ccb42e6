-------------------------- MODULE ParsonObjectProofs --------------------------
(***************************************************************************)
(* Proofs about ParsonObject, for any names and values, any hash function  *)
(* and any number of additions and growths.                                *)
(***************************************************************************)
EXTENDS ParsonObject, FiniteSetTheorems, SequenceTheorems, TLAPS

(* Where the name is found: its cell is the k-th that is probed, and the   *)
(* probe does not stop before it.                                          *)
ReachedAt(table, i, k) ==
  /\ k \in 0..(table.capacity - 1)
  /\ table.cells[Probe(table.items[i].name, k, table.capacity)] = i
  /\ \A j \in 0..(k - 1) : table.cells[Probe(table.items[i].name, j, table.capacity)] # 0

Reachable(table) ==
  \A i \in 1..Len(table.items) : \E k \in Nat : ReachedAt(table, i, k)

(* One cell for an item, and one item for a name. *)
OneCell(table) ==
  \A c, d \in 0..(table.capacity - 1) :
    table.cells[c] # 0 /\ table.cells[c] = table.cells[d] => c = d

OneItem(table) ==
  \A i, j \in 1..Len(table.items) : table.items[i].name = table.items[j].name => i = j

Sound(table) ==
  /\ TablesOK(table)
  /\ table.capacity = 0 \/ table.capacity >= 2
  /\ Reachable(table)
  /\ OneCell(table)
  /\ OneItem(table)
  /\ Len(table.items) <= ItemCapacity(table.capacity)

Holds(table, n) == \E i \in 1..Len(table.items) : table.items[i].name = n

(* While an object grows, the new one holds the first of its items, and    *)
(* has room for the rest and the one to be added.                          *)
RehashInv ==
  /\ next.capacity = NewCapacity(object)
  /\ Len(next.items) <= Len(object.items)
  /\ \A i \in 1..Len(next.items) : next.items[i] = object.items[i]
  /\ Len(object.items) < ItemCapacity(next.capacity)
  /\ ~Holds(object, adding.name)

TablesInv ==
  /\ Sound(object)
  /\ Sound(next)
  /\ step # "rehash" => next = Table(0)
  /\ step = "rehash" => RehashInv

AddingInv ==
  adding # NoItem => \A i \in 1..Len(object.items) : object.items[i].value # adding.value

(* The live blocks, and who owns them. *)
AddingBlocks == IF adding = NoItem THEN {} ELSE KeyAndValue(adding)

Owned == {Object} \cup Tables(object) \cup ItemBlocks(object) \cup Tables(next) \cup AddingBlocks

BlocksInv ==
  /\ ~wildFree
  /\ blocks = IF step = "freed" THEN {} ELSE Owned

ObjectInv == TypeOK /\ TablesInv /\ AddingInv /\ BlocksInv
-----------------------------------------------------------------------------
(* A nonempty set of numbers has a first one. *)
LEMMA FirstProperties ==
  ASSUME NEW S \in SUBSET Nat, S # {}
  PROVE  FirstOf(S) \in S /\ \A j \in S : FirstOf(S) <= j
<1>1. \E i \in S : \A j \in S : ~(<<j, i>> \in OpToRel(<, Nat))
  BY NatLessThanWellFounded, WFMin
<1>2. PICK i \in S : \A j \in S : ~(<<j, i>> \in OpToRel(<, Nat))
  BY <1>1
<1>3. \A j \in S : i <= j
  <2> SUFFICES ASSUME NEW j \in S PROVE i <= j
    OBVIOUS
  <2>1. ~(<<j, i>> \in OpToRel(<, Nat))
    BY <1>2
  <2>2. <<j, i>> \in Nat \X Nat
    OBVIOUS
  <2>3. ~(j < i)
    BY <2>1, <2>2 DEF OpToRel
  <2> QED
    BY <2>3
<1> QED
  BY <1>3 DEF FirstOf

(* The numbers of items that capacities allow. *)
LEMMA ItemCapacities ==
  ASSUME NEW c \in Nat
  PROVE  /\ ItemCapacity(c) \in Nat
         /\ ItemCapacity(c) <= c
         /\ c >= 1 => ItemCapacity(c) < c
         /\ c >= 2 => 1 <= ItemCapacity(c) /\ ItemCapacity(c) < ItemCapacity(2 * c)
  BY DEF ItemCapacity

(* A probe goes to a cell, and every cell is probed. *)
LEMMA ProbeIsCell ==
  ASSUME NEW n \in Names, NEW c \in Nat \ {0}, NEW i \in 0..(c - 1)
  PROVE  Probe(n, i, c) \in 0..(c - 1)
<1>1. Hash[n] \in Nat
  BY ObjectAssumption
<1>2. Hash[n] % c \in 0..(c - 1)
  BY <1>1
<1> HIDE DEF ObjectAssumption
<1> QED
  BY <1>2 DEF Probe

LEMMA EveryCellIsProbed ==
  ASSUME NEW n \in Names, NEW c \in Nat \ {0}, NEW d \in 0..(c - 1)
  PROVE  \E i \in 0..(c - 1) : Probe(n, i, c) = d
<1> DEFINE s == Hash[n] % c
<1>1. Hash[n] \in Nat
  BY ObjectAssumption
<1>2. s \in 0..(c - 1)
  BY <1>1
<1>3. Probe(n, IF s <= d THEN d - s ELSE d - s + c, c) = d
  <2> HIDE DEF s
  <2>1. \A i : Probe(n, i, c) = IF s + i < c THEN s + i ELSE s + i - c
    BY DEF Probe, s
  <2> QED
    BY <1>2, <2>1
<1>4. (IF s <= d THEN d - s ELSE d - s + c) \in 0..(c - 1)
  <2> HIDE DEF s
  <2> QED
    BY <1>2
<1> QED
  BY <1>3, <1>4

(* The parts of Sound that most steps need. *)
LEMMA SoundParts ==
  ASSUME NEW table, Sound(table)
  PROVE  /\ table.capacity \in Nat
         /\ Len(table.items) \in Nat
         /\ DOMAIN table.items = 1..Len(table.items)
         /\ \A i \in 1..Len(table.items) : table.items[i] \in Items
         /\ table.cells \in [0..(table.capacity - 1) -> 0..Len(table.items)]
         /\ Len(table.items) <= ItemCapacity(table.capacity)
  BY LenProperties, ElementOfSeq DEF Sound, TablesOK

(* How many numbers there are below n, and from 1 to n. *)
LEMMA Interval ==
  ASSUME NEW n \in Nat
  PROVE  /\ IsFiniteSet(0..(n - 1)) /\ Cardinality(0..(n - 1)) = n
         /\ IsFiniteSet(1..n) /\ Cardinality(1..n) = n
<1>1. /\ IsFiniteSet(0..(n - 1))
      /\ Cardinality(0..(n - 1)) = IF 0 > n - 1 THEN 0 ELSE (n - 1) - 0 + 1
  <2>1. 0 \in Int /\ n - 1 \in Int
    OBVIOUS
  <2> QED
    BY <2>1, FS_Interval, Zenon
<1>2. /\ IsFiniteSet(1..n)
      /\ Cardinality(1..n) = IF 1 > n THEN 0 ELSE n - 1 + 1
  <2>1. 1 \in Int /\ n \in Int
    OBVIOUS
  <2> QED
    BY <2>1, FS_Interval, Zenon
<1> QED
  BY <1>1, <1>2

(* An object with tables has a free cell, by the pigeonhole principle: it  *)
(* has fewer items than cells.                                             *)
LEMMA FreeCell ==
  ASSUME NEW table, Sound(table), table.capacity >= 2
  PROVE  \E c \in 0..(table.capacity - 1) : table.cells[c] = 0
<1> DEFINE S == 0..(table.capacity - 1)
           T == 1..Len(table.items)
<1>1. /\ table.capacity \in Nat /\ Len(table.items) \in Nat
      /\ table.cells \in [S -> 0..Len(table.items)]
      /\ Len(table.items) <= ItemCapacity(table.capacity)
  BY SoundParts
<1>2. Len(table.items) < table.capacity
  <2>1. ItemCapacity(table.capacity) \in Nat /\ ItemCapacity(table.capacity) < table.capacity
    BY <1>1, ItemCapacities
  <2> QED
    BY <1>1, <2>1
<1>4. IsFiniteSet(S) /\ Cardinality(S) = table.capacity
  BY <1>1, Interval
<1>5. IsFiniteSet(T) /\ Cardinality(T) = Len(table.items)
  BY <1>1, Interval
<1>6. SUFFICES ASSUME \A c \in S : table.cells[c] # 0 PROVE FALSE
  OBVIOUS
<1>7. table.cells \in [S -> T]
  BY <1>1, <1>6
<1>8. \E c, d \in S : c # d /\ table.cells[c] = table.cells[d]
  <2>1. Cardinality(T) < Cardinality(S)
    BY <1>1, <1>2, <1>4, <1>5
  <2> HIDE DEF S, T
  <2> QED
    BY <1>4, <1>5, <1>7, <2>1, FS_PigeonHole
<1> QED
  BY <1>6, <1>8 DEF Sound, OneCell

(* Where the search for a name ends: at the first cell that is free or     *)
(* holds the name.                                                         *)
LEMMA SearchEnds ==
  ASSUME NEW table, Sound(table), table.capacity >= 2, NEW n \in Names
  PROVE  \E k \in 0..(table.capacity - 1) :
           /\ k = FirstOf(Stops(table, n))
           /\ k \in Stops(table, n)
           /\ Stops(table, n) # {}
           /\ CellIx(table, n) = Probe(n, k, table.capacity)
           /\ CellIx(table, n) \in 0..(table.capacity - 1)
           /\ \A j \in 0..(k - 1) : j \notin Stops(table, n)
<1>1. table.capacity \in Nat \ {0}
  BY SoundParts
<1>2. PICK c \in 0..(table.capacity - 1) : table.cells[c] = 0
  BY FreeCell
<1>3. PICK i \in 0..(table.capacity - 1) : Probe(n, i, table.capacity) = c
  BY <1>1, EveryCellIsProbed
<1>4. i \in Stops(table, n)
  BY <1>2, <1>3 DEF Stops
<1>5. Stops(table, n) \subseteq 0..(table.capacity - 1)
  BY DEF Stops
<1>6. /\ FirstOf(Stops(table, n)) \in Stops(table, n)
      /\ \A j \in Stops(table, n) : FirstOf(Stops(table, n)) <= j
  BY <1>1, <1>4, <1>5, FirstProperties
<1>7. FirstOf(Stops(table, n)) \in 0..(table.capacity - 1)
  BY <1>5, <1>6
<1>8. CellIx(table, n) = Probe(n, FirstOf(Stops(table, n)), table.capacity)
  BY DEF CellIx
<1>9. CellIx(table, n) \in 0..(table.capacity - 1)
  BY <1>1, <1>7, <1>8, ProbeIsCell
<1>10. \A j \in 0..(FirstOf(Stops(table, n)) - 1) : j \notin Stops(table, n)
  BY <1>1, <1>6, <1>7
<1> QED
  BY <1>4, <1>6, <1>7, <1>8, <1>9, <1>10

(* The cell that the search ends at is free or holds the name.             *)
LEMMA CellIsFreeOrName ==
  ASSUME NEW table, Sound(table), table.capacity >= 2, NEW n \in Names
  PROVE  LET place == table.cells[CellIx(table, n)]
         IN  place = 0 \/ (place \in 1..Len(table.items) /\ table.items[place].name = n)
<1>1. PICK k \in Stops(table, n) : CellIx(table, n) = Probe(n, k, table.capacity)
  BY SearchEnds
<1>2. CellIx(table, n) \in 0..(table.capacity - 1)
  BY SearchEnds
<1>3. table.cells[CellIx(table, n)] \in 0..Len(table.items) /\ Len(table.items) \in Nat
  BY <1>2, SoundParts
<1> QED
  BY <1>1, <1>3 DEF Stops

(* The search finds a name if and only if there is an item of that name.   *)
LEMMA FoundIsHeld ==
  ASSUME NEW table, Sound(table), NEW n \in Names
  PROVE  Found(table, n) <=> Holds(table, n)
<1>1. CASE table.capacity = 0
  <2>1. Stops(table, n) = {}
    BY <1>1 DEF Stops
  <2>2. Len(table.items) = 0
    BY <1>1, SoundParts, ItemCapacities
  <2> QED
    BY <2>1, <2>2 DEF Found, Holds
<1>2. CASE table.capacity >= 2
  <2>1. PICK k \in 0..(table.capacity - 1) :
          /\ Stops(table, n) # {}
          /\ CellIx(table, n) = Probe(n, k, table.capacity)
          /\ \A j \in 0..(k - 1) : j \notin Stops(table, n)
    BY <1>2, SearchEnds
  <2>2. ASSUME Found(table, n) PROVE Holds(table, n)
    BY <1>2, <2>2, CellIsFreeOrName DEF Found, Holds
  <2>3. ASSUME Holds(table, n) PROVE Found(table, n)
    <3>1. PICK i \in 1..Len(table.items) : table.items[i].name = n
      BY <2>3 DEF Holds
    <3>2. PICK m \in Nat : ReachedAt(table, i, m)
      BY DEF Sound, Reachable
    <3>3. /\ m \in 0..(table.capacity - 1)
          /\ table.cells[Probe(n, m, table.capacity)] = i
          /\ \A j \in 0..(m - 1) : table.cells[Probe(n, j, table.capacity)] # 0
      BY <3>1, <3>2 DEF ReachedAt
    <3>4. m \in Stops(table, n)
      BY <3>1, <3>3 DEF Stops
    <3>5. k <= m
      BY <2>1, <3>3, <3>4
    <3>6. table.cells[Probe(n, k, table.capacity)] # 0
      BY <3>3, <3>5
    <3> QED
      BY <2>1, <3>6 DEF Found
  <2> QED
    BY <2>2, <2>3
<1> QED
  BY <1>1, <1>2 DEF Sound
-----------------------------------------------------------------------------
(* An object without tables is sound, as is one whose cells are all free.  *)
LEMMA TableIsSound ==
  ASSUME NEW c \in Nat, c = 0 \/ c >= 2
  PROVE  Sound(Table(c))
<1>1. /\ Table(c).capacity = c
      /\ Table(c).cells = [x \in 0..(c - 1) |-> 0]
      /\ Table(c).items = <<>>
  BY DEF Table
<1>2. Len(Table(c).items) = 0 /\ Table(c).items \in Seq(Items)
  BY <1>1
<1>3. TablesOK(Table(c))
  <2>1. Table(c).cells \in [0..(c - 1) -> 0..0]
    BY <1>1
  <2>2. Table(c) = [capacity |-> Table(c).capacity, cells |-> Table(c).cells,
                    items |-> Table(c).items]
    BY DEF Table
  <2> QED
    BY <1>1, <1>2, <2>1, <2>2 DEF TablesOK
<1>4. Reachable(Table(c)) /\ OneItem(Table(c))
  BY <1>2 DEF Reachable, OneItem
<1>5. OneCell(Table(c))
  BY <1>1 DEF OneCell
<1>6. 0 <= ItemCapacity(c)
  BY ItemCapacities
<1> QED
  BY <1>1, <1>2, <1>3, <1>4, <1>5, <1>6 DEF Sound

(* An item of a new name goes to a free cell at the end of its probe, and  *)
(* the object is sound with it.                                            *)
LEMMA InsertedIsSound ==
  ASSUME NEW table, Sound(table), table.capacity >= 2, HasRoom(table),
         NEW item \in Items, ~Holds(table, item.name)
  PROVE  Sound(Inserted(table, item))
<1> DEFINE new == Inserted(table, item)
           last == Len(table.items) + 1
           cell == CellIx(table, item.name)
           C == 0..(table.capacity - 1)
<1>1. /\ table.capacity \in Nat \ {0}
      /\ Len(table.items) \in Nat
      /\ DOMAIN table.items = 1..Len(table.items)
      /\ table.cells \in [C -> 0..Len(table.items)]
      /\ table.items \in Seq(Items)
  BY SoundParts DEF Sound, TablesOK
<1>2. item.name \in Names
  BY DEF Items
<1>3. PICK m \in C :
        /\ cell = Probe(item.name, m, table.capacity)
        /\ cell \in C
        /\ \A j \in 0..(m - 1) : j \notin Stops(table, item.name)
  BY <1>2, SearchEnds
<1>4. table.cells[cell] = 0
  BY <1>2, CellIsFreeOrName DEF Holds
<1>5. /\ new.capacity = table.capacity
      /\ new.cells = [table.cells EXCEPT ![cell] = last]
      /\ new.items = Append(table.items, item)
  BY DEF Inserted
<1>6. /\ Len(new.items) = last
      /\ new.items \in Seq(Items)
      /\ \A i \in 1..Len(table.items) : new.items[i] = table.items[i]
      /\ new.items[last] = item
  BY <1>1, <1>5, AppendProperties
<1>7. /\ new.cells[cell] = last
      /\ \A c \in C : c # cell => new.cells[c] = table.cells[c]
      /\ new.cells \in [C -> 0..last]
  BY <1>1, <1>3, <1>5
<1>8. new = [capacity |-> new.capacity, cells |-> new.cells, items |-> new.items]
  BY DEF Inserted
<1>9. TablesOK(new)
  BY <1>1, <1>5, <1>6, <1>7, <1>8 DEF TablesOK
<1> HIDE DEF new, cell
<1>9a. Len(table.items) \in Nat
  BY <1>1
<1>10. OneCell(new)
  <2> SUFFICES ASSUME NEW c \in C, NEW d \in C, new.cells[c] # 0, new.cells[c] = new.cells[d]
               PROVE  c = d
    BY <1>5 DEF OneCell
  <2>1. table.cells[c] # last /\ table.cells[d] # last
    <3>1. table.cells[c] \in 0..Len(table.items) /\ table.cells[d] \in 0..Len(table.items)
      BY SoundParts
    <3> QED
      BY <1>9a, <3>1
  <2>2. CASE c = cell \/ d = cell
    BY <1>7, <2>1, <2>2
  <2>3. CASE c # cell /\ d # cell
    <3>1. table.cells[c] # 0 /\ table.cells[c] = table.cells[d]
      BY <1>7, <2>3
    <3> QED
      BY <3>1 DEF Sound, OneCell
  <2> QED
    BY <2>2, <2>3
<1>11. OneItem(new)
  <2> SUFFICES ASSUME NEW i \in 1..last, NEW j \in 1..last, new.items[i].name = new.items[j].name
               PROVE  i = j
    BY <1>6 DEF OneItem
  <2>1. CASE i = last \/ j = last
    <3>1. \A k \in 1..last : k # last => new.items[k].name # item.name
      <4> SUFFICES ASSUME NEW k \in 1..last, k # last PROVE new.items[k].name # item.name
        OBVIOUS
      <4>1. k \in 1..Len(table.items)
        BY <1>9a
      <4> QED
        BY <1>6, <4>1 DEF Holds
    <3> QED
      BY <1>6, <2>1, <3>1
  <2>2. CASE i # last /\ j # last
    <3>1. i \in 1..Len(table.items) /\ j \in 1..Len(table.items)
      BY <1>9a, <2>2
    <3> QED
      BY <1>6, <3>1 DEF Sound, OneItem
  <2> QED
    BY <2>1, <2>2
<1>12. Reachable(new)
  <2> SUFFICES ASSUME NEW i \in 1..last PROVE \E k \in Nat : ReachedAt(new, i, k)
    BY <1>6 DEF Reachable
  <2>1. \A n \in Names, j \in C : Probe(n, j, table.capacity) \in C
    BY <1>1, ProbeIsCell
  <2>2. CASE i = last
    <3>1. ASSUME NEW j \in 0..(m - 1)
          PROVE  new.cells[Probe(item.name, j, table.capacity)] # 0
      <4>1. j \in C /\ j \notin Stops(table, item.name)
        BY <1>1, <1>3
      <4>2. table.cells[Probe(item.name, j, table.capacity)] # 0
        BY <4>1 DEF Stops
      <4>3. Probe(item.name, j, table.capacity) # cell
        BY <1>4, <4>2
      <4> QED
        BY <1>2, <1>7, <2>1, <4>1, <4>2, <4>3
    <3>2. ReachedAt(new, i, m)
      BY <1>3, <1>5, <1>6, <1>7, <2>2, <3>1 DEF ReachedAt
    <3> QED
      BY <1>1, <3>2
  <2>3. CASE i # last
    <3>1. i \in 1..Len(table.items)
      BY <1>1, <2>3
    <3>2. PICK k \in Nat : ReachedAt(table, i, k)
      BY <3>1 DEF Sound, Reachable
    <3>3. new.items[i] = table.items[i] /\ table.items[i].name \in Names
      BY <1>6, <3>1, SoundParts DEF Items
    <3>4. k \in C /\ table.cells[Probe(table.items[i].name, k, table.capacity)] = i
      BY <3>2 DEF ReachedAt
    <3>5. new.cells[Probe(table.items[i].name, k, table.capacity)] = i
      <4>1. Probe(table.items[i].name, k, table.capacity) # cell
        BY <1>4, <3>1, <3>4
      <4> QED
        BY <1>7, <2>1, <3>3, <3>4, <4>1
    <3>6. ASSUME NEW j \in 0..(k - 1)
          PROVE  new.cells[Probe(table.items[i].name, j, table.capacity)] # 0
      <4>1. table.cells[Probe(table.items[i].name, j, table.capacity)] # 0
        BY <3>2 DEF ReachedAt
      <4>2. Probe(table.items[i].name, j, table.capacity) # cell
        BY <1>4, <4>1
      <4>3. j \in C
        BY <1>1, <3>4
      <4> QED
        BY <1>7, <2>1, <3>3, <4>1, <4>2, <4>3
    <3>7. ReachedAt(new, i, k)
      BY <1>5, <3>3, <3>4, <3>5, <3>6 DEF ReachedAt
    <3> QED
      BY <3>7
  <2> QED
    BY <2>2, <2>3
<1>13. Len(new.items) <= ItemCapacity(new.capacity)
  <2>1. ItemCapacity(table.capacity) \in Nat
    BY <1>1, ItemCapacities
  <2> QED
    BY <1>1, <1>5, <1>6, <2>1 DEF HasRoom
<1>14. Sound(new)
  BY <1>1, <1>5, <1>9, <1>10, <1>11, <1>12, <1>13 DEF Sound
<1> QED
  BY <1>14 DEF new

(* What an inserted item changes, and what it does not. *)
LEMMA InsertedParts ==
  ASSUME NEW table, Sound(table), NEW item \in Items
  PROVE  LET new == Inserted(table, item)
         IN  /\ new.capacity = table.capacity
             /\ new.items = Append(table.items, item)
             /\ Len(new.items) = Len(table.items) + 1
             /\ \A i \in 1..Len(table.items) : new.items[i] = table.items[i]
             /\ new.items[Len(table.items) + 1] = item
<1>1. /\ Inserted(table, item).capacity = table.capacity
      /\ Inserted(table, item).items = Append(table.items, item)
  BY DEF Inserted
<1>2. table.items \in Seq(Items)
  BY DEF Sound, TablesOK
<1> QED
  BY <1>1, <1>2, AppendProperties

(* A new object has room for more than the full one had. *)
LEMMA Grows ==
  ASSUME NEW table, Sound(table), ~HasRoom(table)
  PROVE  /\ NewCapacity(table) \in Nat
         /\ NewCapacity(table) >= 2
         /\ NewCapacity(table) # table.capacity
         /\ Len(table.items) < ItemCapacity(NewCapacity(table))
<1>1. table.capacity \in Nat /\ Len(table.items) \in Nat
  BY SoundParts
<1>2. Len(table.items) = ItemCapacity(table.capacity)
  <2>1. ItemCapacity(table.capacity) \in Nat
    BY <1>1, ItemCapacities
  <2> QED
    BY <1>1, <2>1 DEF Sound, HasRoom
<1>3. CASE table.capacity = 0
  <2>1. NewCapacity(table) = StartingCapacity /\ StartingCapacity \in Nat /\ StartingCapacity >= 2
    BY <1>3, ObjectAssumption DEF NewCapacity
  <2>2. ItemCapacity(StartingCapacity) \in Nat /\ 1 <= ItemCapacity(StartingCapacity)
    BY <2>1, ItemCapacities
  <2>3. ItemCapacity(table.capacity) = 0
    BY <1>3, ItemCapacities
  <2> QED
    BY <1>2, <1>3, <2>1, <2>2, <2>3
<1>4. CASE table.capacity >= 2
  <2>1. NewCapacity(table) = 2 * table.capacity
    BY <1>1, <1>4 DEF NewCapacity
  <2>2. ItemCapacity(table.capacity) < ItemCapacity(2 * table.capacity)
    BY <1>1, <1>4, ItemCapacities
  <2> QED
    BY <1>1, <1>2, <1>4, <2>1, <2>2
<1> QED
  BY <1>3, <1>4 DEF Sound

(* An addition that is under way has a name and a value. *)
LEMMA AddingIsItem ==
  ASSUME TypeOK
  PROVE  /\ step \in {"find", "rehash"} => adding \in Items /\ adding # NoItem
         /\ step \in {"ready", "freed"} => adding = NoItem
  BY DEF TypeOK

(* Where an item is about to be stored there is a free cell. *)
LEMMA FreeCellToStore ==
  ASSUME NEW table, Sound(table), NEW n \in Names, HasRoom(table), ~Holds(table, n)
  PROVE  StoresInFreeCell(table, n) /\ table.capacity >= 2
<1>1. table.capacity \in Nat /\ Len(table.items) \in Nat
  BY SoundParts
<1>2. table.capacity >= 2
  <2>1. table.capacity # 0
    BY <1>1, ItemCapacities DEF HasRoom
  <2> QED
    BY <2>1 DEF Sound
<1>3. ~Found(table, n)
  BY FoundIsHeld
<1>4. Stops(table, n) # {}
  BY <1>2, SearchEnds
<1> QED
  BY <1>2, <1>3, <1>4 DEF StoresInFreeCell

(* In the new object, the next item of the old one or the one to be added  *)
(* is about to be stored.                                                  *)
LEMMA RehashStores ==
  ASSUME TypeOK, TablesInv, step = "rehash"
  PROVE  /\ HasRoom(next) /\ next.capacity >= 2
         /\ Len(next.items) < Len(object.items) =>
              /\ object.items[Len(next.items) + 1] \in Items
              /\ ~Holds(next, object.items[Len(next.items) + 1].name)
         /\ adding \in Items /\ ~Holds(next, adding.name)
<1>1. /\ Sound(object) /\ Sound(next) /\ RehashInv
      /\ Len(object.items) \in Nat /\ Len(next.items) \in Nat
  BY SoundParts DEF TablesInv
<1>2. HasRoom(next)
  <2>1. ItemCapacity(next.capacity) \in Nat
    BY <1>1, SoundParts, ItemCapacities
  <2> QED
    BY <1>1, <2>1 DEF RehashInv, HasRoom
<1>3. next.capacity >= 2
  BY <1>1, <1>2, ItemCapacities DEF Sound, HasRoom
<1>4. ASSUME Len(next.items) < Len(object.items)
      PROVE  /\ object.items[Len(next.items) + 1] \in Items
             /\ ~Holds(next, object.items[Len(next.items) + 1].name)
  <2> DEFINE p == Len(next.items) + 1
  <2>1. p \in 1..Len(object.items)
    BY <1>1, <1>4
  <2>2. ASSUME NEW i \in 1..Len(next.items), next.items[i].name = object.items[p].name PROVE FALSE
    <3>1. i \in 1..Len(object.items) /\ i # p
      BY <1>1, <1>4
    <3>2. object.items[i].name = object.items[p].name
      BY <1>1, <2>2 DEF RehashInv
    <3> QED
      BY <1>1, <2>1, <3>1, <3>2 DEF Sound, OneItem
  <2>3. object.items[p] \in Items
    BY <1>1, <2>1, SoundParts
  <2> QED
    BY <2>2, <2>3 DEF Holds
<1>5. adding \in Items
  BY AddingIsItem
<1>6. ~Holds(next, adding.name)
  BY <1>1 DEF RehashInv, Holds
<1> QED
  BY <1>2, <1>3, <1>4, <1>5, <1>6
-----------------------------------------------------------------------------
(* json_object_make. *)
LEMMA InitHolds == Init => ObjectInv
<1> SUFFICES ASSUME Init PROVE ObjectInv
  OBVIOUS
<1>1. Sound(Table(0))
  BY TableIsSound
<1>2. TablesInv
  BY <1>1 DEF TablesInv, Init
<1>3. TypeOK
  <2>1. TablesOK(object) /\ TablesOK(next)
    BY <1>1 DEF Init, Sound
  <2>2. answer \in [op : {"make", "add", "get", "at", "free"},
                    name : Names \cup {None}, value : Values \cup {None}]
    BY DEF Init, Answer
  <2>3. blocks \subseteq {Object} \cup (Arrays \X Nat) \cup ({"key", "value"} \X Values)
    BY DEF Init
  <2> QED
    BY <2>1, <2>2, <2>3 DEF TypeOK, Init
<1>4. AddingInv
  BY DEF AddingInv, Init
<1>5. BlocksInv
  <2>1. Tables(Table(0)) = {} /\ ItemBlocks(Table(0)) = {}
    BY DEF Tables, ItemBlocks, Table
  <2> QED
    BY <2>1 DEF BlocksInv, Owned, AddingBlocks, Init
<1> QED
  BY <1>2, <1>3, <1>4, <1>5 DEF ObjectInv

(* Every step keeps the two objects sound.                                 *)
LEMMA TablesStep == ObjectInv /\ [Next]_vars => TablesInv'
<1> SUFFICES ASSUME ObjectInv, [Next]_vars PROVE TablesInv'
  OBVIOUS
<1>1. TypeOK /\ TablesInv /\ Sound(object) /\ Sound(next)
  BY DEF ObjectInv, TablesInv
<1>2. Sound(Table(0))
  BY TableIsSound
<1>3. CASE AddHere
  <2>1. adding \in Items /\ adding.name \in Names
    BY <1>1, <1>3, AddingIsItem DEF AddHere, Items
  <2>2. ~Holds(object, adding.name)
    BY <1>1, <1>3, <2>1, FoundIsHeld DEF AddHere
  <2>3. object.capacity >= 2
    BY <1>1, <1>3, <2>1, <2>2, FreeCellToStore DEF AddHere
  <2>4. Sound(Inserted(object, adding))
    BY <1>1, <1>3, <2>1, <2>2, <2>3, InsertedIsSound DEF AddHere
  <2> QED
    BY <1>1, <1>3, <2>4 DEF AddHere, Returns, TablesInv
<1>4. CASE Grow
  <2>1. adding \in Items /\ adding.name \in Names
    BY <1>1, <1>4, AddingIsItem DEF Grow, Items
  <2>2. ~Holds(object, adding.name)
    BY <1>1, <1>4, <2>1, FoundIsHeld DEF Grow
  <2>3. /\ NewCapacity(object) \in Nat /\ NewCapacity(object) >= 2
        /\ Len(object.items) < ItemCapacity(NewCapacity(object))
    BY <1>1, <1>4, Grows DEF Grow
  <2>4. next' = Table(NewCapacity(object)) /\ object' = object /\ adding' = adding /\ step' = "rehash"
    BY <1>4 DEF Grow
  <2>5. Sound(next')
    BY <2>3, <2>4, TableIsSound
  <2>6. next'.capacity = NewCapacity(object) /\ Len(next'.items) = 0
    BY <2>4 DEF Table
  <2>7. RehashInv'
    <3>1. Len(object.items) \in Nat
      BY <1>1, SoundParts
    <3> QED
      BY <2>2, <2>3, <2>4, <2>6, <3>1 DEF RehashInv
  <2> QED
    BY <1>1, <2>4, <2>5, <2>7 DEF TablesInv
<1>5. CASE Rehash
  <2> DEFINE p == Len(next.items) + 1
             item == object.items[p]
  <2>1. /\ HasRoom(next) /\ next.capacity >= 2
        /\ item \in Items /\ ~Holds(next, item.name)
    BY <1>1, <1>5, RehashStores DEF Rehash
  <2>2. Sound(Inserted(next, item))
    BY <1>1, <2>1, InsertedIsSound
  <2>3. next' = Inserted(next, item) /\ object' = object /\ adding' = adding /\ step' = "rehash"
    BY <1>5 DEF Rehash
  <2>4. /\ next'.capacity = next.capacity
        /\ Len(next'.items) = p
        /\ \A i \in 1..Len(next.items) : next'.items[i] = next.items[i]
        /\ next'.items[p] = item
    BY <1>1, <2>1, <2>3, InsertedParts
  <2>5. RehashInv /\ Len(next.items) \in Nat /\ Len(object.items) \in Nat /\ p <= Len(object.items)
    <3>1. Len(next.items) \in Nat /\ Len(object.items) \in Nat
      BY <1>1, SoundParts
    <3> QED
      BY <1>1, <1>5, <3>1 DEF TablesInv, Rehash
  <2>6. \A i \in 1..p : next'.items[i] = object.items[i]
    <3> SUFFICES ASSUME NEW i \in 1..p PROVE next'.items[i] = object.items[i]
      OBVIOUS
    <3>1. CASE i = p
      BY <2>4, <3>1
    <3>2. CASE i # p
      <4>1. i \in 1..Len(next.items)
        BY <2>5, <3>2
      <4> QED
        BY <2>4, <2>5, <4>1 DEF RehashInv
    <3> QED
      BY <3>1, <3>2
  <2>7. RehashInv'
    BY <2>3, <2>4, <2>5, <2>6 DEF RehashInv
  <2> QED
    BY <1>1, <2>2, <2>3, <2>7 DEF TablesInv
<1>6. CASE Grown
  <2>1. HasRoom(next) /\ next.capacity >= 2 /\ adding \in Items /\ ~Holds(next, adding.name)
    BY <1>1, <1>6, RehashStores DEF Grown
  <2>2. Sound(Inserted(next, adding))
    BY <1>1, <2>1, InsertedIsSound
  <2> QED
    BY <1>2, <1>6, <2>2 DEF Grown, Returns, TablesInv
<1>7. CASE Free
  BY <1>1, <1>2, <1>7 DEF Free, TablesInv
<1>8. ASSUME UNCHANGED <<object, next, adding>>, step # "rehash", step' # "rehash"
      PROVE  TablesInv'
  BY <1>1, <1>8 DEF TablesInv
<1>9. CASE \E n \in Names, v \in Values : Add(n, v)
  BY <1>1, <1>9 DEF Add, TablesInv
<1>10. CASE AddFound \/ GrowFails
  BY <1>1, <1>10 DEF AddFound, GrowFails, Returns, TablesInv
<1>11. CASE \/ \E n \in Names : Get(n)
            \/ \E i \in DOMAIN object.items : GetAt(i)
            \/ GetPastTheEnd
  BY <1>8, <1>11 DEF Get, GetAt, GetPastTheEnd, Looked
<1>12. CASE UNCHANGED vars
  BY <1>1, <1>12 DEF vars, TablesInv, RehashInv
<1> QED
  BY <1>3, <1>4, <1>5, <1>6, <1>7, <1>9, <1>10, <1>11, <1>12 DEF Next

(* The value that is being added is no item's. *)
LEMMA AddingStep == ObjectInv /\ [Next]_vars => AddingInv'
<1> SUFFICES ASSUME ObjectInv, [Next]_vars PROVE AddingInv'
  OBVIOUS
<1>1. TypeOK /\ AddingInv /\ DOMAIN object.items = 1..Len(object.items)
  BY SoundParts DEF ObjectInv, TablesInv
<1>2. ASSUME NEW n \in Names, NEW v \in Values, Add(n, v) PROVE AddingInv'
  <2>1. adding'.value = v /\ object' = object
    BY <1>2 DEF Add, Item
  <2>2. \A i \in 1..Len(object.items) : object.items[i].value # v
    BY <1>1, <1>2 DEF Add
  <2> QED
    BY <2>1, <2>2 DEF AddingInv
<1>3. CASE AddFound \/ AddHere \/ GrowFails \/ Grown
  BY <1>3 DEF AddFound, AddHere, GrowFails, Grown, Returns, AddingInv
<1>4. CASE Grow \/ Rehash
  BY <1>1, <1>4 DEF Grow, Rehash, AddingInv
<1>5. CASE Free
  <2>1. adding' = NoItem
    BY <1>1, <1>5, AddingIsItem DEF Free
  <2> QED
    BY <2>1 DEF AddingInv
<1>6. CASE \/ \E n \in Names : Get(n)
           \/ \E i \in DOMAIN object.items : GetAt(i)
           \/ GetPastTheEnd
  BY <1>1, <1>6 DEF Get, GetAt, GetPastTheEnd, Looked, AddingInv
<1>7. CASE UNCHANGED vars
  BY <1>1, <1>7 DEF vars, AddingInv
<1> QED
  BY <1>2, <1>3, <1>4, <1>5, <1>6, <1>7 DEF Next

(* Blocks of different kinds are different. *)
LEMMA BlockTags ==
  /\ Object[1] = "object"
  /\ \A table : \A b \in Tables(table) : b[1] \in Arrays /\ b[2] = table.capacity
  /\ \A item : \A b \in KeyAndValue(item) : b[1] \in {"key", "value"} /\ b[2] = item.value
  /\ \A table : \A b \in ItemBlocks(table) :
       b[1] \in {"key", "value"} /\ \E i \in DOMAIN table.items : b[2] = table.items[i].value
<1>1. Object[1] = "object"
  BY DEF Object
<1>2. \A table : \A b \in Tables(table) : b[1] \in Arrays /\ b[2] = table.capacity
  BY DEF Tables
<1>3. \A item : \A b \in KeyAndValue(item) : b[1] \in {"key", "value"} /\ b[2] = item.value
  BY DEF KeyAndValue
<1>4. ASSUME NEW table, NEW b \in ItemBlocks(table)
      PROVE  b[1] \in {"key", "value"} /\ \E i \in DOMAIN table.items : b[2] = table.items[i].value
  <2>1. PICK i \in DOMAIN table.items : b \in KeyAndValue(table.items[i])
    BY DEF ItemBlocks
  <2> QED
    BY <1>3, <2>1
<1> QED
  BY <1>1, <1>2, <1>3, <1>4

(* The key and the value under way are nobody else's. *)
LEMMA AddingApart ==
  ASSUME TypeOK, TablesInv, AddingInv, adding # NoItem,
         NEW S, S \subseteq {Object} \cup Tables(object) \cup ItemBlocks(object) \cup Tables(next)
  PROVE  S \cap KeyAndValue(adding) = {}
<1> SUFFICES ASSUME NEW b \in S, b \in KeyAndValue(adding) PROVE FALSE
  OBVIOUS
<1>1. b[1] \in {"key", "value"} /\ b[2] = adding.value
  BY BlockTags
<1>2. b # Object /\ b \notin Tables(object) /\ b \notin Tables(next)
  <2>1. "object" \notin {"key", "value"} /\ Arrays \cap {"key", "value"} = {}
    BY DEF Arrays
  <2> QED
    BY <1>1, <2>1, BlockTags
<1>3. PICK i \in DOMAIN object.items : b[2] = object.items[i].value
  BY <1>2, BlockTags
<1>4. i \in 1..Len(object.items)
  BY <1>3, SoundParts DEF TablesInv
<1> QED
  BY <1>1, <1>3, <1>4 DEF AddingInv

(* The tables of an object are nobody else's. *)
LEMMA TablesApart ==
  ASSUME NEW table, NEW other, other.capacity # table.capacity
  PROVE  Tables(table) \cap ({Object} \cup ItemBlocks(object) \cup Tables(other)
                               \cup KeyAndValue(adding)) = {}
<1> SUFFICES ASSUME NEW b \in Tables(table),
                    b \in {Object} \cup ItemBlocks(object) \cup Tables(other) \cup KeyAndValue(adding)
             PROVE  FALSE
  OBVIOUS
<1>1. b[1] \in Arrays /\ b[2] = table.capacity
  BY BlockTags
<1>2. "object" \notin Arrays /\ "key" \notin Arrays /\ "value" \notin Arrays
  BY DEF Arrays
<1> QED
  BY <1>1, <1>2, BlockTags

(* An inserted item brings its key and its value. *)
LEMMA InsertedBlocks ==
  ASSUME NEW table, Sound(table), NEW item \in Items
  PROVE  /\ ItemBlocks(Inserted(table, item)) = ItemBlocks(table) \cup KeyAndValue(item)
         /\ Tables(Inserted(table, item)) = Tables(table)
<1> DEFINE new == Inserted(table, item)
<1>1. /\ new.capacity = table.capacity
      /\ new.items = Append(table.items, item)
      /\ \A i \in 1..Len(table.items) : new.items[i] = table.items[i]
      /\ new.items[Len(table.items) + 1] = item
  BY InsertedParts
<1>2. /\ DOMAIN table.items = 1..Len(table.items)
      /\ DOMAIN new.items = 1..(Len(table.items) + 1)
      /\ Len(table.items) \in Nat
  <2>1. table.items \in Seq(Items) /\ Len(table.items) \in Nat
    BY SoundParts DEF Sound, TablesOK
  <2>2. new.items \in Seq(Items) /\ Len(new.items) = Len(table.items) + 1
    BY <1>1, <2>1, AppendProperties
  <2> QED
    BY <2>1, <2>2, LenProperties
<1>3. DOMAIN new.items = DOMAIN table.items \cup {Len(table.items) + 1}
  BY <1>2
<1> HIDE DEF new
<1>4. ItemBlocks(new) = ItemBlocks(table) \cup KeyAndValue(item)
  BY <1>1, <1>2, <1>3 DEF ItemBlocks
<1>5. Tables(new) = Tables(table)
  BY <1>1 DEF Tables
<1> QED
  BY <1>4, <1>5 DEF new

(* Every block keeps one owner, and only its owner frees it.               *)
LEMMA BlocksStep == ObjectInv /\ [Next]_vars => BlocksInv'
<1> SUFFICES ASSUME ObjectInv, [Next]_vars PROVE BlocksInv'
  OBVIOUS
<1> DEFINE Rest == {Object} \cup Tables(object) \cup ItemBlocks(object)
           KV == KeyAndValue(adding)
<1>1. TypeOK /\ TablesInv /\ AddingInv /\ Sound(object) /\ Sound(next)
  BY DEF ObjectInv, TablesInv
<1>2. ~wildFree /\ (step # "freed" => blocks = Owned) /\ (step = "freed" => blocks = {})
  BY DEF ObjectInv, BlocksInv
<1>3. Tables(Table(0)) = {} /\ ItemBlocks(Table(0)) = {}
  BY DEF Tables, ItemBlocks, Table
<1>4. /\ step \in {"find", "rehash"} => adding \in Items /\ adding # NoItem
      /\ step \in {"ready", "freed"} => adding = NoItem
  BY <1>1, AddingIsItem
<1>5. step # "rehash" => next = Table(0)
  BY <1>1 DEF TablesInv
<1>6. step = "find" => blocks = Rest \cup KV /\ Rest \cap KV = {}
  <2> SUFFICES ASSUME step = "find" PROVE blocks = Rest \cup KV /\ Rest \cap KV = {}
    OBVIOUS
  <2>1. Tables(next) = {}
    BY <1>3, <1>5
  <2>2. AddingBlocks = KV
    BY <1>4 DEF AddingBlocks
  <2>3. Rest \cap KV = {}
    BY <1>1, <1>4, AddingApart
  <2> QED
    BY <1>2, <2>1, <2>2, <2>3 DEF Owned
<1>7. step = "ready" => blocks = Rest
  BY <1>2, <1>3, <1>4, <1>5 DEF Owned, AddingBlocks
<1>8. ASSUME NEW n \in Names, NEW v \in Values, Add(n, v) PROVE BlocksInv'
  <2>1. /\ blocks' = blocks \cup KeyAndValue(adding')
        /\ step' = "find" /\ adding' = Item(n, v)
        /\ UNCHANGED <<object, next, wildFree>>
    BY <1>8 DEF Add
  <2>2. adding' # NoItem
    BY <2>1, ObjectAssumption DEF NoItem, Item
  <2>3. Tables(next) = {} /\ blocks = Rest
    BY <1>3, <1>5, <1>7, <1>8 DEF Add
  <2>4. Owned' = Rest \cup KeyAndValue(adding')
    BY <2>1, <2>2, <2>3 DEF Owned, AddingBlocks
  <2> QED
    BY <1>2, <2>1, <2>3, <2>4 DEF BlocksInv
<1>9. CASE AddFound
  <2>1. /\ blocks' = blocks \ KV /\ wildFree' = (wildFree \/ ~(KV \subseteq blocks))
        /\ step' = "ready" /\ adding' = NoItem
        /\ UNCHANGED <<object, next>>
    BY <1>9 DEF AddFound, Returns, AllocAndFree
  <2>2. blocks = Rest \cup KV /\ Rest \cap KV = {} /\ Tables(next) = {}
    BY <1>3, <1>5, <1>6, <1>9 DEF AddFound
  <2>3. Owned' = Rest
    BY <2>1, <2>2 DEF Owned, AddingBlocks
  <2> QED
    BY <1>2, <2>1, <2>2, <2>3 DEF BlocksInv
<1>10. CASE AddHere
  <2>1. /\ object' = Inserted(object, adding)
        /\ step' = "ready" /\ adding' = NoItem
        /\ UNCHANGED <<next, blocks, wildFree>>
    BY <1>10 DEF AddHere, Returns
  <2>2. blocks = Rest \cup KV /\ Tables(next) = {} /\ adding \in Items
    BY <1>3, <1>4, <1>5, <1>6, <1>10 DEF AddHere
  <2>3. ItemBlocks(object') = ItemBlocks(object) \cup KV /\ Tables(object') = Tables(object)
    BY <1>1, <2>1, <2>2, InsertedBlocks
  <2>4. Owned' = Rest \cup KV
    BY <2>1, <2>2, <2>3 DEF Owned, AddingBlocks
  <2> QED
    BY <1>2, <2>1, <2>2, <2>4 DEF BlocksInv
<1>11. CASE Grow
  <2>1. /\ blocks' = (blocks \cup Tables(next')) \ {}
        /\ wildFree' = (wildFree \/ ~({} \subseteq blocks \cup Tables(next')))
        /\ step' = "rehash"
        /\ UNCHANGED <<object, adding>>
    BY <1>11 DEF Grow, AllocAndFree
  <2>2. blocks = Rest \cup KV
    BY <1>6, <1>11 DEF Grow
  <2>3. Owned' = Rest \cup Tables(next') \cup KV
    BY <1>4, <1>11, <2>1 DEF Owned, AddingBlocks, Grow
  <2> QED
    BY <1>2, <2>1, <2>2, <2>3 DEF BlocksInv
<1>12. CASE GrowFails
  <2> DEFINE new == Table(NewCapacity(object))
  <2>1. PICK refused \in SUBSET Tables(new) :
          AllocAndFree(Tables(new) \ refused, (GivenBack(new) \ refused) \cup KV)
    BY <1>12 DEF GrowFails
  <2>2. /\ step' = "ready" /\ adding' = NoItem
        /\ UNCHANGED <<object, next>>
    BY <1>12 DEF GrowFails, Returns
  <2>3. blocks = Rest \cup KV /\ Rest \cap KV = {} /\ Tables(next) = {}
    BY <1>3, <1>5, <1>6, <1>12 DEF GrowFails
  <2>4. Rest \cap Tables(new) = {}
    <3>1. NewCapacity(object) # object.capacity
      BY <1>1, <1>12, Grows DEF GrowFails
    <3>2. new.capacity = NewCapacity(object)
      BY DEF Table
    <3> HIDE DEF new
    <3>3. Tables(new) \cap Rest = {}
      BY <3>1, <3>2, TablesApart
    <3> QED
      BY <3>3
  <2> HIDE DEF new, Rest, KV
  <2>5. /\ blocks' = (blocks \cup (Tables(new) \ refused)) \ ((Tables(new) \ refused) \cup KV)
        /\ wildFree' = (wildFree \/
             ~((Tables(new) \ refused) \cup KV \subseteq blocks \cup (Tables(new) \ refused)))
    BY <2>1 DEF AllocAndFree, GivenBack
  <2>6. blocks' = Rest
    BY <2>3, <2>4, <2>5
  <2>7. ~wildFree'
    BY <1>2, <2>3, <2>5
  <2>8. Owned' = Rest
    BY <2>2, <2>3 DEF Owned, AddingBlocks, Rest
  <2> QED
    BY <2>2, <2>6, <2>7, <2>8 DEF BlocksInv
<1>13. CASE Rehash
  <2>1. /\ next' = Inserted(next, object.items[Len(next.items) + 1])
        /\ step = "rehash"
        /\ UNCHANGED <<step, object, adding, blocks, wildFree>>
    BY <1>13 DEF Rehash
  <2>2. Tables(next') = Tables(next)
    BY <2>1 DEF Tables, Inserted
  <2>3. Owned' = Owned
    BY <2>1, <2>2 DEF Owned, AddingBlocks, KeyAndValue, ItemBlocks
  <2> QED
    BY <1>2, <2>1, <2>3 DEF BlocksInv
<1>14. CASE Grown
  <2>1. /\ object' = Inserted(next, adding) /\ next' = Table(0)
        /\ blocks' = blocks \ Tables(object)
        /\ wildFree' = (wildFree \/ ~(Tables(object) \subseteq blocks))
        /\ step' = "ready" /\ adding' = NoItem
        /\ step = "rehash"
    BY <1>14 DEF Grown, Returns, AllocAndFree
  <2>2. adding \in Items /\ adding # NoItem /\ RehashInv
    BY <1>1, <1>4, <2>1 DEF TablesInv
  <2>3. blocks = Rest \cup Tables(next) \cup KV
    BY <1>2, <2>1, <2>2 DEF Owned, AddingBlocks
  <2>4. Tables(object') = Tables(next) /\ ItemBlocks(object') = ItemBlocks(next) \cup KV
    BY <1>1, <2>1, <2>2, InsertedBlocks
  <2>5. ItemBlocks(next) = ItemBlocks(object)
    <3>1. /\ DOMAIN next.items = DOMAIN object.items
          /\ \A i \in DOMAIN next.items : next.items[i] = object.items[i]
      BY <1>1, <1>14, <2>2, SoundParts DEF Grown, RehashInv
    <3> QED
      BY <3>1 DEF ItemBlocks
  <2>6. next.capacity # object.capacity
    <3>1. next.capacity = NewCapacity(object) /\ object.capacity \in Nat
      BY <1>1, <2>2, SoundParts DEF RehashInv
    <3> QED
      BY <3>1, ObjectAssumption DEF NewCapacity
  <2>7. Tables(object) \cap ({Object} \cup ItemBlocks(object) \cup Tables(next) \cup KV) = {}
    BY <2>6, TablesApart
  <2>8. Owned' = {Object} \cup Tables(next) \cup ItemBlocks(object) \cup KV
    BY <1>3, <2>1, <2>4, <2>5 DEF Owned, AddingBlocks
  <2> HIDE DEF KV
  <2>9. blocks' = {Object} \cup Tables(next) \cup ItemBlocks(object) \cup KV
    BY <2>1, <2>3, <2>7
  <2>10. ~wildFree'
    BY <1>2, <2>1, <2>3
  <2> QED
    BY <2>1, <2>8, <2>9, <2>10 DEF BlocksInv
<1>15. CASE Free
  <2>1. blocks = Rest
    BY <1>7, <1>15 DEF Free
  <2> QED
    BY <1>2, <1>15, <2>1 DEF Free, AllocAndFree, BlocksInv
<1>16. ASSUME UNCHANGED <<step, object, next, adding, blocks, wildFree>> PROVE BlocksInv'
  <2>1. Owned' = Owned
    BY <1>16 DEF Owned, AddingBlocks, KeyAndValue, ItemBlocks, Tables
  <2> QED
    BY <1>2, <1>16, <2>1 DEF BlocksInv
<1>17. CASE \/ \E n \in Names : Get(n)
            \/ \E i \in DOMAIN object.items : GetAt(i)
            \/ GetPastTheEnd
  BY <1>16, <1>17 DEF Get, GetAt, GetPastTheEnd, Looked
<1>18. CASE UNCHANGED vars
  BY <1>16, <1>18 DEF vars
<1> QED
  BY <1>8, <1>9, <1>10, <1>11, <1>12, <1>13, <1>14, <1>15, <1>17, <1>18 DEF Next

(* A name that is found is found at its item.                              *)
LEMMA FoundAtItem ==
  ASSUME NEW table, Sound(table), NEW n \in Names, Found(table, n)
  PROVE  /\ table.cells[CellIx(table, n)] \in 1..Len(table.items)
         /\ table.items[table.cells[CellIx(table, n)]].name = n
<1>1. table.capacity >= 2
  <2>1. table.capacity # 0
    BY DEF Found, Stops
  <2> QED
    BY <2>1 DEF Sound
<1> QED
  BY <1>1, CellIsFreeOrName DEF Found

(* What a lookup answers has its type. *)
AnswerOK ==
  answer \in [op : {"make", "add", "get", "at", "free"},
              name : Names \cup {None}, value : Values \cup {None}]

LEMMA AnswerStep == ObjectInv /\ [Next]_vars => AnswerOK'
<1> SUFFICES ASSUME ObjectInv, [Next]_vars PROVE AnswerOK'
  OBVIOUS
<1>1. TypeOK /\ Sound(object) /\ AnswerOK
  BY DEF ObjectInv, TablesInv, TypeOK, AnswerOK
<1>2. ASSUME NEW op \in {"make", "add", "get", "at", "free"},
             NEW n \in Names \cup {None}, NEW v \in Values \cup {None},
             answer' = Answer(op, n, v)
      PROVE  AnswerOK'
  BY <1>2 DEF AnswerOK, Answer
<1>3. ASSUME NEW v \in Values \cup {None}, answer' = Answer("add", adding.name, v), adding \in Items
      PROVE  AnswerOK'
  BY <1>2, <1>3 DEF Items
<1>4. CASE AddFound \/ GrowFails
  <2>1. answer' = Answer("add", adding.name, None) /\ adding \in Items
    BY <1>1, <1>4, AddingIsItem DEF AddFound, GrowFails, Returns
  <2> QED
    BY <1>3, <2>1
<1>5. CASE AddHere \/ Grown
  <2>1. answer' = Answer("add", adding.name, adding.value) /\ adding \in Items
    BY <1>1, <1>5, AddingIsItem DEF AddHere, Grown, Returns
  <2>2. adding.value \in Values
    BY <2>1 DEF Items
  <2> QED
    BY <1>3, <2>1, <2>2
<1>6. ASSUME NEW n \in Names, Get(n) PROVE AnswerOK'
  <2>1. CASE Found(object, n)
    <3>1. answer' = Answer("get", n, object.items[object.cells[CellIx(object, n)]].value)
      BY <1>6, <2>1 DEF Get, Looked
    <3>2. object.items[object.cells[CellIx(object, n)]] \in Items
      BY <1>1, <2>1, FoundAtItem, SoundParts
    <3>3. object.items[object.cells[CellIx(object, n)]].value \in Values
      BY <3>2 DEF Items
    <3> QED
      BY <1>2, <3>1, <3>3
  <2>2. CASE ~Found(object, n)
    <3>1. answer' = Answer("get", n, None)
      BY <1>6, <2>2 DEF Get, Looked
    <3> QED
      BY <1>2, <3>1
  <2> QED
    BY <2>1, <2>2
<1>7. ASSUME NEW i \in DOMAIN object.items, GetAt(i) PROVE AnswerOK'
  <2>1. object.items[i] \in Items
    BY <1>1, SoundParts
  <2>2. object.items[i].name \in Names /\ object.items[i].value \in Values
    BY <2>1 DEF Items
  <2>3. answer' = Answer("at", object.items[i].name, object.items[i].value)
    BY <1>7 DEF GetAt, Looked
  <2> QED
    BY <1>2, <2>2, <2>3
<1>8. CASE GetPastTheEnd
  <2>1. answer' = Answer("at", None, None)
    BY <1>8 DEF GetPastTheEnd, Looked
  <2> QED
    BY <1>2, <2>1
<1>9. CASE Free
  <2>1. answer' = Answer("free", None, None)
    BY <1>9 DEF Free
  <2> QED
    BY <1>2, <2>1
<1>10. CASE Grow \/ Rehash \/ (\E n \in Names, v \in Values : Add(n, v)) \/ UNCHANGED vars
  <2>1. answer' = answer
    BY <1>10 DEF Grow, Rehash, Add, vars
  <2> QED
    BY <1>1, <2>1 DEF AnswerOK
<1> QED
  BY <1>4, <1>5, <1>6, <1>7, <1>8, <1>9, <1>10 DEF Next

(* Every step keeps the types. *)
LEMMA TypeStep == ObjectInv /\ [Next]_vars => TypeOK'
<1> SUFFICES ASSUME ObjectInv, [Next]_vars PROVE TypeOK'
  OBVIOUS
<1>1. TypeOK /\ TablesInv' /\ BlocksInv' /\ AnswerOK'
  BY TablesStep, BlocksStep, AnswerStep DEF ObjectInv
<1>2. TablesOK(object)' /\ TablesOK(next)'
  BY <1>1 DEF TablesInv, Sound
<1>3. /\ step' \in {"ready", "find", "rehash", "freed"}
      /\ adding' \in Items \cup {NoItem}
      /\ (adding' = NoItem) <=> step' \in {"ready", "freed"}
  <2>1. /\ step \in {"find", "rehash"} => adding \in Items /\ adding # NoItem
        /\ step \in {"ready", "freed"} => adding = NoItem
        /\ step \in {"ready", "find", "rehash", "freed"}
    BY <1>1, AddingIsItem DEF TypeOK
  <2>2. ASSUME NEW n \in Names, NEW v \in Values, Add(n, v)
        PROVE  step' = "find" /\ adding' \in Items /\ adding' # NoItem
    <3>1. step' = "find" /\ adding' = Item(n, v)
      BY <2>2 DEF Add
    <3>2. Item(n, v) \in Items
      BY DEF Item, Items
    <3>3. Item(n, v) # NoItem
      BY ObjectAssumption DEF Item, NoItem
    <3> QED
      BY <3>1, <3>2, <3>3
  <2>3. CASE AddFound \/ AddHere \/ GrowFails \/ Grown
    <3>1. step' = "ready" /\ adding' = NoItem
      BY <2>3 DEF AddFound, AddHere, GrowFails, Grown, Returns
    <3> QED
      BY <3>1
  <2>4. CASE Grow \/ Rehash
    <3>1. step \in {"find", "rehash"} /\ step' = "rehash" /\ adding' = adding
      BY <2>4 DEF Grow, Rehash
    <3> QED
      BY <2>1, <3>1
  <2>5. CASE Free
    <3>1. step = "ready" /\ step' = "freed" /\ adding' = adding
      BY <2>5 DEF Free
    <3> QED
      BY <2>1, <3>1
  <2>6. CASE \/ \E n \in Names : Get(n)
             \/ \E i \in DOMAIN object.items : GetAt(i)
             \/ GetPastTheEnd
             \/ UNCHANGED vars
    <3>1. step' = step /\ adding' = adding
      BY <2>6 DEF Get, GetAt, GetPastTheEnd, Looked, vars
    <3> QED
      BY <2>1, <3>1
  <2> QED
    BY <2>1, <2>2, <2>3, <2>4, <2>5, <2>6 DEF Next
<1>4. short' \in BOOLEAN
  BY <1>1 DEF TypeOK, Next, Add, AddFound, AddHere, Grow, GrowFails, Rehash, Grown, Returns, Get,
              GetAt, GetPastTheEnd, Looked, Free, vars
<1>5. wildFree' \in BOOLEAN
  <2>1. (\E new, ids : AllocAndFree(new, ids)) \/ wildFree' = wildFree
    BY DEF Next, Add, AddFound, AddHere, Grow, GrowFails, Rehash, Grown, Get, GetAt,
           GetPastTheEnd, Looked, Free, vars
  <2> QED
    BY <1>1, <2>1 DEF TypeOK, AllocAndFree
<1>6. blocks' \subseteq {Object} \cup (Arrays \X Nat) \cup ({"key", "value"} \X Values)
  <2>1. /\ object'.capacity \in Nat /\ next'.capacity \in Nat
        /\ \A i \in DOMAIN object'.items : object'.items[i] \in Items
    <3>1. Sound(object') /\ Sound(next')
      BY <1>1 DEF TablesInv
    <3> QED
      BY <3>1, SoundParts
  <2>2. \A t : t.capacity \in Nat => Tables(t) \subseteq Arrays \X Nat
    BY DEF Tables
  <2>3. \A item \in Items : KeyAndValue(item) \subseteq {"key", "value"} \X Values
    BY DEF KeyAndValue, Items
  <2>4. ItemBlocks(object') \subseteq {"key", "value"} \X Values
    BY <2>1, <2>3 DEF ItemBlocks
  <2>5. AddingBlocks' \subseteq {"key", "value"} \X Values
    BY <1>3, <2>3 DEF AddingBlocks
  <2>6. Owned' \subseteq {Object} \cup (Arrays \X Nat) \cup ({"key", "value"} \X Values)
    BY <2>1, <2>2, <2>4, <2>5 DEF Owned
  <2> QED
    BY <1>1, <2>6 DEF BlocksInv
<1> QED
  BY <1>1, <1>2, <1>3, <1>4, <1>5, <1>6 DEF TypeOK, AnswerOK
-----------------------------------------------------------------------------
(* The inductive invariant: both objects are sound, the new one of a       *)
(* growth holds the first items of the old one, and every live block has   *)
(* one owner.                                                              *)
THEOREM ObjectInvariant == Spec => []ObjectInv
<1>1. ObjectInv /\ [Next]_vars => ObjectInv'
  BY TypeStep, TablesStep, AddingStep, BlocksStep DEF ObjectInv
<1>2. QED
  BY InitHolds, <1>1, PTL DEF Spec

(* The variables of json_object_add and the two objects keep their types;  *)
(* the cells point at items.                                               *)
THEOREM TypeCorrect == Spec => []TypeOK
<1>1. ObjectInv => TypeOK
  BY DEF ObjectInv
<1>2. QED
  BY <1>1, ObjectInvariant, PTL

(* json_object_get_cell_ix ends at a free cell whenever json_object_add    *)
(* stores an item there, for any hash function: the write is never out of  *)
(* bounds, and no addition of a growth fails or grows the object again.    *)
THEOREM StoresFit == Spec => []InsertsFit
<1>1. ASSUME ObjectInv PROVE InsertsFit
  <2>1. TypeOK /\ TablesInv /\ Sound(object) /\ Sound(next)
    BY <1>1 DEF ObjectInv, TablesInv
  <2>2. ASSUME step = "find", ~Found(object, adding.name), HasRoom(object)
        PROVE  StoresInFreeCell(object, adding.name)
    <3>1. adding.name \in Names
      BY <2>1, <2>2, AddingIsItem DEF Items
    <3>2. ~Holds(object, adding.name)
      BY <2>1, <2>2, <3>1, FoundIsHeld
    <3> QED
      BY <2>1, <2>2, <3>1, <3>2, FreeCellToStore
  <2>3. ASSUME step = "rehash", Len(next.items) < Len(object.items)
        PROVE  StoresInFreeCell(next, object.items[Len(next.items) + 1].name)
    <3>1. /\ HasRoom(next)
          /\ object.items[Len(next.items) + 1] \in Items
          /\ ~Holds(next, object.items[Len(next.items) + 1].name)
      BY <2>1, <2>3, RehashStores
    <3>2. object.items[Len(next.items) + 1].name \in Names
      BY <3>1 DEF Items
    <3> QED
      BY <2>1, <3>1, <3>2, FreeCellToStore
  <2>4. ASSUME step = "rehash" PROVE StoresInFreeCell(next, adding.name)
    <3>1. HasRoom(next) /\ adding \in Items /\ ~Holds(next, adding.name)
      BY <2>1, <2>4, RehashStores
    <3>2. adding.name \in Names
      BY <3>1 DEF Items
    <3> QED
      BY <2>1, <3>1, <3>2, FreeCellToStore
  <2> QED
    BY <2>2, <2>3, <2>4 DEF InsertsFit
<1>2. QED
  BY <1>1, ObjectInvariant, PTL

(* Whatever memory is refused, json_object_add and json_object_free leave  *)
(* just the blocks the object owns, and free none twice.                   *)
THEOREM NoLeak == Spec => []OwnsItsBlocks
<1>1. ASSUME ObjectInv PROVE OwnsItsBlocks
  <2>1. ASSUME step = "ready"
        PROVE  blocks = {Object} \cup Tables(object) \cup ItemBlocks(object)
    <3>1. adding = NoItem /\ next = Table(0)
      BY <1>1, <2>1, AddingIsItem DEF ObjectInv, TablesInv
    <3>2. Tables(next) = {}
      BY <3>1 DEF Tables, Table
    <3>3. blocks = Owned
      BY <1>1, <2>1 DEF ObjectInv, BlocksInv
    <3> QED
      BY <3>1, <3>2, <3>3 DEF Owned, AddingBlocks
  <2>2. ~wildFree /\ (step = "freed" => blocks = {})
    BY <1>1 DEF ObjectInv, BlocksInv
  <2> QED
    BY <2>1, <2>2 DEF OwnsItsBlocks
<1>2. QED
  BY <1>1, ObjectInvariant, PTL
-----------------------------------------------------------------------------
(* The hash table as JsonMap sees it: a name is held when it is an entry's. *)
LEMMA HoldsIsMapHolds ==
  ASSUME Sound(object), NEW n \in Names
  PROVE  Map!Holds(n) <=> Found(object, n)
<1>1. DOMAIN object.items = 1..Len(object.items)
  BY SoundParts
<1> QED
  BY <1>1, FoundIsHeld DEF Map!Holds, Holds

(* Every step of json_object_add, of a lookup or of json_object_free is a  *)
(* step of the map, or none of its steps.                                  *)
LEMMA MapStep == ObjectInv /\ [Next]_vars => [Map!Next]_(Map!vars)
<1> SUFFICES ASSUME ObjectInv, [Next]_vars PROVE [Map!Next]_(Map!vars)
  OBVIOUS
<1>1. TypeOK /\ TablesInv /\ Sound(object) /\ Sound(next)
  BY DEF ObjectInv, TablesInv
<1>2. Map!NoCall = NoItem
  BY DEF Map!NoCall, Map!Entry, NoItem, Item
<1>3. \A op, n, v : Map!Answer(op, n, v) = Answer(op, n, v)
  BY DEF Map!Answer, Answer
<1>4. /\ step \in {"find", "rehash"} => adding \in Items /\ adding.name \in Names /\ adding # NoItem
      /\ step \in {"ready", "freed"} => adding = NoItem
  BY <1>1, AddingIsItem DEF Items
<1>5. ASSUME NEW n \in Names, NEW v \in Values, Add(n, v) PROVE Map!Call(n, v)
  <2>1. /\ adding = NoItem /\ adding' = Map!Entry(n, v)
        /\ \A i \in DOMAIN object.items : object.items[i].value # v
        /\ UNCHANGED <<object, answer, short>>
    BY <1>4, <1>5 DEF Add, Map!Entry, Item
  <2> QED
    BY <1>2, <2>1 DEF Map!Call
<1>6. CASE AddFound
  <2>1. /\ adding # NoItem /\ Map!Holds(adding.name)
        /\ adding' = NoItem /\ answer' = Answer("add", adding.name, None) /\ short' = FALSE
        /\ object' = object
    BY <1>1, <1>4, <1>6, HoldsIsMapHolds DEF AddFound, Returns
  <2>2. Map!Present
    BY <1>2, <1>3, <2>1 DEF Map!Present
  <2> QED
    BY <2>2 DEF Map!Next
<1>7. CASE AddHere
  <2>1. /\ adding # NoItem /\ ~Map!Holds(adding.name)
        /\ adding' = NoItem /\ answer' = Answer("add", adding.name, adding.value) /\ short' = FALSE
        /\ object'.items = Append(object.items, adding)
    BY <1>1, <1>4, <1>7, HoldsIsMapHolds DEF AddHere, Returns, Inserted
  <2>2. Map!Added
    BY <1>2, <1>3, <2>1 DEF Map!Added
  <2> QED
    BY <2>2 DEF Map!Next
<1>8. CASE GrowFails
  <2>1. /\ adding # NoItem /\ ~Map!Holds(adding.name)
        /\ adding' = NoItem /\ answer' = Answer("add", adding.name, None) /\ short' = TRUE
        /\ object' = object
    BY <1>1, <1>4, <1>8, HoldsIsMapHolds DEF GrowFails, Returns
  <2>2. Map!OutOfMemory
    BY <1>2, <1>3, <2>1 DEF Map!OutOfMemory
  <2> QED
    BY <2>2 DEF Map!Next
<1>9. CASE Grown
  <2>1. step = "rehash" /\ RehashInv /\ Len(next.items) = Len(object.items)
    BY <1>1, <1>9 DEF Grown, TablesInv
  <2>2. next.items = object.items
    <3>1. next.items \in Seq(Items) /\ object.items \in Seq(Items)
      BY <1>1 DEF Sound, TablesOK
    <3>2. \A i \in 1..Len(next.items) : next.items[i] = object.items[i]
      BY <2>1 DEF RehashInv
    <3> QED
      BY <2>1, <3>1, <3>2, SeqEqual
  <2>3. ~Map!Holds(adding.name)
    BY <1>1, <1>4, <2>1, HoldsIsMapHolds, FoundIsHeld DEF RehashInv
  <2>4. /\ adding # NoItem
        /\ adding' = NoItem /\ answer' = Answer("add", adding.name, adding.value) /\ short' = FALSE
        /\ object'.items = Append(object.items, adding)
    BY <1>4, <1>9, <2>1, <2>2 DEF Grown, Returns, Inserted
  <2>5. Map!Added
    BY <1>2, <1>3, <2>3, <2>4 DEF Map!Added
  <2> QED
    BY <2>5 DEF Map!Next
<1>10. ASSUME NEW n \in Names, Get(n) PROVE Map!Got(n) \/ Map!NotThere(n)
  <2>1. adding = NoItem /\ short' = FALSE /\ UNCHANGED <<object, adding>>
    BY <1>4, <1>10 DEF Get, Looked
  <2>2. CASE Found(object, n)
    <3> DEFINE i == object.cells[CellIx(object, n)]
    <3>1. i \in DOMAIN object.items /\ object.items[i].name = n
      BY <1>1, <2>2, FoundAtItem, SoundParts
    <3>2. answer' = Answer("get", n, object.items[i].value)
      BY <1>10, <2>2 DEF Get, Looked
    <3>3. Map!Holds(n)
      BY <1>1, <2>2, HoldsIsMapHolds
    <3> QED
      BY <1>2, <1>3, <2>1, <3>1, <3>2, <3>3 DEF Map!Got
  <2>3. CASE ~Found(object, n)
    <3>1. answer' = Answer("get", n, None)
      BY <1>10, <2>3 DEF Get, Looked
    <3>2. ~Map!Holds(n)
      BY <1>1, <2>3, HoldsIsMapHolds
    <3> QED
      BY <1>2, <1>3, <2>1, <3>1, <3>2 DEF Map!NotThere
  <2> QED
    BY <2>2, <2>3
<1>11. ASSUME NEW i \in DOMAIN object.items, GetAt(i) PROVE Map!GotAt(i)
  BY <1>2, <1>3, <1>4, <1>11 DEF GetAt, Looked, Map!GotAt
<1>12. CASE GetPastTheEnd
  <2>1. Map!PastTheEnd
    BY <1>2, <1>3, <1>4, <1>12 DEF GetPastTheEnd, Looked, Map!PastTheEnd
  <2> QED
    BY <2>1 DEF Map!Next
<1>13. CASE Free
  <2>1. object'.items = <<>>
    BY <1>13 DEF Free, Table
  <2>2. Map!Emptied
    BY <1>2, <1>3, <1>4, <1>13, <2>1 DEF Free, Map!Emptied
  <2> QED
    BY <2>2 DEF Map!Next
<1>14. CASE Grow \/ Rehash \/ UNCHANGED vars
  BY <1>14 DEF Grow, Rehash, vars, Map!vars
<1>15. CASE \E n \in Names, v \in Values : Add(n, v)
  BY <1>5, <1>15 DEF Map!Next
<1>16. CASE \E n \in Names : Get(n)
  BY <1>10, <1>16 DEF Map!Next
<1>17. CASE \E i \in DOMAIN object.items : GetAt(i)
  BY <1>11, <1>17 DEF Map!Next
<1> QED
  BY <1>6, <1>7, <1>8, <1>9, <1>12, <1>13, <1>14, <1>15, <1>16, <1>17 DEF Next

(* The hash table, its growth and its failures implement a map: an         *)
(* addition takes effect whole or not at all, and lookups find every name  *)
(* that was added with its value.                                          *)
THEOREM Implements == Spec => MapSpec
<1>1. Init => Map!Init
  BY DEF Init, Map!Init, Map!NoCall, Map!Entry, Map!Answer, NoItem, Item, Answer, Table
<1>2. QED
  BY <1>1, MapStep, ObjectInvariant, PTL DEF Spec, MapSpec, Map!Spec
=============================================================================
