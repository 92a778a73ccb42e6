-------------------------- MODULE ConfigFileProofs --------------------------
(***************************************************************************)
(* Proofs about ConfigFile, for files, buffers and configurations of any   *)
(* size, any errors of sceIoRead and any supply of block ids.              *)
(***************************************************************************)
EXTENDS ConfigFile, SequenceTheorems, TLAPS

(* Who owns the live blocks at each step. *)
Configured == Names \cup {endpointsId}
Distinct ==
  /\ endpointsId \in Ids /\ endpointsId \notin Names
  /\ \A i, j \in DOMAIN nameIds : nameIds[i] = nameIds[j] => i = j
OwnerInv ==
  /\ step \in {"open", "alloc", "read", "grow"} => contentsId = 0
  /\ step \in {"open", "alloc"} => Live = {}
  /\ step \in {"read", "grow"} => Live = {buffer} /\ buffer \in Ids
  /\ step \in {"filter", "parse"} => Live = {contentsId} /\ contentsId \in Ids
  /\ step \in {"endpoints", "endpoint", "freeJson"} =>
       /\ {contentsId, jsonId} \subseteq Ids /\ contentsId # jsonId
  /\ step = "endpoints" => Live = {contentsId, jsonId}
  /\ step \in {"endpoint", "freeJson"} /\ result = 0 =>
       /\ Live = {contentsId, jsonId} \cup Configured /\ Distinct
       /\ {contentsId, jsonId} \cap Configured = {}
  /\ step = "freeJson" /\ result # 0 => Live = {contentsId, jsonId}
  /\ step = "release" /\ result = 0 =>
       /\ Live = {contentsId} \cup Configured /\ Distinct
       /\ contentsId \in Ids /\ contentsId \notin Configured
  /\ step = "release" /\ result # 0 => Live = {contentsId} \ {0}
  /\ step = "loaded" => Live = Configured /\ Distinct
  /\ step \in {"failed", "unloaded"} => Live = {}

(* The steps at which no result is set yet, and no name parsed.            *)
ResultInv ==
  /\ step \in {"open", "alloc", "read", "grow", "filter", "parse", "endpoints", "endpoint"} =>
       result = 0
  /\ step \in {"open", "alloc", "read", "grow", "filter", "parse", "endpoints"} =>
       nameIds = <<>>
  /\ step = "loaded" => result = 0
  /\ step \in {"freeJson", "release", "loaded"} /\ result = 0 =>
       Len(nameIds) = count

(* The block holds what has been read, and ends a buffer behind it.        *)
ReadInv ==
  /\ step \in {"open", "alloc"} => file.pos = 0 /\ ~readError
  /\ step \in {"read", "grow"} => ~readError
  /\ step = "read" =>
       /\ contentsSize = blocks[buffer].size
       /\ contentsSize - BufferSize = file.pos
       /\ blocks[buffer].filled = file.pos
  /\ step = "grow" =>
       /\ contentsSize = blocks[buffer].size
       /\ contentsSize = file.pos
       /\ blocks[buffer].filled = file.pos
  /\ step = "undefined" => readError
  /\ WholeText

LoadInv == OwnerInv /\ ResultInv /\ ReadInv /\ FreesLive

-----------------------------------------------------------------------------
(* A longer list of names: the old ones and the new one.                   *)
LEMMA AppendName ==
  ASSUME NEW s \in Seq(Ids), NEW id \in Ids
  PROVE  /\ Append(s, id) \in Seq(Ids) /\ Len(Append(s, id)) = Len(s) + 1
         /\ DOMAIN s = 1..Len(s) /\ Len(s) \in Nat
         /\ DOMAIN Append(s, id) = 1..(Len(s) + 1)
         /\ \A i \in 1..Len(s) : Append(s, id)[i] = s[i]
         /\ Append(s, id)[Len(s) + 1] = id
  BY AppendProperties, LenProperties

(* Blocks stay within their sizes as they come, go and are filled.         *)
LEMMA WithOK ==
  ASSUME NEW f, BlocksOK(f), NEW id \in Ids, NEW b \in Block, b.filled <= b.size
  PROVE  BlocksOK(With(f, id, b))
<1> DEFINE g == With(f, id, b)
<1>1. DOMAIN g = DOMAIN f \cup {id} /\ g[id] = b
  BY DEF With
<1>2. ASSUME NEW i \in DOMAIN f, i # id
      PROVE  g[i] = f[i]
  BY <1>2 DEF With
<1>3. ASSUME NEW i \in DOMAIN g
      PROVE  g[i] \in Block /\ g[i].filled <= g[i].size
  <2>1. CASE i = id
    BY <1>1, <2>1
  <2>2. CASE i # id
    <3>1. i \in DOMAIN f /\ g[i] = f[i]
      BY <1>1, <1>2, <1>3, <2>2
    <3> HIDE DEF g
    <3>2. QED
      BY <3>1 DEF BlocksOK
  <2>3. QED
    BY <2>1, <2>2
<1> HIDE DEF g
<1>4. BlocksOK(g)
  BY <1>1, <1>3 DEF BlocksOK
<1>5. QED
  BY <1>4 DEF g

LEMMA WithoutOK ==
  ASSUME NEW f, BlocksOK(f), NEW ids
  PROVE  BlocksOK(Without(f, ids))
<1> DEFINE g == Without(f, ids)
<1>1. DOMAIN g = DOMAIN f \ ids
  BY DEF Without
<1>2. ASSUME NEW i \in DOMAIN g
      PROVE  i \in DOMAIN f /\ g[i] = f[i]
  BY <1>1, <1>2 DEF Without
<1> HIDE DEF g
<1>3. BlocksOK(g)
  BY <1>1, <1>2 DEF BlocksOK
<1>4. QED
  BY <1>3 DEF g

LEMMA FilledOK ==
  ASSUME NEW f, BlocksOK(f), NEW id \in DOMAIN f, NEW n \in Nat,
         f[id].filled + n <= f[id].size
  PROVE  BlocksOK([f EXCEPT ![id].filled = @ + n])
<1> DEFINE g == [f EXCEPT ![id].filled = @ + n]
<1>1. DOMAIN g = DOMAIN f /\ \A i \in DOMAIN f \ {id} : g[i] = f[i]
  OBVIOUS
<1>2. f[id] \in Block
  BY DEF BlocksOK
<1>3. g[id] = [f[id] EXCEPT !.filled = @ + n]
  OBVIOUS
<1>4. g[id] \in Block /\ g[id].filled <= g[id].size
  BY <1>2, <1>3 DEF Block
<1>5. QED
  BY <1>1, <1>4 DEF BlocksOK

(* Every variable keeps its type through every step. *)
LEMMA TypeStep == TypeOK /\ LoadInv /\ [Next]_vars => TypeOK'
<1> SUFFICES ASSUME TypeOK, LoadInv, [Next]_vars PROVE TypeOK'
  OBVIOUS
<1> USE LoadAssumption DEF TypeOK, Live, reading, parsing
<1>1. CASE OpenFails \/ Open \/ AllocContentsFails
  BY <1>1 DEF OpenFails, Open, AllocContentsFails
<1>2. CASE AllocContents
  <2>1. [size |-> BufferSize, filled |-> 0] \in Block
    BY DEF Block
  <2>2. BlocksOK(blocks')
    BY <1>2, <2>1, WithOK DEF AllocContents
  <2>3. QED
    BY <1>2, <2>2 DEF AllocContents
<1>3. CASE ReadOn
  <2>1. /\ buffer \in DOMAIN blocks
        /\ contentsSize = blocks[buffer].size /\ contentsSize - BufferSize = file.pos
        /\ blocks[buffer].filled = file.pos
    BY <1>3 DEF ReadOn, LoadInv, OwnerInv, ReadInv
  <2>2. blocks' = [blocks EXCEPT ![buffer].filled = @ + BufferSize]
        /\ file' = [file EXCEPT !.pos = @ + BufferSize] /\ file.size - file.pos >= BufferSize
    BY <1>3 DEF ReadOn
  <2>3. BlocksOK(blocks')
    <3>1. file.pos \in Nat /\ BufferSize \in Nat /\ contentsSize \in Int
      OBVIOUS
    <3>2. blocks[buffer].filled + BufferSize <= blocks[buffer].size
      BY <2>1, <3>1
    <3>3. QED
      BY <2>1, <2>2, <3>1, <3>2, FilledOK
  <2>4. file' \in [size : FileSizes, pos : Nat] /\ file'.pos <= file'.size
    <3>1. file \in [size : FileSizes, pos : Nat] /\ file.size \in Nat /\ BufferSize \in Nat
      OBVIOUS
    <3>2. file' = [size |-> file.size, pos |-> file.pos + BufferSize]
      BY <2>2, <3>1
    <3>3. file.pos + BufferSize \in Nat /\ file.pos + BufferSize <= file.size
      BY <2>2, <3>1
    <3>4. QED
      BY <3>1, <3>2, <3>3
  <2>5. QED
    BY <1>3, <2>3, <2>4 DEF ReadOn
<1>4. CASE ReadLast
  <2>1. PICK got \in ReadErrors \cup {file.size - file.pos} :
          /\ got < BufferSize
          /\ readError' = (got < 0)
          /\ contentsSize' = TextLength(got)
          /\ file' = IF got < 0 THEN file ELSE [file EXCEPT !.pos = @ + got]
          /\ blocks' = IF got < 0 THEN blocks ELSE [blocks EXCEPT ![buffer].filled = @ + got]
          /\ step' = IF TextLength(got) \in 0..(blocks[buffer].size - 1)
                     THEN "filter" ELSE "undefined"
    BY <1>4 DEF ReadLast
  <2>2. /\ buffer \in DOMAIN blocks
        /\ contentsSize = blocks[buffer].size /\ contentsSize - BufferSize = file.pos
        /\ blocks[buffer].filled = file.pos
    BY <1>4 DEF ReadLast, LoadInv, OwnerInv, ReadInv
  <2>3. got \in Int /\ (got >= 0 => got = file.size - file.pos)
    BY <2>1
  <2>4. BlocksOK(blocks')
    <3>1. CASE got < 0
      BY <2>1, <3>1
    <3>2. CASE got >= 0
      <4>1. got \in Nat /\ file.pos \in Nat /\ contentsSize \in Int /\ BufferSize \in Nat
        BY <2>3, <3>2
      <4>2. blocks[buffer].filled + got <= blocks[buffer].size
        BY <2>1, <2>2, <4>1
      <4>3. blocks' = [blocks EXCEPT ![buffer].filled = @ + got]
        BY <2>1, <2>3, <3>2
      <4>4. QED
        BY <2>2, <4>1, <4>2, <4>3, FilledOK
    <3>3. QED
      BY <2>3, <3>1, <3>2
  <2>5. file' \in [size : FileSizes, pos : Nat] /\ file'.pos <= file'.size
    <3>1. file \in [size : FileSizes, pos : Nat] /\ file.size \in Nat
      OBVIOUS
    <3>2. CASE got < 0
      BY <2>1, <3>2
    <3>3. CASE got >= 0
      <4>1. got \in Nat /\ got = file.size - file.pos
        BY <2>3, <3>3
      <4>2. file' = [file EXCEPT !.pos = @ + got]
        BY <2>1, <2>3, <3>3
      <4>3. file' = [size |-> file.size, pos |-> file.pos + got]
        BY <3>1, <4>1, <4>2
      <4>4. file.pos + got \in Nat /\ file.pos + got <= file.size
        BY <3>1, <4>1
      <4>5. QED
        BY <3>1, <4>3, <4>4
    <3>4. QED
      BY <2>3, <3>2, <3>3
  <2>6. contentsSize' \in Int /\ readError' \in BOOLEAN
    BY <2>1, <2>3 DEF TextLength
  <2>7. step' \in {"filter", "undefined"}
    BY <2>1
  <2>8. QED
    BY <1>4, <2>4, <2>5, <2>6, <2>7 DEF ReadLast
<1>5. CASE Grow
  <2>1. /\ buffer \in DOMAIN blocks
        /\ contentsSize = blocks[buffer].size /\ blocks[buffer].filled = contentsSize
    BY <1>5 DEF Grow, LoadInv, OwnerInv, ReadInv
  <2>2. PICK id \in Ids \ DOMAIN blocks :
          /\ buffer' = id
          /\ blocks' = Without(With(blocks, id, Reallocated(blocks[buffer], contentsSize)), {buffer})
    BY <1>5 DEF Grow
  <2>3. Reallocated(blocks[buffer], contentsSize)
          = [size |-> contentsSize + BufferSize, filled |-> contentsSize]
    BY <2>1 DEF Reallocated, Least
  <2>4. BlocksOK(blocks')
    <3>1. contentsSize \in Nat
      BY <2>1 DEF BlocksOK, Block
    <3>2. Reallocated(blocks[buffer], contentsSize) \in Block
      BY <2>3, <3>1 DEF Block
    <3>3. BlocksOK(With(blocks, id, Reallocated(blocks[buffer], contentsSize)))
      BY <2>3, <3>1, <3>2, WithOK
    <3>4. QED
      BY <2>2, <3>3, WithoutOK
  <2>5. QED
    BY <1>5, <2>2, <2>4 DEF Grow
<1>6. CASE GrowFails
  BY <1>6, WithoutOK DEF GrowFails, FreeMemory
<1>7. CASE Filter \/ FilterFails \/ ParseFails
  BY <1>7 DEF Filter, FilterFails, ParseFails
<1>8. CASE Parse
  <2>1. [size |-> 0, filled |-> 0] \in Block
    BY DEF Block
  <2>2. BlocksOK(blocks')
    BY <1>8, <2>1, WithOK DEF Parse
  <2>3. QED
    BY <1>8, <2>2 DEF Parse, LoadInv, ResultInv
<1>9. CASE AllocEndpointsFails
  BY <1>9 DEF AllocEndpointsFails
<1>10. CASE AllocEndpoints
  <2>1. [size |-> count, filled |-> 0] \in Block
    BY DEF Block
  <2>2. BlocksOK(blocks')
    BY <1>10, <2>1, WithOK DEF AllocEndpoints
  <2>3. QED
    BY <1>10, <2>2 DEF AllocEndpoints
<1>11. CASE ParseEndpoint
  <2>1. [size |-> 0, filled |-> 0] \in Block
    BY DEF Block
  <2>2. BlocksOK(blocks')
    BY <1>11, <2>1, WithOK DEF ParseEndpoint
  <2>3. QED
    BY <1>11, <2>2, AppendName DEF ParseEndpoint
<1>12. CASE ParseEndpointFails
  BY <1>12, WithoutOK DEF ParseEndpointFails, FreeMemory
<1>13. CASE EndpointsParsed
  BY <1>13 DEF EndpointsParsed
<1>14. CASE FreeJson
  BY <1>14, WithoutOK DEF FreeJson, FreeMemory
<1>15. CASE Release
  BY <1>15, WithoutOK DEF Release, FreeMemory
<1>16. CASE UnloadConfig
  BY <1>16, WithoutOK DEF UnloadConfig, FreeMemory
<1>17. CASE UNCHANGED vars
  BY <1>17 DEF vars
<1>18. QED
  BY <1>1, <1>2, <1>3, <1>4, <1>5, <1>6, <1>7, <1>8, <1>9, <1>10, <1>11, <1>12, <1>13,
     <1>14, <1>15, <1>16, <1>17 DEF Next

(* The live ones after a block was taken or blocks were given back.        *)
LEMMA LiveWith ==
  ASSUME NEW id, NEW b, blocks' = With(blocks, id, b)
  PROVE  Live' = Live \cup {id}
  BY DEF With, Live

LEMMA LiveWithout ==
  ASSUME NEW ids, FreeMemory(ids)
  PROVE  /\ Live' = Live \ ids
         /\ ids \subseteq Live \cup {0} => (FreesLive => FreesLive')
  BY DEF FreeMemory, Without, Live, FreesLive

(* Ownership is handed on through every step, and every block that is      *)
(* given back has its owner to do it.                                      *)
LEMMA OwnerStep == TypeOK /\ LoadInv /\ [Next]_vars => OwnerInv' /\ FreesLive'
<1> SUFFICES ASSUME TypeOK, LoadInv, [Next]_vars PROVE OwnerInv' /\ FreesLive'
  OBVIOUS
<1> USE LoadAssumption DEF reading, parsing
<1>0. 0 \notin Ids /\ Names \subseteq Ids
  BY ElementOfSeq, LenProperties DEF TypeOK, Names
<1>1. CASE OpenFails \/ Open \/ AllocContentsFails
  <2>1. Live' = {} /\ contentsId' = 0 /\ FreesLive'
    BY <1>1 DEF OpenFails, Open, AllocContentsFails, LoadInv, OwnerInv, Live, FreesLive
  <2>2. \/ step' = "release" /\ result' # 0
        \/ step' = "alloc"
    BY <1>1 DEF OpenFails, Open, AllocContentsFails
  <2>3. QED
    BY <2>1, <2>2 DEF OwnerInv
<1>2. CASE AllocContents
  <2>1. PICK id \in Ids \ Live :
          buffer' = id /\ blocks' = With(blocks, id, [size |-> BufferSize, filled |-> 0])
    BY <1>2 DEF AllocContents
  <2>2. Live' = Live \cup {id}
    BY <2>1, LiveWith
  <2>3. QED
    BY <1>2, <2>1, <2>2 DEF AllocContents, LoadInv, OwnerInv, ResultInv, FreesLive
<1>3. CASE ReadOn
  <2>1. Live' = Live
    BY <1>3 DEF ReadOn, Live
  <2>2. QED
    BY <1>3, <2>1 DEF ReadOn, LoadInv, OwnerInv, ResultInv, FreesLive
<1>4. CASE ReadLast
  <2>1. Live' = Live /\ step' \in {"filter", "undefined"}
    BY <1>4 DEF ReadLast, Live
  <2>2. QED
    BY <1>4, <2>1 DEF ReadLast, LoadInv, OwnerInv, ResultInv, FreesLive
<1>5. CASE Grow
  <2>1. PICK id \in Ids \ Live :
          /\ buffer' = id
          /\ blocks' = Without(With(blocks, id, Reallocated(blocks[buffer], contentsSize)), {buffer})
    BY <1>5 DEF Grow
  <2>2. Live' = (Live \cup {id}) \ {buffer}
    BY <2>1 DEF With, Without, Live
  <2>3. QED
    BY <1>5, <2>1, <2>2 DEF Grow, LoadInv, OwnerInv, ResultInv, FreesLive
<1>6. CASE GrowFails
  <2>1. FreeMemory({buffer}) /\ Live = {buffer}
    BY <1>6 DEF GrowFails, LoadInv, OwnerInv
  <2>2. Live' = {} /\ FreesLive'
    BY <2>1, LiveWithout DEF LoadInv
  <2>3. QED
    BY <1>6, <2>2 DEF GrowFails, LoadInv, OwnerInv
<1>7. CASE Filter \/ FilterFails \/ ParseFails
  <2>1. /\ Live' = Live /\ contentsId' = contentsId /\ FreesLive'
        /\ Live = {contentsId} /\ contentsId \in Ids
    BY <1>7 DEF Filter, FilterFails, ParseFails, LoadInv, OwnerInv, Live, FreesLive
  <2>2. \/ step' = "release" /\ result' # 0
        \/ step' = "parse"
    BY <1>7 DEF Filter, FilterFails, ParseFails
  <2>3. Live' = {contentsId'} \ {0}
    BY <1>0, <2>1
  <2>4. QED
    BY <2>1, <2>2, <2>3 DEF OwnerInv
<1>8. CASE Parse
  <2>1. PICK id \in Ids \ Live :
          jsonId' = id /\ blocks' = With(blocks, id, [size |-> 0, filled |-> 0])
    BY <1>8 DEF Parse
  <2>2. Live' = Live \cup {id}
    BY <2>1, LiveWith
  <2>3. QED
    BY <1>8, <2>1, <2>2 DEF Parse, LoadInv, OwnerInv, ResultInv, FreesLive
<1>9. CASE AllocEndpointsFails
  BY <1>9 DEF AllocEndpointsFails, LoadInv, OwnerInv, Live, FreesLive
<1>10. CASE AllocEndpoints
  <2>1. PICK id \in Ids \ Live :
          endpointsId' = id /\ blocks' = With(blocks, id, [size |-> count, filled |-> 0])
    BY <1>10 DEF AllocEndpoints
  <2>2. Live' = Live \cup {id}
    BY <2>1, LiveWith
  <2>3. nameIds' = <<>> /\ Names' = {} /\ DOMAIN nameIds' = {}
    BY <1>10 DEF AllocEndpoints, LoadInv, ResultInv, Names
  <2>4. QED
    BY <1>10, <2>1, <2>2, <2>3
       DEF AllocEndpoints, LoadInv, OwnerInv, ResultInv, FreesLive, Configured, Distinct
<1>11. CASE ParseEndpoint
  <2>1. PICK id \in Ids \ Live :
          nameIds' = Append(nameIds, id) /\ blocks' = With(blocks, id, [size |-> 0, filled |-> 0])
    BY <1>11 DEF ParseEndpoint
  <2>2. Live' = Live \cup {id}
    BY <2>1, LiveWith
  <2>3. /\ Live = {contentsId, jsonId} \cup Names \cup {endpointsId} /\ Distinct
        /\ {contentsId, jsonId} \cap (Names \cup {endpointsId}) = {}
    BY <1>11 DEF ParseEndpoint, LoadInv, OwnerInv, ResultInv, Configured
  <2>4. /\ DOMAIN nameIds = 1..Len(nameIds) /\ Len(nameIds) \in Nat
        /\ DOMAIN nameIds' = 1..(Len(nameIds) + 1)
        /\ \A i \in 1..Len(nameIds) : nameIds'[i] = nameIds[i]
        /\ nameIds'[Len(nameIds) + 1] = id
    BY <2>1, AppendName DEF TypeOK
  <2>5. Names' = Names \cup {id}
    BY <2>4 DEF Names
  <2>6. \A i \in DOMAIN nameIds : nameIds[i] # id
    BY <2>1, <2>3 DEF Names
  <2>7. \A i, j \in DOMAIN nameIds' : nameIds'[i] = nameIds'[j] => i = j
    BY <2>3, <2>4, <2>6 DEF Distinct
  <2>8. endpointsId' \in Ids /\ endpointsId' \notin Names' /\ endpointsId' = endpointsId
    BY <1>11, <2>1, <2>3, <2>5 DEF ParseEndpoint, Distinct
  <2>9. QED
    BY <1>11, <2>1, <2>2, <2>3, <2>5, <2>7, <2>8
       DEF ParseEndpoint, LoadInv, OwnerInv, ResultInv, FreesLive, Configured, Distinct
<1>12. CASE ParseEndpointFails
  <2>1. /\ FreeMemory(Configured) /\ Live = {contentsId, jsonId} \cup Configured
        /\ {contentsId, jsonId} \cap Configured = {}
    BY <1>12 DEF ParseEndpointFails, LoadInv, OwnerInv, ResultInv, Configured
  <2>2. Live' = {contentsId, jsonId} /\ FreesLive'
    BY <2>1, LiveWithout DEF LoadInv
  <2>3. QED
    BY <1>12, <2>2 DEF ParseEndpointFails, LoadInv, OwnerInv
<1>13. CASE EndpointsParsed
  BY <1>13 DEF EndpointsParsed, LoadInv, OwnerInv, ResultInv, Live, FreesLive, Configured,
               Distinct, Names
<1>14. CASE FreeJson
  <2>1. FreeMemory({jsonId}) /\ jsonId \in Live
    BY <1>14 DEF FreeJson, LoadInv, OwnerInv
  <2>2. Live' = Live \ {jsonId} /\ FreesLive'
    BY <2>1, LiveWithout DEF LoadInv
  <2>3. Configured' = Configured /\ (Distinct => Distinct')
    BY <1>14 DEF FreeJson, Configured, Names, Distinct
  <2>4. QED
    BY <1>0, <1>14, <2>2, <2>3 DEF FreeJson, LoadInv, OwnerInv
<1>15. CASE Release
  <2>1. FreeMemory({contentsId}) /\ {contentsId} \subseteq Live \cup {0}
    BY <1>15 DEF Release, LoadInv, OwnerInv
  <2>2. Live' = Live \ {contentsId} /\ FreesLive'
    BY <2>1, LiveWithout DEF LoadInv
  <2>3. Configured' = Configured /\ (Distinct => Distinct')
    BY <1>15 DEF Release, Configured, Names, Distinct
  <2>4. QED
    BY <1>15, <2>2, <2>3 DEF Release, LoadInv, OwnerInv
<1>16. CASE UnloadConfig
  <2>1. FreeMemory(Configured) /\ Live = Configured
    BY <1>16 DEF UnloadConfig, LoadInv, OwnerInv, Configured
  <2>2. Live' = {} /\ FreesLive'
    BY <2>1, LiveWithout DEF LoadInv
  <2>3. QED
    BY <1>16, <2>2 DEF UnloadConfig, OwnerInv
<1>17. CASE UNCHANGED vars
  BY <1>17 DEF vars, LoadInv, OwnerInv, Live, Configured, Distinct, Names, FreesLive
<1>18. QED
  BY <1>1, <1>2, <1>3, <1>4, <1>5, <1>6, <1>7, <1>8, <1>9, <1>10, <1>11, <1>12, <1>13,
     <1>14, <1>15, <1>16, <1>17 DEF Next

(* A result and names appear only where they are produced.                 *)
LEMMA ResultStep == TypeOK /\ LoadInv /\ [Next]_vars => ResultInv'
<1> SUFFICES ASSUME TypeOK, LoadInv, [Next]_vars PROVE ResultInv'
  OBVIOUS
<1> USE DEF reading, parsing, LoadInv, ResultInv
<1>1. CASE OpenFails \/ Open \/ AllocContentsFails \/ AllocContents
  BY <1>1 DEF OpenFails, Open, AllocContentsFails, AllocContents
<1>2. CASE ReadOn \/ Grow \/ GrowFails
  BY <1>2 DEF ReadOn, Grow, GrowFails
<1>3. CASE ReadLast
  <2>1. step' \in {"filter", "undefined"}
    BY <1>3 DEF ReadLast
  <2>2. QED
    BY <1>3, <2>1 DEF ReadLast
<1>4. CASE Filter \/ FilterFails \/ ParseFails \/ Parse
  BY <1>4 DEF Filter, FilterFails, ParseFails, Parse
<1>5. CASE AllocEndpoints \/ AllocEndpointsFails
  BY <1>5 DEF AllocEndpoints, AllocEndpointsFails
<1>6. CASE ParseEndpoint \/ ParseEndpointFails \/ EndpointsParsed
  BY <1>6 DEF ParseEndpoint, ParseEndpointFails, EndpointsParsed
<1>7. CASE FreeJson \/ Release \/ UnloadConfig
  BY <1>7 DEF FreeJson, Release, UnloadConfig
<1>8. CASE UNCHANGED vars
  BY <1>8 DEF vars
<1>9. QED
  BY <1>1, <1>2, <1>3, <1>4, <1>5, <1>6, <1>7, <1>8 DEF Next

(* The block holds what has been read, and the last read ends the text.    *)
LEMMA ReadStep == TypeOK /\ LoadInv /\ [Next]_vars => ReadInv'
<1> SUFFICES ASSUME TypeOK, LoadInv, [Next]_vars PROVE ReadInv'
  OBVIOUS
<1> USE LoadAssumption DEF reading, parsing
<1>0. /\ BufferSize \in Nat /\ BufferSize > 0 /\ contentsSize \in Int
      /\ file.pos \in Nat /\ file.size \in Nat /\ file.pos <= file.size
  <2>1. file \in [size : FileSizes, pos : Nat] /\ file.pos <= file.size /\ contentsSize \in Int
    BY DEF TypeOK
  <2>2. file.size \in FileSizes /\ file.pos \in Nat
    BY <2>1
  <2>3. BufferSize \in Nat /\ BufferSize # 0
    OBVIOUS
  <2>4. BufferSize > 0
    BY <2>3
  <2>5. file.size \in Nat
    BY <2>2
  <2>6. QED
    BY <2>1, <2>2, <2>3, <2>4, <2>5
<1>1. CASE OpenFails \/ Open \/ AllocContentsFails
  BY <1>1 DEF OpenFails, Open, AllocContentsFails, LoadInv, ReadInv, WholeText
<1>2. CASE AllocContents
  <2>1. PICK id \in Ids \ Live :
          buffer' = id /\ blocks' = With(blocks, id, [size |-> BufferSize, filled |-> 0])
    BY <1>2 DEF AllocContents
  <2>2. blocks'[buffer'] = [size |-> BufferSize, filled |-> 0]
    BY <2>1 DEF With
  <2>3. /\ step' = "read" /\ contentsSize' = BufferSize /\ file' = file
        /\ file.pos = 0 /\ readError' = FALSE
    BY <1>2 DEF AllocContents, LoadInv, ReadInv, TypeOK
  <2>4. QED
    BY <1>0, <2>2, <2>3 DEF ReadInv, WholeText
<1>3. CASE ReadOn
  <2>1. /\ buffer \in DOMAIN blocks /\ BlocksOK(blocks)
        /\ contentsSize = blocks[buffer].size /\ contentsSize - BufferSize = file.pos
        /\ blocks[buffer].filled = file.pos /\ ~readError
    BY <1>3 DEF ReadOn, LoadInv, OwnerInv, ReadInv, Live, TypeOK
  <2>2. /\ step' = "grow" /\ contentsSize' = contentsSize /\ buffer' = buffer
        /\ readError' = readError
        /\ file' = [file EXCEPT !.pos = @ + BufferSize]
        /\ blocks' = [blocks EXCEPT ![buffer].filled = @ + BufferSize]
    BY <1>3 DEF ReadOn
  <2>3. file'.pos = file.pos + BufferSize
    BY <2>2 DEF TypeOK
  <2>4. blocks'[buffer] = [blocks[buffer] EXCEPT !.filled = @ + BufferSize]
    BY <2>1, <2>2
  <2>5. blocks[buffer] \in Block
    BY <2>1 DEF BlocksOK
  <2>6. /\ blocks'[buffer].size = contentsSize
        /\ blocks'[buffer].filled = file.pos + BufferSize
    BY <2>1, <2>4, <2>5 DEF Block
  <2>7. QED
    BY <1>0, <2>1, <2>2, <2>3, <2>6 DEF ReadInv, WholeText
<1>4. CASE ReadLast
  <2>1. PICK got \in ReadErrors \cup {file.size - file.pos} :
          /\ got < BufferSize
          /\ readError' = (got < 0)
          /\ contentsSize' = TextLength(got)
          /\ file' = IF got < 0 THEN file ELSE [file EXCEPT !.pos = @ + got]
          /\ blocks' = IF got < 0 THEN blocks ELSE [blocks EXCEPT ![buffer].filled = @ + got]
          /\ step' = IF TextLength(got) \in 0..(blocks[buffer].size - 1)
                     THEN "filter" ELSE "undefined"
    BY <1>4 DEF ReadLast
  <2>2. /\ buffer \in DOMAIN blocks /\ BlocksOK(blocks)
        /\ contentsSize = blocks[buffer].size /\ contentsSize - BufferSize = file.pos
        /\ blocks[buffer].filled = file.pos /\ contentsId' = buffer
    BY <1>4 DEF ReadLast, LoadInv, OwnerInv, ReadInv, Live, TypeOK
  <2>3. step' \in {"filter", "undefined"}
    BY <2>1
  <2>4. CASE got < 0
    <3>1. readError'
      BY <2>1, <2>4
    <3>2. QED
      BY <2>3, <3>1 DEF ReadInv, WholeText
  <2>5. CASE got >= 0
    <3>1. got \in Nat /\ got = file.size - file.pos
      BY <1>0, <2>5
    <3>2. TextLength(got) = file.size
      BY <1>0, <2>2, <3>1 DEF TextLength
    <3>3. file.size <= blocks[buffer].size - 1 /\ blocks[buffer].size \in Int
      BY <1>0, <2>1, <2>2, <3>1
    <3>4. step' = "filter" /\ contentsSize' = file.size
      BY <1>0, <2>1, <3>2, <3>3
    <3>5. file' = [file EXCEPT !.pos = @ + got]
          /\ blocks' = [blocks EXCEPT ![buffer].filled = @ + got]
      BY <1>0, <2>1, <3>1
    <3>6. file'.size = file.size
      BY <3>5 DEF TypeOK
    <3>7. blocks'[buffer] = [blocks[buffer] EXCEPT !.filled = @ + got]
          /\ DOMAIN blocks' = DOMAIN blocks
      BY <2>2, <3>5
    <3>8. blocks[buffer] \in Block
      BY <2>2 DEF BlocksOK
    <3>9. blocks'[buffer].filled = file.pos + got
      BY <2>2, <3>7, <3>8 DEF Block
    <3>10. blocks'[buffer].filled = file.size
      BY <1>0, <3>1, <3>9
    <3>11. QED
      BY <2>2, <3>4, <3>6, <3>7, <3>10 DEF ReadInv, WholeText, Live
  <2>6. QED
    BY <1>0, <2>1, <2>4, <2>5
<1>5. CASE Grow
  <2>1. /\ buffer \in DOMAIN blocks /\ blocks[buffer].filled = contentsSize
        /\ contentsSize = file.pos /\ ~readError
    BY <1>5 DEF Grow, LoadInv, OwnerInv, ReadInv, Live
  <2>2. PICK id \in Ids \ DOMAIN blocks :
          /\ buffer' = id
          /\ blocks' = Without(With(blocks, id, Reallocated(blocks[buffer], contentsSize)), {buffer})
    BY <1>5 DEF Grow, Live
  <2>3. blocks'[id] = Reallocated(blocks[buffer], contentsSize)
    BY <2>1, <2>2 DEF With, Without
  <2>4. blocks'[buffer'] = [size |-> contentsSize + BufferSize, filled |-> contentsSize]
    BY <1>0, <2>1, <2>2, <2>3 DEF Reallocated, Least
  <2>5. /\ step' = "read" /\ contentsSize' = contentsSize + BufferSize /\ file' = file
        /\ readError' = readError
    BY <1>5 DEF Grow
  <2>6. QED
    BY <1>0, <2>1, <2>4, <2>5 DEF ReadInv, WholeText
<1>6. CASE GrowFails \/ FilterFails \/ ParseFails \/ Parse
  BY <1>6 DEF GrowFails, FilterFails, ParseFails, Parse, ReadInv, WholeText
<1>7. CASE Filter
  BY <1>7 DEF Filter, LoadInv, ReadInv, WholeText, Live
<1>8. CASE AllocEndpoints \/ AllocEndpointsFails
  BY <1>8 DEF AllocEndpoints, AllocEndpointsFails, ReadInv, WholeText
<1>9. CASE ParseEndpoint \/ ParseEndpointFails \/ EndpointsParsed
  BY <1>9 DEF ParseEndpoint, ParseEndpointFails, EndpointsParsed, ReadInv, WholeText
<1>10. CASE FreeJson \/ Release \/ UnloadConfig
  BY <1>10 DEF FreeJson, Release, UnloadConfig, ReadInv, WholeText
<1>11. CASE UNCHANGED vars
  BY <1>11 DEF vars, LoadInv, ReadInv, WholeText, Live
<1>12. QED
  BY <1>1, <1>2, <1>3, <1>4, <1>5, <1>6, <1>7, <1>8, <1>9, <1>10, <1>11 DEF Next

-----------------------------------------------------------------------------
(* Every load keeps the types of its variables and its invariant, whatever *)
(* fails in it.                                                            *)
THEOREM LoadInvariant == Spec => [](TypeOK /\ LoadInv)
<1>1. Init => TypeOK /\ LoadInv
  <2> SUFFICES ASSUME Init PROVE TypeOK /\ LoadInv
    OBVIOUS
  <2>1. BlocksOK(blocks) /\ Live = {}
    BY DEF Init, BlocksOK, Live
  <2>2. nameIds \in Seq(Ids) /\ Len(nameIds) = 0
    BY EmptySeq DEF Init
  <2>3. file \in [size : FileSizes, pos : Nat] /\ file.pos = 0 /\ file.size \in Nat
    <3>1. file \in [size : FileSizes, pos : {0}]
      BY DEF Init
    <3>2. file.size \in FileSizes /\ file.pos = 0 /\ file = [size |-> file.size, pos |-> file.pos]
      BY <3>1
    <3>3. file.size \in Nat
      BY <3>2, LoadAssumption
    <3>4. QED
      BY <3>2, <3>3
  <2>4. TypeOK
    <3>1. 0 \in 0..MaxEndpoints /\ file.pos <= file.size
      BY <2>3, LoadAssumption
    <3>2. /\ step = "open" /\ buffer = 0 /\ contentsSize = 0 /\ contentsId = 0
          /\ jsonId = 0 /\ count = 0 /\ endpointsId = 0 /\ result = 0
          /\ readError = FALSE /\ wildFree = FALSE
      BY DEF Init
    <3>3. readError \in BOOLEAN /\ wildFree \in BOOLEAN
      BY <3>2
    <3>4. contentsSize \in Int /\ count \in 0..MaxEndpoints /\ result \in 0..2
      BY <3>1, <3>2
    <3>5. Len(nameIds) <= count
      BY <2>2, <3>2
    <3>6. {buffer, contentsId, jsonId, endpointsId} \subseteq Ids \cup {0}
      BY <3>2
    <3>7. QED
      BY <2>1, <2>2, <2>3, <3>1, <3>2, <3>3, <3>4, <3>5, <3>6 DEF TypeOK
  <2>5. LoadInv
    BY <2>1, <2>3 DEF Init, LoadInv, OwnerInv, ResultInv, ReadInv, WholeText, FreesLive
  <2>6. QED
    BY <2>4, <2>5
<1>2. TypeOK /\ LoadInv /\ [Next]_vars => (TypeOK /\ LoadInv)'
  BY TypeStep, OwnerStep, ResultStep, ReadStep DEF LoadInv
<1>3. QED
  BY <1>1, <1>2, PTL DEF Spec

(* The variables have their types in every load.                           *)
THEOREM TypeCorrect == Spec => []TypeOK
  BY LoadInvariant, PTL

(* readFileLoop fills its blocks to their ends and never past them, for a  *)
(* file of any length and a buffer of any size.                            *)
THEOREM NoOverrun == Spec => []InBounds
<1>1. TypeOK /\ LoadInv => InBounds
  BY DEF LoadInv, OwnerInv, ReadInv, InBounds
<1>2. QED
  BY <1>1, LoadInvariant, PTL

(* What is parsed is the file from its first byte to its last.             *)
THEOREM TextIsFile == Spec => []WholeText
<1>1. LoadInv => WholeText
  BY DEF LoadInv, ReadInv
<1>2. QED
  BY <1>1, LoadInvariant, PTL

(* No block is given back twice, and none that was never allocated.        *)
THEOREM NoDoubleFree == Spec => []FreesLive
<1>1. LoadInv => FreesLive
  BY DEF LoadInv
<1>2. QED
  BY <1>1, LoadInvariant, PTL

(* Every failure, and unloading, gives back all that was allocated; a      *)
(* loaded configuration owns what is left, each name a block of its own.   *)
THEOREM NoLeak == Spec => []NothingLeft
<1>1. LoadInv => NothingLeft
  BY DEF LoadInv, OwnerInv, ResultInv, NothingLeft, Configured, Distinct
<1>2. QED
  BY <1>1, LoadInvariant, PTL
=============================================================================
