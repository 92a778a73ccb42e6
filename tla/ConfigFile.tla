------------------------------ MODULE ConfigFile ------------------------------
(***************************************************************************)
(* loadConfigFile of src/tktusbmanager/config/config.c and the readFile of *)
(* common/file.c under it, with unloadConfig: a file of unknown length is  *)
(* read into blocks of the kernel's memory that grow by one buffer a time, *)
(* the text is filtered and parsed, and each endpoint's name gets a block  *)
(* of its own.  Any allocation may fail, and each failure has to give back *)
(* exactly what the load has allocated by then.                            *)
(*                                                                         *)
(* The kernel's blocks and files are external.  What the text says, and    *)
(* the blocks inside a JSON value, are left to choice: the value is one    *)
(* block here.                                                             *)
(***************************************************************************)
EXTENDS Integers, Sequences

CONSTANTS
  FileSizes,     (* the lengths of file considered                         *)
  BufferSize,    (* BUFFER_SIZE                                            *)
  ReadErrors,    (* negative results of sceIoRead                          *)
  Ids,           (* the ids the kernel may give to a block                 *)
  MaxEndpoints   (* bound: endpoints listed in the file                    *)

ASSUME LoadAssumption ==
  /\ FileSizes \subseteq Nat
  /\ BufferSize \in Nat \ {0}
  /\ ReadErrors \subseteq {n \in Int : n < 0}
  /\ Ids \subseteq Nat \ {0}
  /\ MaxEndpoints \in Nat

VARIABLES
  step,          (* the call loadConfigFile makes next                     *)
  file,          (* the length of the file, and the bytes of it read       *)
  blocks,        (* live blocks: their size, and the bytes of the file     *)
                 (* that each begins with                                  *)
  buffer,        (* contentsId of readFileLoop                             *)
  contentsSize,  (* contentsSize of readFileLoop                           *)
  contentsId,    (* contentsId of loadConfigFile                           *)
  jsonId,        (* rootJsonId                                             *)
  count,         (* ENDPOINTS_COUNT                                        *)
  endpointsId,   (* endpointsId                                            *)
  nameIds,       (* nameId of each endpoint parsed                         *)
  result,        (* what loadConfigFile is about to return                 *)
  readError,     (* history: sceIoRead has failed                          *)
  wildFree       (* history: a block was freed that was not live           *)

reading == <<file, buffer, contentsSize, readError>>
parsing == <<jsonId, count, endpointsId, nameIds>>
vars == <<step, reading, blocks, contentsId, parsing, result, wildFree>>

-----------------------------------------------------------------------------
Block == [size : Nat, filled : Nat]
Live == DOMAIN blocks
Least(a, b) == IF a <= b THEN a ELSE b

With(f, id, b) == [i \in DOMAIN f \cup {id} |-> IF i = id THEN b ELSE f[i]]
Without(f, ids) == [i \in DOMAIN f \ ids |-> f[i]]

(* freeMemory of each of ids, in any order.  Id 0 is no block's: the       *)
(* kernel does nothing but return an error for it.                         *)
FreeMemory(ids) ==
  /\ blocks' = Without(blocks, ids)
  /\ wildFree' = (wildFree \/ ~(ids \ {0} \subseteq Live))

Names == {nameIds[i] : i \in DOMAIN nameIds}

Init ==
  /\ step = "open"
  /\ file \in [size : FileSizes, pos : {0}]
  /\ blocks = <<>>
  /\ buffer = 0 /\ contentsSize = 0 /\ contentsId = 0
  /\ jsonId = 0 /\ count = 0 /\ endpointsId = 0 /\ nameIds = <<>>
  /\ result = 0
  /\ readError = FALSE /\ wildFree = FALSE

(* The steps of readFile. *)
OpenFails ==
  /\ step = "open"
  /\ step' = "release" /\ result' = 1
  /\ UNCHANGED <<reading, blocks, contentsId, parsing, wildFree>>

Open ==
  /\ step = "open"
  /\ step' = "alloc"
  /\ UNCHANGED <<reading, blocks, contentsId, parsing, result, wildFree>>

AllocContentsFails ==
  /\ step = "alloc"
  /\ step' = "release" /\ result' = 1
  /\ UNCHANGED <<reading, blocks, contentsId, parsing, wildFree>>

AllocContents ==
  /\ step = "alloc"
  /\ step' = "read"
  /\ contentsSize' = BufferSize
  /\ \E id \in Ids \ Live :
       /\ buffer' = id
       /\ blocks' = With(blocks, id, [size |-> BufferSize, filled |-> 0])
  /\ UNCHANGED <<file, readError, contentsId, parsing, result, wildFree>>

(* sceIoRead fills the last BufferSize bytes of the block and the file has *)
(* more: the block has to grow.                                            *)
ReadOn ==
  /\ step = "read"
  /\ file.size - file.pos >= BufferSize
  /\ file' = [file EXCEPT !.pos = @ + BufferSize]
  /\ blocks' = [blocks EXCEPT ![buffer].filled = @ + BufferSize]
  /\ step' = "grow"
  /\ UNCHANGED <<buffer, contentsSize, readError, contentsId, parsing, result, wildFree>>

(* Mutant: the text is taken to end with the block. *)
LengthOfBlock(got) == contentsSize

(* Where readFileLoop writes the closing NUL after reading got bytes; got  *)
(* may be an error, and an error makes this no place in the block.         *)
TextLength(got) == contentsSize - BufferSize + got

(* It fills less, or fails: the text ends there. *)
ReadLast ==
  /\ step = "read"
  /\ \E got \in ReadErrors \cup {file.size - file.pos} :
       /\ got < BufferSize
       /\ readError' = (got < 0)
       /\ contentsSize' = TextLength(got)
       /\ file' = IF got < 0 THEN file ELSE [file EXCEPT !.pos = @ + got]
       /\ blocks' = IF got < 0 THEN blocks ELSE [blocks EXCEPT ![buffer].filled = @ + got]
       /\ step' = IF TextLength(got) \in 0..(blocks[buffer].size - 1)
                  THEN "filter" ELSE "undefined"
  /\ contentsId' = buffer
  /\ UNCHANGED <<buffer, parsing, result, wildFree>>

(* Mutants: the last buffer is left out of the copy, and the block does    *)
(* not grow.                                                               *)
CopiedShort(old, size) == [size |-> size + BufferSize, filled |-> Least(old.filled, size - BufferSize)]
CopiedInPlace(old, size) == [size |-> size, filled |-> Least(old.filled, size)]

(* The block reallocContents makes of the one that holds size bytes. *)
Reallocated(old, size) == [size |-> size + BufferSize, filled |-> Least(old.filled, size)]

(* reallocContents. *)
Grow ==
  /\ step = "grow"
  /\ step' = "read"
  /\ contentsSize' = contentsSize + BufferSize
  /\ \E id \in Ids \ Live :
       /\ buffer' = id
       /\ blocks' = Without(With(blocks, id, Reallocated(blocks[buffer], contentsSize)), {buffer})
       /\ wildFree' = (wildFree \/ buffer \notin Live)
  /\ UNCHANGED <<file, readError, contentsId, parsing, result>>

(* Mutant: the block that is given back is also handed to the caller. *)
GrowFailsTwice ==
  /\ step = "grow"
  /\ FreeMemory({buffer})
  /\ contentsId' = buffer
  /\ step' = "release" /\ result' = 1
  /\ UNCHANGED <<reading, parsing>>

GrowFails ==
  /\ step = "grow"
  /\ FreeMemory({buffer})
  /\ step' = "release" /\ result' = 1
  /\ UNCHANGED <<reading, contentsId, parsing>>

-----------------------------------------------------------------------------
(* The steps of parseConfigFile: the filters, and then the parser. *)
Filter ==
  /\ step = "filter"
  /\ step' = "parse"
  /\ UNCHANGED <<reading, blocks, contentsId, parsing, result, wildFree>>

(* fillBlockComment finds a comment with no end. *)
FilterFails ==
  /\ step = "filter"
  /\ step' = "release" /\ result' = 1
  /\ UNCHANGED <<reading, blocks, contentsId, parsing, wildFree>>

ParseFails ==
  /\ step = "parse"
  /\ step' = "release" /\ result' = 1
  /\ UNCHANGED <<reading, blocks, contentsId, parsing, wildFree>>

Parse ==
  /\ step = "parse"
  /\ step' = "endpoints"
  /\ \E id \in Ids \ Live :
       /\ jsonId' = id
       /\ blocks' = With(blocks, id, [size |-> 0, filled |-> 0])
  /\ count' \in 0..MaxEndpoints
  /\ UNCHANGED <<reading, contentsId, endpointsId, nameIds, result, wildFree>>

(* No object "endpoints" in the root, or no block for its endpoints. *)
AllocEndpointsFails ==
  /\ step = "endpoints"
  /\ step' = "freeJson" /\ result' \in {1, 2}
  /\ UNCHANGED <<reading, blocks, contentsId, parsing, wildFree>>

AllocEndpoints ==
  /\ step = "endpoints"
  /\ step' = "endpoint"
  /\ \E id \in Ids \ Live :
       /\ endpointsId' = id
       /\ blocks' = With(blocks, id, [size |-> count, filled |-> 0])
  /\ UNCHANGED <<reading, contentsId, jsonId, count, nameIds, result, wildFree>>

(* parseEndpointJson for the next endpoint. *)
ParseEndpoint ==
  /\ step = "endpoint"
  /\ Len(nameIds) < count
  /\ \E id \in Ids \ Live :
       /\ nameIds' = Append(nameIds, id)
       /\ blocks' = With(blocks, id, [size |-> 0, filled |-> 0])
  /\ UNCHANGED <<step, reading, contentsId, jsonId, count, endpointsId, result, wildFree>>

(* Mutant: the names parsed before the failure are kept. *)
ForgetNames ==
  /\ step = "endpoint"
  /\ Len(nameIds) < count
  /\ FreeMemory({endpointsId})
  /\ step' = "freeJson" /\ result' \in {1, 2}
  /\ UNCHANGED <<reading, contentsId, parsing>>

(* The endpoint is no number, or there is no block for its name: those     *)
(* before it are freed.                                                    *)
ParseEndpointFails ==
  /\ step = "endpoint"
  /\ Len(nameIds) < count
  /\ FreeMemory(Names \cup {endpointsId})
  /\ step' = "freeJson" /\ result' \in {1, 2}
  /\ UNCHANGED <<reading, contentsId, parsing>>

EndpointsParsed ==
  /\ step = "endpoint"
  /\ Len(nameIds) = count
  /\ step' = "freeJson"
  /\ UNCHANGED <<reading, blocks, contentsId, parsing, result, wildFree>>

(* json_value_free. *)
FreeJson ==
  /\ step = "freeJson"
  /\ FreeMemory({jsonId})
  /\ step' = "release"
  /\ UNCHANGED <<reading, contentsId, parsing, result>>

(* loadConfigFile frees the text, or id 0 when readFile gave it none.      *)
Release ==
  /\ step = "release"
  /\ FreeMemory({contentsId})
  /\ step' = IF result = 0 THEN "loaded" ELSE "failed"
  /\ UNCHANGED <<reading, contentsId, parsing, result>>

(* applyConfigFile unloads what it has loaded. *)
UnloadConfig ==
  /\ step = "loaded"
  /\ FreeMemory(Names \cup {endpointsId})
  /\ step' = "unloaded"
  /\ UNCHANGED <<reading, contentsId, parsing, result>>

-----------------------------------------------------------------------------
Next ==
  \/ OpenFails \/ Open \/ AllocContentsFails \/ AllocContents
  \/ ReadOn \/ ReadLast \/ Grow \/ GrowFails
  \/ Filter \/ FilterFails \/ Parse \/ ParseFails
  \/ AllocEndpoints \/ AllocEndpointsFails
  \/ ParseEndpoint \/ ParseEndpointFails \/ EndpointsParsed
  \/ FreeJson \/ Release \/ UnloadConfig

Spec == Init /\ [][Next]_vars
-----------------------------------------------------------------------------
BlocksOK(f) ==
  /\ DOMAIN f \subseteq Ids
  /\ \A id \in DOMAIN f : f[id] \in Block /\ f[id].filled <= f[id].size

(* Every variable has its type; no block begins with more of the file than *)
(* it has room for.                                                        *)
TypeOK ==
  /\ step \in {"open", "alloc", "read", "grow", "undefined", "filter", "parse", "endpoints",
               "endpoint", "freeJson", "release", "loaded", "failed", "unloaded"}
  /\ file \in [size : FileSizes, pos : Nat] /\ file.pos <= file.size
  /\ BlocksOK(blocks)
  /\ buffer \in Ids \cup {0}
  /\ contentsSize \in Int
  /\ contentsId \in Ids \cup {0}
  /\ jsonId \in Ids \cup {0}
  /\ count \in 0..MaxEndpoints
  /\ endpointsId \in Ids \cup {0}
  /\ nameIds \in Seq(Ids) /\ Len(nameIds) <= count
  /\ result \in 0..2
  /\ readError \in BOOLEAN
  /\ wildFree \in BOOLEAN

(* sceIoRead fills the block it is given to its very end, behind what was  *)
(* read before, and the closing NUL falls into the block: a file of any    *)
(* length, one that fills its last buffer included, overruns nothing.      *)
(* After an error of sceIoRead, whose code goes into the length, nothing   *)
(* is promised.                                                            *)
InBounds ==
  /\ step = "read" =>
       /\ buffer \in Live
       /\ contentsSize = blocks[buffer].size
       /\ contentsSize - BufferSize = file.pos
  /\ step = "undefined" => readError

(* The text that is filtered and parsed is the file, all of it and nothing *)
(* more, however often its block was moved, unless a read failed.          *)
WholeText ==
  step \in {"filter", "parse"} /\ ~readError =>
    /\ contentsId \in Live
    /\ contentsSize = file.size
    /\ blocks[contentsId].filled = file.size

(* Whatever fails, no block is given back that is not live: an id that was *)
(* freed once may by then be the id of someone else's block.               *)
FreesLive == ~wildFree

(* A load that failed, and one that was unloaded, leaves no block behind;  *)
(* a configuration owns a block for its endpoints and one for each name,   *)
(* no two of them the same, and nothing else is left of the load.          *)
NothingLeft ==
  /\ step \in {"failed", "unloaded"} => Live = {}
  /\ step = "loaded" =>
       /\ Live = Names \cup {endpointsId}
       /\ Len(nameIds) = count
       /\ endpointsId \notin Names
       /\ \A i, j \in DOMAIN nameIds : nameIds[i] = nameIds[j] => i = j
=============================================================================
