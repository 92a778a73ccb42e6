------------------------------- MODULE JsonMap -------------------------------
(***************************************************************************)
(* What a JSON object of src/parson/parson.c promises: it holds each name  *)
(* once, with its value, in the order of addition; an addition takes       *)
(* effect whole or not at all, and fails only for a name that is there     *)
(* already or for want of memory.                                          *)
(***************************************************************************)
EXTENDS Integers, Sequences

CONSTANTS
  Names,         (* the keys of the object                                 *)
  Values,        (* its values                                             *)
  None           (* NULL                                                   *)

VARIABLES
  entries,       (* what is in the object                                  *)
  call,          (* the addition under way                                 *)
  answer,        (* what the last call returned                            *)
  short          (* that call ran out of memory                            *)

vars == <<entries, call, answer, short>>
-----------------------------------------------------------------------------
Entry(n, v) == [name |-> n, value |-> v]
NoCall == Entry(None, None)

(* What op returned: a value, or None where it failed or found nothing.    *)
Answer(op, n, v) == [op |-> op, name |-> n, value |-> v]

Holds(n) == \E i \in DOMAIN entries : entries[i].name = n

Init ==
  /\ entries = <<>>
  /\ call = NoCall
  /\ answer = Answer("make", None, None)
  /\ short = FALSE

(* A value that is added is no other entry's value. *)
Call(n, v) ==
  /\ call = NoCall
  /\ \A i \in DOMAIN entries : entries[i].value # v
  /\ call' = Entry(n, v)
  /\ UNCHANGED <<entries, answer, short>>

Added ==
  /\ call # NoCall
  /\ ~Holds(call.name)
  /\ entries' = Append(entries, call)
  /\ call' = NoCall
  /\ answer' = Answer("add", call.name, call.value)
  /\ short' = FALSE

Present ==
  /\ call # NoCall
  /\ Holds(call.name)
  /\ call' = NoCall
  /\ answer' = Answer("add", call.name, None)
  /\ short' = FALSE
  /\ UNCHANGED entries

OutOfMemory ==
  /\ call # NoCall
  /\ ~Holds(call.name)
  /\ call' = NoCall
  /\ answer' = Answer("add", call.name, None)
  /\ short' = TRUE
  /\ UNCHANGED entries

Got(n) ==
  /\ call = NoCall
  /\ Holds(n)
  /\ \E i \in DOMAIN entries :
       /\ entries[i].name = n
       /\ answer' = Answer("get", n, entries[i].value)
  /\ short' = FALSE
  /\ UNCHANGED <<entries, call>>

NotThere(n) ==
  /\ call = NoCall
  /\ ~Holds(n)
  /\ answer' = Answer("get", n, None)
  /\ short' = FALSE
  /\ UNCHANGED <<entries, call>>

GotAt(i) ==
  /\ call = NoCall
  /\ answer' = Answer("at", entries[i].name, entries[i].value)
  /\ short' = FALSE
  /\ UNCHANGED <<entries, call>>

PastTheEnd ==
  /\ call = NoCall
  /\ answer' = Answer("at", None, None)
  /\ short' = FALSE
  /\ UNCHANGED <<entries, call>>

Emptied ==
  /\ call = NoCall
  /\ entries' = <<>>
  /\ answer' = Answer("free", None, None)
  /\ short' = FALSE
  /\ UNCHANGED call

Next ==
  \/ \E n \in Names, v \in Values : Call(n, v)
  \/ Added \/ Present \/ OutOfMemory
  \/ \E n \in Names : Got(n) \/ NotThere(n)
  \/ \E i \in DOMAIN entries : GotAt(i)
  \/ PastTheEnd \/ Emptied

Spec == Init /\ [][Next]_vars
=============================================================================
