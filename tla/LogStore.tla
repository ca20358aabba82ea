------------------------------ MODULE LogStore ------------------------------
(* What the event log promises the agent, stated without files, buffers or   *)
(* fsync: an append-only sequence of records of which a prefix, never        *)
(* rewritten and never shortened, is guaranteed to survive any crash.        *)
(* EventLog (the writer) and Agent (its one client) are both shown to        *)
(* implement this module.                                                    *)
EXTENDS Naturals, Sequences

VARIABLES store,         \* every record a reader of the log would see, each
                         \* with a field seq
          kept           \* how many of them the log has guaranteed

vars == <<store, kept>>

Init == store = <<>> /\ kept = 0

(* t is s with one record more, numbered above all of s.                     *)
Extends(t, s) == /\ Len(t) = Len(s) + 1
                 /\ SubSeq(t, 1, Len(s)) = s
                 /\ \A i \in 1..Len(s) : s[i].seq < t[Len(t)].seq

(* Append returned without an error: the record, and everything before it,   *)
(* is there for good.                                                        *)
Commit == Extends(store', store) /\ kept' = Len(store')

(* The record is in the log although Append has not (or not yet) said so.    *)
Leave == Extends(store', store) /\ UNCHANGED kept

(* The log's owner learns that what was left is durable.                     *)
Settle == /\ kept < Len(store)
          /\ kept' = Len(store)
          /\ UNCHANGED store

(* A crash takes back records that were never guaranteed, newest first.      *)
Lose == \E n \in kept..Len(store) : /\ n < Len(store)
                                    /\ store' = SubSeq(store, 1, n)
                                    /\ UNCHANGED kept

Next == Commit \/ Leave \/ Settle \/ Lose

Spec == Init /\ [][Next]_vars
=============================================================================
