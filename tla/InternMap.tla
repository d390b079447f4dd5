------------------------------ MODULE InternMap ------------------------------
(***************************************************************************)
(* What an interning map promises its users (ValueStore,                   *)
(* type_to_type_info_id): a key is given one index, for ever, different    *)
(* keys are given different indices, and only the value behind an index    *)
(* may be replaced.                                                        *)
(***************************************************************************)
EXTENDS Integers

CONSTANTS Keys, Values, Indexes

VARIABLE entries  \* the interned entries, records [key, index, value]

Init == entries = {}

(* A new key takes an index that no key has. *)
Intern(k, i, v) ==
  /\ \A e \in entries : e.key # k /\ e.index # i
  /\ entries' = entries \cup {[key |-> k, index |-> i, value |-> v]}

(* The value of an interned key is replaced; its index stays. *)
Replace(e, v) ==
  entries' = (entries \ {e}) \cup {[key |-> e.key, index |-> e.index, value |-> v]}

Next ==
  \E v \in Values :
    \/ \E k \in Keys, i \in Indexes : Intern(k, i, v)
    \/ \E e \in entries : Replace(e, v)

Spec == Init /\ [][Next]_entries
==============================================================================
