----------------------------- MODULE InternMap -----------------------------
(***************************************************************************)
(* What a map that interns keys promises: a key keeps the id it was given  *)
(* for as long as it is in the map, no two keys share an id, and a lookup  *)
(* finds a key exactly when it is in the map.                              *)
(***************************************************************************)
EXTENDS Naturals

CONSTANTS Keys, Ids

VARIABLES
  ids,      \* the id of every key in the map
  reply     \* outcome of the last call

vars == <<ids, reply>>

Present == DOMAIN ids

Init == ids = [k \in {} |-> 0] /\ reply = [op |-> "init"]

IdFrom(k, i) ==
  /\ reply' = [op |-> "id", key |-> k, id |-> i]
  /\ IF k \in Present
     THEN i = ids[k] /\ UNCHANGED ids
     ELSE /\ \A j \in Present : ids[j] # i
          /\ ids' = [j \in Present \cup {k} |-> IF j = k THEN i ELSE ids[j]]

TryIdFrom(k) ==
  /\ reply' = [op |-> "try", key |-> k, id |-> IF k \in Present THEN ids[k] ELSE 0]
  /\ UNCHANGED ids

Remove(k) ==
  /\ reply' = [op |-> "remove", key |-> k, found |-> k \in Present]
  /\ ids' = [j \in Present \ {k} |-> ids[j]]

\* The program ends when the map cannot grow.
Panic == reply' = [op |-> "panic"] /\ UNCHANGED ids

Next ==
  \/ \E k \in Keys : (\E i \in Ids : IdFrom(k, i)) \/ TryIdFrom(k) \/ Remove(k)
  \/ Panic

Spec == Init /\ [][Next]_vars
=============================================================================
