------------------------------ MODULE MCIdMap ------------------------------
(***************************************************************************)
(* Five keys in a table of 8 slots that may grow to 16, with probes of at  *)
(* most 3 slots.  The keys collide at the end of the table: their clusters *)
(* wrap around, displace each other, and exhaust probes both before and    *)
(* after the new key has been placed.                                      *)
(***************************************************************************)
EXTENDS IdMap

CONSTANTS ka, kb, kc, kd, ke

MCKeys == {ka, kb, kc, kd, ke}

\* ka, kb and kc: the same home in both tables, ka and kb with the
\* same fingerprint.  kd and ke: the next home, up to the growth.
MCHash == [k \in MCKeys |-> CASE k = ka -> 6
                              [] k = kb -> 38
                              [] k = kc -> 70
                              [] k = kd -> 7
                              [] k = ke -> 15]

\* Three keys for a table of two slots, two of them alike to it.
FullKeys == {ka, kb, kc}

FullHash == [k \in FullKeys |-> CASE k = ka -> 0 [] k = kb -> 32 [] k = kc -> 1]
=============================================================================
