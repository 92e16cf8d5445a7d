---------------------------- MODULE HeapContract ----------------------------
(***************************************************************************)
(* What the compile-time heap promises its callers, without saying how     *)
(* memory is tracked: an allocation is aligned as requested, lies inside   *)
(* the reserved range past the null slot, and overlaps no object that is   *)
(* still allocated; objects change only by allocation and deallocation.    *)
(***************************************************************************)
EXTENDS Integers

CONSTANTS
  MinSize,    \* bytes of the null slot at the start of the heap
  Reserve,    \* bytes of the reserved range
  Requests    \* the [size, align, hdr] the callers ask for

VARIABLES
  objects,    \* allocated objects, [at, size] in bytes
  reply       \* outcome of the last call

vars == <<objects, reply>>

\* No byte is in both objects.
Apart(a, b) == a.at + a.size <= b.at \/ b.at + b.size <= a.at

Init == objects = {} /\ reply = [op |-> "init"]

\* A request of zero bytes without a header is served as one byte.
Served(r) == IF r.size = 0 /\ ~r.hdr THEN 1 ELSE r.size

Alloc(r, at) ==
  /\ reply' = [op |-> "alloc", at |-> at]
  /\ at \in MinSize .. Reserve
  /\ at % r.align = 0
  /\ at + Served(r) <= Reserve
  /\ \A o \in objects : Apart(o, [at |-> at, size |-> Served(r)])
  /\ objects' = objects \cup {[at |-> at, size |-> Served(r)]}

\* An allocation may fail; it then disturbs nothing.
Refuse ==
  /\ reply' = [op |-> "alloc", at |-> 0]
  /\ UNCHANGED objects

Dealloc(o) ==
  /\ o \in objects
  /\ objects' = objects \ {o}
  /\ reply' = [op |-> "dealloc"]

\* Calls that move no object: leaking one, or a failed assertion.
Other ==
  /\ reply' \in [op : {"leak"}, ok : BOOLEAN] \cup {[op |-> "assert"]}
  /\ UNCHANGED objects

Next ==
  \/ \E at \in MinSize .. Reserve : \E r \in Requests : Alloc(r, at)
  \/ Refuse
  \/ \E o \in objects : Dealloc(o)
  \/ Other

Spec == Init /\ [][Next]_vars
=============================================================================
