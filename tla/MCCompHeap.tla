----------------------------- MODULE MCCompHeap -----------------------------
(***************************************************************************)
(* A heap of ten slots for TLC.  Slots are scaled from 16 to 4 bytes,      *)
(* with the reuse limit at the same place in the second class (5 for 18)   *)
(* and three free lists for fourteen.                                      *)
(***************************************************************************)
EXTENDS CompHeap

MCClassSize == [k \in 0 .. NumLists - 1 |-> MinSize * 2^k]

Plain(size, align) == [size |-> size, align |-> align, hdr |-> FALSE]

Global(size, align) == [size |-> size, align |-> align, hdr |-> TRUE]

\* Zero bytes, a slot, a partial second slot, whole slots, and as many as make
\* entries of MaxFreelistSize; alignments below, at and above the slot size;
\* global members aligned to at most a slot, one small enough for a free list.
MCRequests == {Plain(0, 1), Plain(4, 8), Plain(32, 4), Global(1, 1), Global(6, 4)}

\* The same callers with a global member of a type aligned to two slots, such
\* as _integer(256, false).
WideRequests == {Plain(4, 2), Global(8, 8)}
=============================================================================
