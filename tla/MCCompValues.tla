---------------------------- MODULE MCCompValues ----------------------------
(***************************************************************************)
(* Bytes of three bits and words of four bytes: fixed integers have 3, 6   *)
(* or 12 bits, compile-time integers 11.  Every value of the smallest type *)
(* is an operand, and of the others those around zero, the bounds and the  *)
(* middle.                                                                 *)
(***************************************************************************)
EXTENDS CompValues

MCTypes == [bytes : {1, 2, 4}, signed : BOOLEAN]

Edges(bits) ==
  {0, 1, 2, 3, 2^(bits - 1) - 1, 2^(bits - 1), 2^(bits - 1) + 1, 2^bits - 2, 2^bits - 1, 2^(bits \div 2), 2^(bits \div 2) + 5}

MCReps(t) == IF t.bytes = 1 THEN 0 .. 2^Bits(t) - 1 ELSE Edges(Bits(t))

MCCompInts == {-2^10, -2^10 + 1, -33, -9, -5, -4, -2, -1, 0, 1, 2, 3, 4, 6, 7, 8, 11, 31, 32, 2^6, 2^9, 2^10 - 1}

MCOperands ==
  UNION {{[type |-> t, rep |-> rep] : rep \in MCReps(t)} : t \in MCTypes}
    \cup {[type |-> CompInteger, rep |-> CompRep(x)] : x \in MCCompInts}
=============================================================================
