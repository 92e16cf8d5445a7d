---------------------------- MODULE MCShadowStore ----------------------------
(* ShadowStore on two composites and a few variables. *)
EXTENDS ShadowStore

\* Type and CompInteger, in units of four bytes.
MCMetrics == [Type |-> [size |-> 1, align |-> 1], CompInteger |-> [size |-> 2, align |-> 2]]

\* Two shadows at the begin of Tagged, one there and one at the end of Trailed.
\* No datum begins or ends where a shadow lies, and each variable is followed
\* by padding.
Apart ==
  [Tagged |-> [size |-> 3, align |-> 4, data |-> {[offset |-> 1, size |-> 1]},
               shadows |-> <<[offset |-> 0, type |-> "Type"], [offset |-> 0, type |-> "CompInteger"]>>],
   Trailed |-> [size |-> 3, align |-> 4, data |-> {[offset |-> 1, size |-> 1]},
                shadows |-> <<[offset |-> 3, type |-> "Type"], [offset |-> 0, type |-> "Type"]>>]]

\* The composite of shadow-and-normal-member.evl, whose members both lie at
\* offset 0.
Together ==
  [MyType |-> [size |-> 2, align |-> 2, data |-> {[offset |-> 0, size |-> 2]},
               shadows |-> <<[offset |-> 0, type |-> "Type"]>>]]

\* Variables of this one leave no padding between them.
Touching ==
  [MyType |-> [size |-> 2, align |-> 2, data |-> {},
               shadows |-> <<[offset |-> 0, type |-> "Type"]>>]]

=============================================================================
