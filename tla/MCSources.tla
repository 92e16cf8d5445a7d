------------------------------ MODULE MCSources ------------------------------
(***************************************************************************)
(* A prelude, a main file and two files it imports, one of them under two  *)
(* paths (a link) and empty at first.  A text is short; what it is edited  *)
(* to has another size, other lines or other line ends.                    *)
(***************************************************************************)
EXTENDS Sources, TLC

MCFileOf == [prelude |-> "P", main |-> "M", lib |-> "A", link |-> "A", other |-> "B"]

MCTextOf ==
  [P |-> <<"x", "newline">>, M |-> <<"x", "return", "newline", "x">>, A |-> <<>>, B |-> <<"newline", "x", "x", "x">>]

MCEdited ==
  [P |-> {}, M |-> {<<"x">>}, A |-> {<<"x", "newline">>}, B |-> {<<"x", "return", "x", "x">>}]

MCResolve == (<<"main", "lib">> :> "lib") @@ (<<"main", "link">> :> "link") @@ (<<"main", "other">> :> "other")
              @@ (<<"other", "lib">> :> "lib") @@ (<<"lib", "main">> :> "main")
=============================================================================
