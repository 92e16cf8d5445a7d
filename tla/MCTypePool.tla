----------------------------- MODULE MCTypePool -----------------------------
(* TypePool on two handles and a few other types. *)
EXTENDS TypePool

\* By rank, so that two composites of two members have the same names; a second
\* member may have the name of the first, and for a third there is no room.
MCNamesAt == <<{"x"}, {"x", "y"}, {"z"}>>
\* Callers choose between two names for a composite's only member.
ChosenNames == <<{"x", "y"}, {}>>
\* One member more than the code makes room for at first.
FiveNames == <<{"a"}, {"b"}, {"c"}, {"d"}, {"e"}>>
=============================================================================
