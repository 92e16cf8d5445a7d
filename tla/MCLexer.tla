------------------------------ MODULE MCLexer ------------------------------
(***************************************************************************)
(* All short texts over a few alphabets, each of characters whose meaning  *)
(* depends on their neighbours, read by a parser that looks ahead at will, *)
(* and what may lie behind the buffer of a text that the end cuts off.     *)
(***************************************************************************)
EXTENDS Lexer

Words(alphabet, length) == UNION {[1 .. n -> alphabet] : n \in 0 .. length}

After(prefix, alphabet, length) == {prefix \o w : w \in Words(alphabet, length)}

AllTexts ==
  UNION {Words({"+", "-", ":", "=", ">"}, 4), Words({"<", ">", "=", "-", "!"}, 4),
         Words({"&", "|", "=", "^", "%"}, 3), Words({".", "*", "[", "]", "?"}, 5),
         Words({".", "{", "&", "1"}, 3), Words({"/", "*", "\n", "a", "nul"}, 6),
         Words({"0", "1", "b", ".", "x"}, 5), Words({"0", "9", "o", "_"}, 3),
         After(<<"0", "x">>, {"a", "f", "1", "i"}, 3), After(<<"0", "o">>, {"7", "8", "0"}, 3),
         After(<<"1", ".", "0", "e">>, {"+", "1", "a", "."}, 3),
         Words({"i", "f", " ", "_", "1"}, 5), Words({"\"", "a", "\n", "'"}, 5),
         After(<<"'">>, {"'", "\\", "n", "a"}, 4), After(<<"'", "\\", "x">>, {"0", "a", "'"}, 4),
         After(<<"'", "\\", "u", "0", "0">>, {"1", "'", "a"}, 3),
         After(<<"'">>, {"lead2", "lead3", "cont", "'"}, 3),
         After(<<"\"">>, {"\\", "n", "\"", "a"}, 3)}

\* A string in which something is escaped: an escape between two quotes.
EscapeInString(t) == "\"" \in ToSet(t) /\ "\\" \in ToSet(t)

LogicalOr(t) == \E i \in 1 .. Len(t) - 1 : t[i] = "|" /\ t[i + 1] = "|"

Binary(t) == \E i \in 1 .. Len(t) - 3 : t[i] = "0" /\ t[i + 1] = "b"

\* An exponent without digits.
NoExponent(t) ==
  \E i \in DOMAIN t : t[i] = "e" /\ i # 1 /\ t[i - 1] = "0" /\ Len(t) > 3 /\
     LET next == SubSeq(t, i + 1, Len(t)) \o <<"end", "end">>
     IN  next[1] \notin Digits /\ ~(next[1] \in {"+", "-"} /\ next[2] \in Digits)

\* Bytes that would end, if they were read, what a file began.
BeyondBuffer == {<<>>, <<"'", "a">>, <<"\"">>, <<"*", "/", "a">>}

\* Texts that begin something the end of the file may cut off.
MayBeCutOff(t) == ToSet(t) \cap {"'", "\"", "\\", "/"} # {}

PlainTexts ==
  {t \in AllTexts : ~EscapeInString(t) /\ ~LogicalOr(t) /\ ~Binary(t) /\ ~NoExponent(t)}

\* What the file should be read as, kept with the behaviour.
VARIABLE lexemes

Stream == INSTANCE TokenStream WITH refused <- failure # NoFailure

\* A file that ends with the quote that opens a character literal: the text
\* before it is one of lexemes.
EndsInQuote(t) ==
  /\ t # <<>>
  /\ Last(t) = "'"
  /\ LET before == Stream!Lexemes(Front(t), TRUE) IN before # <<>> /\ Last(before).token = "end"

WholeTexts == {t \in PlainTexts : ~EndsInQuote(t)}
QuoteTexts == {t \in PlainTexts : EndsInQuote(t)}

\* What lies beyond is varied where something may reach it.
MCInit ==
  /\ Init
  /\ beyond # <<>> => MayBeCutOff(text)
  /\ lexemes = Stream!Lexemes(text, is_std)

MCNext == Next /\ UNCHANGED lexemes

mcvars == <<vars, lexemes>>

MCSpec == MCInit /\ [][MCNext]_mcvars

\* What the scanner hands out, however far the parser looks ahead, is the
\* stream of lexemes of the file, and only a file with a lexeme that cannot be
\* read is refused (next, peek, peek_n and the scan functions).
HandsOutLexemes == Stream!Spec

\* Every lexeme is in the file: its id is that of a character, or the one extra
\* id that read_source_file gives a file for the token at its end.
WithinFile == \A i \in DOMAIN taken : taken[i].at <= Len(text) + 1
=============================================================================
