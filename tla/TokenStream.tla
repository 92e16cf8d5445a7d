---------------------------- MODULE TokenStream ----------------------------
(***************************************************************************)
(* What the parser may rely on: a file is the sequence of the longest      *)
(* lexemes that spaces and comments leave, the parser is handed them in    *)
(* their order, each once, and a file is refused only where no lexeme can  *)
(* be read.  Lexemes are given by a grammar, after the comments on enum    *)
(* Token in src/core/parse.cpp, where module Lexer follows the scan.       *)
(***************************************************************************)
EXTENDS Naturals, Sequences, SequencesExt, FiniteSetsExt, TLC

CONSTANTS Keywords, Builtins, MaxStringBytes

VARIABLES
  lexemes,  \* the lexemes of the file, up to where none can be read
  taken,    \* those the parser was handed
  refused   \* whether the file was refused

Digits == {ToString(n) : n \in 0 .. 9}
Letters == {"a", "b", "c", "d", "e", "f", "i", "n", "o", "u", "x", "X"}
HexLetters == {"a", "b", "c", "d", "e", "f"}
Lead == [u \in {"lead2", "lead3", "lead4"} |-> CASE u = "lead2" -> 1 [] u = "lead3" -> 2 [] u = "lead4" -> 3]

Operators ==
  {".", "..", ".[", ".{", "]", "[", "}", "{", ")", "(", "~", "!", "?", "...", "[...]", "[*]", "[?]",
   "[]", "*", "-", "+", "/", "+:", "-:", "*:", "%", ".&", ".*", "&", "|", "^", "<<", ">>", "&&", "||",
   "<", ">", "<=", ">=", "!=", "==", "=", "+=", "-=", "*=", "/=", "+:=", "-:=", "*:=", "%=", "&=",
   "|=", "^=", "<<=", ">>=", ":", ",", "<-", "->", "=>", "#", "_"}

Word(s) == FoldLeft(LAMBDA w, c : w \o c, "", s)
AllIn(s, chars) == ToSet(s) \subseteq chars

-----------------------------------------------------------------------------
(* The grammar of lexemes *)

IsName(s) == Head(s) \in Letters /\ AllIn(s, Letters \cup Digits \cup {"_"})
IsBuiltin(s) == Head(s) = "_" /\ Len(s) > 1 /\ AllIn(s, Letters \cup Digits \cup {"_"})

\* The digits of a number in a base, without the prefix that names it.
BaseDigits == ("b" :> {"0", "1"}) @@ ("o" :> Digits \ {"8", "9"}) @@ ("x" :> Digits \cup HexLetters)
IsDecimal(s) == s # <<>> /\ AllIn(s, Digits)
IsBased(s) ==
  /\ Len(s) > 2
  /\ s[1] = "0"
  /\ s[2] \in DOMAIN BaseDigits
  /\ AllIn(SubSeq(s, 3, Len(s)), BaseDigits[s[2]])

IsFloat(s) ==
  \E dot \in DOMAIN s :
    /\ s[dot] = "."
    /\ IsDecimal(SubSeq(s, 1, dot - 1))
    /\ \E end \in dot + 1 .. Len(s) :
         /\ IsDecimal(SubSeq(s, dot + 1, end))
         /\ \/ end = Len(s)
            \/ /\ s[end + 1] = "e"
               /\ \E sign \in {0, 1} :
                    /\ sign = 1 => end + 2 <= Len(s) /\ s[end + 2] \in {"+", "-"}
                    /\ IsDecimal(SubSeq(s, end + 2 + sign, Len(s)))

\* One character of a literal, plain or escaped.
IsUnit(s) ==
  \/ Len(s) = 1 /\ s[1] \notin {"\\", "cont"} \cup DOMAIN Lead
  \/ Head(s) \in DOMAIN Lead /\ Len(s) = 1 + Lead[Head(s)] /\ AllIn(Tail(s), {"cont"})
  \/ Len(s) = 2 /\ s[1] = "\\" /\ s[2] \in {"\\", "'", "\"", "0", "a", "b", "f", "n", "r", "t", "v"}
  \/ Len(s) = 4 /\ SubSeq(s, 1, 2) = <<"\\", "x">> /\ AllIn(SubSeq(s, 3, 4), Digits \cup HexLetters)
  \/ Len(s) = 6 /\ SubSeq(s, 1, 2) = <<"\\", "u">> /\ AllIn(SubSeq(s, 3, 6), Digits)

Quoted(s, quote) == Len(s) > 1 /\ Head(s) = quote /\ Last(s) = quote
Inner(s) == SubSeq(s, 2, Len(s) - 1)
IsChar(s) == Quoted(s, "'") /\ s # <<"'", "'">> /\ IsUnit(Inner(s))
IsString(s) == Quoted(s, "\"") /\ ToSet(Inner(s)) \cap {"\"", "\\", "\n", "nul"} = {}

IsNumber(s) == IsDecimal(s) \/ IsBased(s) \/ IsFloat(s)
IsLexeme(s) ==
  \/ IsName(s) \/ IsBuiltin(s) \/ IsNumber(s) \/ IsChar(s) \/ IsString(s)
  \/ Word(s) \in Operators

-----------------------------------------------------------------------------
(* Tokens and values *)

DigitValue(c) ==
  IF c \in Digits THEN CHOOSE n \in 0 .. 9 : c = ToString(n)
  ELSE CASE c = "a" -> 10 [] c = "b" -> 11 [] c = "c" -> 12 [] c = "d" -> 13 [] c = "e" -> 14
         [] c = "f" -> 15

\* Every digit times its weight.
InBase(s, base) ==
  LET weight[j \in DOMAIN s] == IF j = Len(s) THEN 1 ELSE base * weight[j + 1]
  IN  MapThenSumSet(LAMBDA j : DigitValue(s[j]) * weight[j], DOMAIN s)

BaseOf == ("b" :> 2) @@ ("o" :> 8) @@ ("x" :> 16)

CharValue(unit) ==
  IF Head(unit) # "\\" THEN [units |-> unit]
  ELSE IF Len(unit) = 2 THEN [escape |-> unit[2]]
  ELSE [codepoint |-> InBase(SubSeq(unit, 3, Len(unit)), IF unit[2] = "u" THEN 10 ELSE 16)]

Nothing == [none |-> TRUE]

\* The token and the value of a lexeme.
Meaning(s) ==
  CASE IsName(s) -> IF Word(s) \in Keywords THEN <<Word(s), Nothing>> ELSE <<"name", [name |-> Word(s)]>>
    [] IsBuiltin(s) -> <<"builtin", [name |-> Word(s)]>>
    [] IsDecimal(s) -> <<"integer", [number |-> InBase(s, 10)]>>
    [] IsBased(s) -> <<"integer", [number |-> InBase(SubSeq(s, 3, Len(s)), BaseOf[s[2]])]>>
    [] IsFloat(s) -> <<"float", [float |-> Word(s)]>>
    [] IsChar(s) -> <<"char", CharValue(Inner(s))>>
    [] IsString(s) -> <<"string", [units |-> Inner(s)]>>
    [] OTHER -> <<Word(s), Nothing>>

-----------------------------------------------------------------------------
(* The lexemes of a text *)

Pair(text, j) == j < Len(text) /\ text[j] \o text[j + 1] \in {"/*", "*/"}

\* The position behind the comment that begins at i, or 0 if it does not end
\* before a zero byte.
CommentEnd(text, i) ==
  LET step(state, j) ==
        IF state.end # 0 \/ j < state.from \/ ~Pair(text, j) THEN state
        ELSE LET depth == IF text[j] = "/" THEN state.depth + 1 ELSE state.depth - 1
             IN  [depth |-> depth, from |-> j + 2, end |-> IF depth = 0 THEN j + 2 ELSE 0]
      end == FoldLeft(step, [depth |-> 0, from |-> i, end |-> 0], [j \in 1 .. Len(text) |-> j]).end
  IN  IF \E j \in i .. end - 1 : text[j] = "nul" THEN 0 ELSE end

\* Where the space from i on ends, or 0 within a comment that does not.
RECURSIVE SpaceFrom(_, _)
SpaceFrom(text, i) ==
  LET starts(s) == i < Len(text) /\ text[i] \o text[i + 1] = s
      newlines  == {j \in i .. Len(text) : text[j] \in {"\n", "nul"}}
  IN  IF i > Len(text) THEN i
      ELSE IF text[i] \in {" ", "\t", "\n", "\r"} THEN SpaceFrom(text, i + 1)
      ELSE IF starts("//") THEN SpaceFrom(text, Min(newlines \cup {Len(text) + 1}))
      ELSE IF starts("/*")
      THEN IF CommentEnd(text, i) = 0 THEN 0 ELSE SpaceFrom(text, CommentEnd(text, i))
      ELSE i

LexemeAt(token, value, at) == [token |-> token, value |-> value, at |-> at]

\* What may not follow or make up a lexeme although it could be read as one.
Refused(text, std, i, end) ==
  LET s       == SubSeq(text, i, end)
      next(j) == IF end + j <= Len(text) THEN text[end + j] ELSE "nul"
  IN  \/ IsNumber(s) /\ next(1) \in Letters \cup Digits \cup {"_"}
      \/ IsDecimal(s) /\ next(1) = "." /\ next(2) # "."
      \/ IsBuiltin(s) /\ ~(std /\ Word(s) \in Builtins)
      \/ IsString(s) /\ Len(s) - 2 > MaxStringBytes
      \/ s = <<"*">> /\ next(1) = "/"

RECURSIVE LexemesFrom(_, _, _)
LexemesFrom(text, std, i) ==
  LET at   == SpaceFrom(text, i)
      ends == {j \in at .. Len(text) : IsLexeme(SubSeq(text, at, j))}
      s    == Meaning(SubSeq(text, at, Max(ends)))
  IN  IF at > Len(text) THEN <<LexemeAt("end", Nothing, at)>>
      ELSE IF at = 0 THEN <<>>
      ELSE IF ends = {} THEN <<>>
      ELSE IF Refused(text, std, at, Max(ends)) THEN <<>>
      ELSE <<LexemeAt(s[1], s[2], at)>> \o LexemesFrom(text, std, Max(ends) + 1)

Lexemes(text, std) == LexemesFrom(text, std, 1)

-----------------------------------------------------------------------------
vars == <<lexemes, taken, refused>>

Begin == taken = <<>> /\ refused = FALSE

\* The parser is handed the next lexeme.
Take ==
  /\ ~refused
  /\ Len(taken) < Len(lexemes)
  /\ taken' = Append(taken, lexemes[Len(taken) + 1])
  /\ UNCHANGED <<lexemes, refused>>

\* Some lexeme cannot be read; whether the parser is handed those before it
\* depends on how far it looks ahead.
Refuse ==
  /\ ~refused
  /\ lexemes = <<>> \/ Last(lexemes).token # "end"
  /\ refused' = TRUE
  /\ UNCHANGED <<lexemes, taken>>

Spec == Begin /\ [][Take \/ Refuse]_vars
=============================================================================
