------------------------------- MODULE Lexer -------------------------------
(***************************************************************************)
(* The scanner of src/core/parse.cpp: characters to lexemes, one lexeme at *)
(* a time and with any look-ahead, as the parser asks for them.  A         *)
(* character is a string of length one; the units of a character beyond    *)
(* ASCII are "lead2", "lead3", "lead4" and "cont".  Tokens are spelled as  *)
(* module Parser expects them.  A position is an index into the text, the  *)
(* code's SourceId less the base of the file.                              *)
(***************************************************************************)
EXTENDS Naturals, Sequences, SequencesExt, FiniteSetsExt, TLC

CONSTANTS
  Texts,           \* the contents a file may have
  Beyonds,         \* what memory may hold behind the buffer of a file
  Keywords,        \* KEYWORDS without the names of builtins
  Builtins,        \* the names of builtins, which begin with an underscore
  MaxStringBytes,  \* MAX_STRING_LITERAL_BYTES
  MaxLookahead     \* the largest n of a call of peek_n

ASSUME {MaxStringBytes, MaxLookahead} \subseteq Nat

VARIABLES
  text,     \* the file's content
  beyond,   \* the bytes that happen to lie behind the buffer it was read into
  is_std,   \* whether the file may use builtins
  curr,     \* the position of the next character
  peek,     \* the lexeme that was looked at and not taken
  taken,    \* the lexemes handed to the parser
  failure   \* the error that ended the parse, and where it was reported

vars == <<text, beyond, is_std, curr, peek, taken, failure>>

Nothing == [none |-> TRUE]
Lexeme(token, value, at) == [token |-> token, value |-> value, at |-> at]

\* The token EMPTY; "at" outlives the lexeme.
NoLexeme(at) == Lexeme("", Nothing, at)
NoFailure == [error |-> "none", at |-> 0]

-----------------------------------------------------------------------------
(* Characters *)

Digits == {"0", "1", "2", "3", "4", "5", "6", "7", "8", "9"}
DigitValue == [d \in Digits |-> CHOOSE n \in 0 .. 9 : ToString(n) = d]
HexValue == DigitValue @@ ("a" :> 10 @@ "b" :> 11 @@ "c" :> 12 @@ "d" :> 13 @@ "e" :> 14 @@ "f" :> 15)
Letters == {"a", "b", "c", "d", "e", "f", "i", "n", "o", "u", "x", "X"}
NameChars == Letters \cup Digits \cup {"_"}
Whitespace == {" ", "\t", "\n", "\r"}

\* A file's content is read with a zero byte behind it, the last of its buffer.
\* What lies beyond is followed by a zero byte as well.
At(i) ==
  IF i <= Len(text) THEN text[i]
  ELSE IF i - Len(text) - 1 \in DOMAIN beyond THEN beyond[i - Len(text) - 1]
  ELSE "nul"

\* A position where there is certainly a zero byte, for the scans from i on.
Rim(i) == Max({i, Len(text) + Len(beyond) + 2})

Slice(i, j) == [k \in 1 .. j - i + 1 |-> At(i + k - 1)]

Spelled(i, j) == FoldLeft(LAMBDA s, c : s \o c, "", Slice(i, j))

Ahead(i, s) == Spelled(i, i + Len(s) - 1) = s

\* The position of the first character from i on that is not one of these.
Behind(i, chars) == Min({j \in i .. Rim(i) : At(j) \notin chars})

Number(i, j, base) == FoldLeft(LAMBDA v, c : v * base + HexValue[c], 0, Slice(i, j))

-----------------------------------------------------------------------------
(* What a scan finds: a token that ends before "next", or an error.  Errors *)
(* are reported at the position of the lexeme last looked at.               *)

Found(token, value, next) == [token |-> token, value |-> value, next |-> next]
Fails(error) == [error |-> error]
Failed(found) == "error" \in DOMAIN found

\* The numbers of digits that end before an optional sign.
ExponentEnd(i) ==
  IF At(i) # "e" THEN i
  ELSE Behind(IF At(i + 1) \in {"+", "-"} THEN i + 2 ELSE i + 1, Digits)

\* scan_number_token_with_base: a binary number is scaled by ten.
NumberWithBase(i) ==
  LET base   == At(i + 1)
      digits == CASE base = "b" -> {"0", "1"} [] base = "o" -> Digits \ {"8", "9"}
                  [] OTHER -> DOMAIN HexValue
      scale  == CASE base = "b" -> 10 [] base = "o" -> 8 [] OTHER -> 16
      end    == Behind(i + 2, digits)
  IN  IF end = i + 2 THEN Fails("NumberWithBaseMissingDigits")
      ELSE IF At(end) \in NameChars THEN Fails("NumberUnexpectedCharacterAfterInteger")
      ELSE Found("integer", [number |-> Number(i + 2, end - 1, scale)], end)

\* scan_number_token.  strtod reads what the scan read, up to an exponent
\* without digits.
NumberFrom(i) ==
  LET whole == Behind(i, Digits)
      part  == Behind(whole + 1, Digits)
      end   == ExponentEnd(part)
      float == At(whole) = "." /\ At(whole + 1) # "."
  IN  IF float
      THEN IF part = whole + 1 THEN Fails("NumberUnexpectedCharacterAfterDecimalPoint")
           ELSE IF At(end) \in Letters \cup {"_"} THEN Fails("NumberUnexpectedCharacterAfterFloat")
           ELSE Found("float", [float |-> Spelled(i, end - 1)], end)
      ELSE IF At(whole) \in Letters \cup {"_"} THEN Fails("NumberUnexpectedCharacterAfterFloat")
      ELSE Found("integer", [number |-> Number(i, whole - 1, 10)], whole)

\* scan_identifier_token
Name(i, builtin) ==
  LET end  == Behind(i, NameChars)
      name == Spelled(i, end - 1)
  IN  IF ~builtin
      THEN IF name \in Keywords THEN Found(name, Nothing, end)
           ELSE Found("name", [name |-> name], end)
      ELSE IF name \in Builtins THEN Found("builtin", [name |-> name], end)
      ELSE Fails("BuiltinUnknown")

\* scan_escape_char, i being the backslash: the codepoint, and the next position.
Escape(i) ==
  LET escapee == At(i + 1)
      digits  == CASE escapee = "x" -> 2 [] escapee = "X" -> 6 [] escapee = "u" -> 4 [] OTHER -> 0
      valid   == IF escapee = "u" THEN Digits ELSE DOMAIN HexValue
      base    == IF escapee = "u" THEN 10 ELSE 16
      value   == Number(i + 2, i + 1 + digits, base)
      simple  == {"\\", "'", "\"", "0", "a", "b", "f", "n", "r", "t", "v"}
  IN  IF escapee \in simple THEN Found("escape", [escape |-> escapee], i + 2)
      ELSE IF digits = 0 THEN Fails("EscapeSequenceUnknown")
      ELSE IF \E j \in 2 .. digits + 1 : At(i + j) \notin valid THEN Fails("EscapeSequenceBadChar")
      ELSE IF escapee = "X" /\ value > 1114111 THEN Fails("EscapeSequenceCodepointTooLarge")
      ELSE Found("escape", [codepoint |-> value], i + 2 + digits)

\* scan_utf8_char and scan_utf8_char_surrogates
Utf8Char(i) ==
  LET lead  == At(i)
      units == CASE lead = "lead2" -> 1 [] lead = "lead3" -> 2 [] lead = "lead4" -> 3 [] OTHER -> 0
  IN  IF lead = "cont" THEN Fails("CharacterBadLeadCodeUnit")
      ELSE IF \E j \in 1 .. units : At(i + j) # "cont" THEN Fails("CharacterBadSurrogateCodeUnit")
      ELSE Found("utf8", [units |-> [j \in 1 .. units + 1 |-> At(i + j - 1)]], i + units + 1)

\* scan_char_token, i being behind the quote.  With the quote last in the file
\* the zero byte is taken for the character, and what lies beyond decides.
CharFrom(i) ==
  LET char == IF At(i) = "\\" THEN Escape(i) ELSE Utf8Char(i)
  IN  IF Failed(char) THEN char
      ELSE IF At(char.next) # "'" THEN Fails("CharacterExpectedEnd")
      ELSE Found("char", char.value, char.next + 1)

\* The closing quote of a string or what is wrong before it, and the escapes
\* on the way.
RECURSIVE StringEnd(_, _)
StringEnd(j, escapes) ==
  CASE At(j) = "\"" -> [next |-> j, escapes |-> escapes]
    [] At(j) = "\n" -> [error |-> "StringCrossesNewline", escapes |-> escapes]
    [] At(j) = "nul" -> [error |-> "StringMissingEnd", escapes |-> escapes]
    [] At(j) = "\\" -> IF Failed(Escape(j)) THEN Escape(j) @@ [escapes |-> escapes + 1]
                       ELSE StringEnd(Escape(j).next, escapes + 1)
    [] OTHER -> StringEnd(j + 1, escapes)

\* scan_string_token, i being behind the quote.  What follows an escape is
\* measured and copied from the buffer instead of from the text, by the
\* distance between the two: mostly that is too long, else it is other bytes.
StringFrom(i) ==
  LET end   == StringEnd(i, 0)
      first == Min({j \in i .. Rim(i) : At(j) \in {"\"", "\n", "\\", "nul"}})
      long  == {Fails("StringTooLong")}
  IN  IF end.escapes = 0 /\ Failed(end) THEN {Fails(end.error)}
      ELSE IF first - i > MaxStringBytes THEN long
      ELSE IF end.escapes = 0 THEN {Found("string", [units |-> Slice(i, end.next - 1)], end.next + 1)}
      ELSE IF Failed(end) THEN {Fails(end.error)} \cup (IF end.escapes > 1 THEN long ELSE {})
      ELSE {Found("string", [unknown |-> TRUE], end.next + 1)} \cup long

-----------------------------------------------------------------------------
(* Punctuation *)

\* By their first character, the continuations next_without_source tries, in
\* its order; the first that follows is part of the token.
ArithmeticTokens ==
  ("+" :> <<"=", ":=", ":">>) @@ ("-" :> <<">", ":=", ":", "=">>) @@ ("*" :> <<"=", ":=", ":">>)
  @@ ("/" :> <<"=">>) @@ ("%" :> <<"=">>)

LogicTokens ==
  ("&" :> <<"&", "=">>) @@ ("|" :> <<"|", "=">>) @@ ("^" :> <<"=">>)
  @@ ("<" :> <<"<=", "<", "=", "-">>) @@ (">" :> <<">=", ">", "=">>)

OtherTokens ==
  ("." :> <<"..", ".", "*", "[", "{", "&">>) @@ ("!" :> <<"=">>) @@ ("=" :> <<"=", ">">>)
  @@ ("[" :> <<"...]", "*]", "?]", "]">>)
  @@ [c \in {"~", "?", ":", ",", "#", "]", "{", "}", "(", ")"} |-> <<>>]

Continuations == ArithmeticTokens @@ LogicTokens @@ OtherTokens

\* Both logical operators give the token of the first.
TokenOf(spelling) == IF spelling = "||" THEN "&&" ELSE spelling

Punctuation(i) ==
  LET rest    == Continuations[At(i)]
      follow  == {k \in DOMAIN rest : Ahead(i + 1, rest[k])}
      matched == IF follow = {} THEN "" ELSE rest[Min(follow)]
  IN  IF At(i) = "*" /\ At(i + 1) = "/" THEN Fails("CommentMismatchedEnd")
      ELSE Found(TokenOf(At(i) \o matched), Nothing, i + 1 + Len(matched))

-----------------------------------------------------------------------------
(* Space between lexemes *)

\* skip_block_comment: comments nest.  The error at the end of the file is
\* reported relative to the comment, as if the comment began the file.
RECURSIVE BlockCommentEnd(_, _, _)
BlockCommentEnd(start, j, nesting) ==
  CASE nesting = 0 -> [next |-> j]
    [] nesting # 0 /\ Ahead(j, "/*") -> BlockCommentEnd(start, j + 2, nesting + 1)
    [] nesting # 0 /\ Ahead(j, "*/") -> BlockCommentEnd(start, j + 2, nesting - 1)
    [] nesting # 0 /\ At(j) = "nul" -> [error |-> "NullCharacter", at |-> j - start + 1]
    [] OTHER -> BlockCommentEnd(start, j + 1, nesting)

\* skip_whitespace
RECURSIVE SpaceEnd(_)
SpaceEnd(i) ==
  LET j       == Behind(i, Whitespace)
      comment == BlockCommentEnd(j, j + 2, 1)
  IN  CASE Ahead(j, "//") -> SpaceEnd(Min({k \in j .. Rim(j) : At(k) \in {"\n", "nul"}}))
        [] Ahead(j, "/*") -> IF Failed(comment) THEN comment ELSE SpaceEnd(comment.next)
        [] OTHER -> [next |-> j]

-----------------------------------------------------------------------------
(* The lexeme at i: next_without_source *)

ScanAt(i) ==
  LET c == At(i)
  IN  CASE c \in Letters -> {Name(i, FALSE)}
        [] c = "0" /\ At(i + 1) \in {"b", "o", "x"} -> {NumberWithBase(i)}
        [] c \in Digits /\ ~(c = "0" /\ At(i + 1) \in {"b", "o", "x"}) -> {NumberFrom(i)}
        [] c = "'" -> {CharFrom(i + 1)}
        [] c = "\"" -> StringFrom(i + 1)
        [] c = "_" -> {IF At(i + 1) \notin NameChars THEN Found("_", Nothing, i + 1)
                      ELSE IF is_std THEN Name(i, TRUE) ELSE Fails("IdentifierInitialUnderscore")}
        [] c \in DOMAIN Continuations -> {Punctuation(i)}
        [] c = "nul" -> {IF i = Len(text) + 1 THEN Found("end", Nothing, i) ELSE Fails("NullCharacter")}
        [] OTHER -> {Fails("UnexpectedCharacter")}

\* next, with nothing looked at: the space, then a lexeme.  "at" is the
\* position errors in the lexeme are reported at.
Scan(i, at) ==
  LET space == SpaceEnd(i)
  IN  IF Failed(space) THEN {space}
      ELSE {IF Failed(found) THEN [error |-> found.error, at |-> at]
            ELSE [lexeme |-> Lexeme(found.token, found.value, space.next), next |-> found.next] :
              found \in ScanAt(space.next)}

-----------------------------------------------------------------------------
(* The parser's calls *)

Init ==
  /\ text \in Texts
  /\ beyond \in Beyonds
  /\ is_std \in BOOLEAN
  /\ curr = 1
  /\ peek = NoLexeme(0)
  /\ taken = <<>>
  /\ failure = NoFailure

\* The parser asks until an error has ended the parse or it has taken the end
\* of the file.
Parsing == failure = NoFailure /\ (taken # <<>> => Last(taken).token # "end")

Fail(found) ==
  /\ failure' = [error |-> found.error, at |-> found.at]
  /\ UNCHANGED <<text, beyond, is_std, curr, peek, taken>>

\* next: the lexeme that was looked at, if any.
TakePeeked ==
  /\ Parsing
  /\ peek.token # ""
  /\ taken' = Append(taken, peek)
  /\ peek' = NoLexeme(peek.at)
  /\ UNCHANGED <<text, beyond, is_std, curr, failure>>

TakeScanned ==
  /\ Parsing
  /\ peek.token = ""
  /\ \E found \in Scan(curr, peek.at) :
       IF Failed(found) THEN Fail(found)
       ELSE /\ taken' = Append(taken, found.lexeme)
            /\ curr' = found.next
            /\ UNCHANGED <<text, beyond, is_std, peek, failure>>

\* What reading n lexemes behind i leads to: an error, or nothing that stays.
RECURSIVE Reads(_, _, _)
Reads(i, n, at) ==
  IF n = 0 THEN {[next |-> i]}
  ELSE UNION {IF Failed(found) THEN {found} ELSE Reads(found.next, n - 1, at) : found \in Scan(i, at)}

\* Mutant: the lexemes looked at ahead are not put back.
PeekForward(n) ==
  /\ Parsing
  /\ n = 0 => peek.token = ""
  /\ \E found \in IF peek.token = "" THEN Scan(curr, peek.at) ELSE {[lexeme |-> peek, next |-> curr]} :
       IF Failed(found) THEN Fail(found)
       ELSE \E ahead \in Reads(found.next, n, found.lexeme.at) :
              IF Failed(ahead) THEN Fail(ahead)
              ELSE /\ peek' = found.lexeme
                   /\ curr' = ahead.next
                   /\ UNCHANGED <<text, beyond, is_std, taken, failure>>

\* peek, and peek_n: the position is put back behind the lexeme looked at.
Peek(n) ==
  /\ Parsing
  /\ n = 0 => peek.token = ""
  /\ \E found \in IF peek.token = "" THEN Scan(curr, peek.at) ELSE {[lexeme |-> peek, next |-> curr]} :
       IF Failed(found) THEN Fail(found)
       ELSE \E ahead \in Reads(found.next, n, found.lexeme.at) :
              IF Failed(ahead) THEN Fail(ahead)
              ELSE /\ peek' = found.lexeme
                   /\ curr' = found.next
                   /\ UNCHANGED <<text, beyond, is_std, taken, failure>>

Next ==
  \/ TakePeeked
  \/ TakeScanned
  \/ \E n \in 0 .. MaxLookahead : Peek(n)

Spec == Init /\ [][Next]_vars
=============================================================================
