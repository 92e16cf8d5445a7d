----------------------------- MODULE CompValues -----------------------------
(***************************************************************************)
(* Integers at compile time: the operator handlers of core/interpreter.cpp *)
(* and the representations of core/comp_values.cpp they work on.  A fixed  *)
(* integer is its bytes; a compile-time integer (CompInteger) is a word    *)
(* that holds twice its value, the lowest bit being a tag.  Both are given *)
(* by the natural number the bits spell.  The sizes of a byte and a word   *)
(* are parameters; floats, integers whose width is no power of two (the    *)
(* code stops at a TODO) and arrays are left out.                          *)
(***************************************************************************)
EXTENDS Integers

CONSTANTS
  ByteBits,   \* the bits of a byte: 8
  WordBytes,  \* the bytes of a word, the largest fixed type: 8
  Types,      \* the fixed types: bytes (1, 2, 4, ...) and signedness
  Operands    \* the values that are operated on

ASSUME SizeAssumption == ByteBits \in Nat /\ ByteBits >= 2 /\ WordBytes \in Nat \ {0}

ASSUME TypeAssumption == Types \subseteq [bytes : 1 .. WordBytes, signed : BOOLEAN]

WordBits == WordBytes * ByteBits

TwoTo[n \in 0 .. WordBits] == IF n = 0 THEN 1 ELSE 2 * TwoTo[n - 1]

\* TypeTag::CompInteger, with the word it is stored in.
CompInteger == [bytes |-> 0, signed |-> TRUE]
Word == [bytes |-> WordBytes, signed |-> TRUE]

VARIABLES
  top,    \* the value on top of the interpreter's stack
  last    \* the operator applied, its operands and its outcome

vars == <<top, last>>

-----------------------------------------------------------------------------
(* Representation *)

Bits(t) == ByteBits * t.bytes

\* What the bits of a value of the type may spell.
Reps(t) ==
  IF t = CompInteger THEN {2 * half : half \in 0 .. TwoTo[WordBits - 1] - 1} ELSE 0 .. TwoTo[Bits(t)] - 1

ASSUME OperandAssumption ==
  \A v \in Operands : \E t \in Types \cup {CompInteger} : v \in [type : {t}, rep : Reps(t)]

\* The two's complement reading of a number of that many bits.
AsSigned(rep, bits) == IF rep >= TwoTo[bits - 1] THEN rep - TwoTo[bits] ELSE rep

\* is_negative, and the inline value of a CompIntegerValue.
CompValue(rep) == AsSigned(rep, WordBits) \div 2
CompRep(value) == (2 * value) % TwoTo[WordBits]

ValueOf(v) ==
  IF v.type = CompInteger THEN CompValue(v.rep)
  ELSE IF v.type.signed THEN AsSigned(v.rep, Bits(v.type)) ELSE v.rep

Least(t) ==
  IF t = CompInteger THEN -TwoTo[WordBits - 2] ELSE IF t.signed THEN -TwoTo[Bits(t) - 1] ELSE 0

Greatest(t) ==
  IF t = CompInteger THEN TwoTo[WordBits - 2] - 1 ELSE TwoTo[Bits(t) - (IF t.signed THEN 1 ELSE 0)] - 1

Fits(t, x) == x \in Least(t) .. Greatest(t)

\* The number whose digits these are, of so many bits each, the lowest first.
Spelled(digits, count, width) ==
  LET from[i \in 0 .. count] == IF i = count THEN 0 ELSE digits[i] * TwoTo[width * i] + from[i + 1]
  IN  from[0]

\* How an operator ends: with a value, an error, a panic or undefined.
Value(t, rep) == [tag |-> "value", type |-> t, rep |-> rep]
Error(what) == [tag |-> "error", what |-> what]
Panic == [tag |-> "panic"]
Undefined == [tag |-> "undefined"]

-----------------------------------------------------------------------------
(* Conversion *)

\* Mutant: the greatest magnitude is let through as well.
BitsFromCompLoose(rep, t) ==
  LET x    == CompValue(rep)
      used == IF x < 0 THEN -x - 1 ELSE x
  IN  IF (~t.signed /\ x < 0) \/ (t.bytes < WordBytes /\ TwoTo[Bits(t)] < used)
      THEN Error("too large")
      ELSE Value(t, x % TwoTo[Bits(t)])

\* bits_from_comp_integer: the magnitude is held against all the bits, the
\* sign bit of a signed type included.
BitsFromComp(rep, t) ==
  LET x    == CompValue(rep)
      used == IF x < 0 THEN -x - 1 ELSE x
  IN  IF (~t.signed /\ x < 0) \/ (t.bytes < WordBytes /\ TwoTo[Bits(t)] <= used)
      THEN Error("too large")
      ELSE Value(t, x % TwoTo[Bits(t)])

\* convert_into_assume_convertible for a value and the type wanted of it.
Converted(v, t) ==
  IF v.type = t THEN Value(t, v.rep)
  ELSE IF v.type = CompInteger THEN BitsFromComp(v.rep, t)
  ELSE Error("types")

\* unify: a compile-time integer takes the type of the other operand.
Unify(l, r) == IF l.type = CompInteger THEN r.type ELSE l.type

\* The two operands of a binary operator in their common type, or the error.
WithUnified(l, r, Result(_, _, _)) ==
  LET t  == Unify(l, r)
      cl == Converted(l, t)
      cr == Converted(r, t)
  IN  IF cl.tag = "error" THEN cl ELSE IF cr.tag = "error" THEN cr ELSE Result(t, cl.rep, cr.rep)

-----------------------------------------------------------------------------
(* Arithmetic *)

Magnitude(x) == IF x < 0 THEN -x ELSE x

\* C++ division, which truncates.
Quotient(l, r) ==
  LET q == Magnitude(l) \div Magnitude(r) IN IF (l < 0) = (r < 0) THEN q ELSE -q

Kinds == {"Add", "Sub", "Mul", "Div", "Mod"}

Exact(kind, l, r) ==
  CASE kind = "Add" -> l + r
    [] kind = "Sub" -> l - r
    [] kind = "Mul" -> l * r
    [] kind = "Div" -> Quotient(l, r)
    [] kind = "Mod" -> l - r * Quotient(l, r)

\* A result in 64 bits.
InWord(signed, x) == IF signed THEN AsSigned(x % TwoTo[WordBits], WordBits) ELSE x % TwoTo[WordBits]

\* sub_checked_s64, which looks at the signs of its operands.
SubChecked(l, r) ==
  LET result == InWord(TRUE, l - r)
  IN  /\ l > 0 /\ r < 0 => result > 0
      /\ l < 0 /\ r > 0 => result < 0

\* add_checked, sub_checked and mul_checked for s64 and u64.
Checked(kind, signed, l, r) ==
  IF kind = "Sub" /\ signed THEN SubChecked(l, r) ELSE Exact(kind, l, r) = InWord(signed, Exact(kind, l, r))

\* Mutant: the result is held against the word only, not against the type.
FixedArithmeticWide(kind, wraps, t, l, r) ==
  LET a == ValueOf([type |-> t, rep |-> l])
      b == ValueOf([type |-> t, rep |-> r])
  IN  IF kind \in {"Div", "Mod"} /\ b = 0 THEN Error("zero")
      ELSE IF kind \in {"Div", "Mod"} /\ t = Word /\ a = Least(Word) /\ b = -1 THEN Undefined
      ELSE IF kind \notin {"Div", "Mod"} /\ ~wraps /\ ~Checked(kind, t.signed, a, b) THEN Error("overflow")
      ELSE Value(t, Exact(kind, a, b) % TwoTo[Bits(t)])

\* handle_binary_arithmetic_op for fixed integers: a wrapping kind may leave
\* the word, but no kind may leave the type.
FixedArithmetic(kind, wraps, t, l, r) ==
  LET a == ValueOf([type |-> t, rep |-> l])
      b == ValueOf([type |-> t, rep |-> r])
  IN  IF kind \in {"Div", "Mod"} /\ b = 0 THEN Error("zero")
      ELSE IF kind \in {"Div", "Mod"} /\ t = Word /\ a = Least(Word) /\ b = -1 THEN Undefined
      ELSE IF kind \notin {"Div", "Mod"} /\ ~wraps /\ ~Checked(kind, t.signed, a, b) THEN Error("overflow")
      ELSE IF ~Fits(t, InWord(t.signed, Exact(kind, a, b))) THEN Error("overflow")
      ELSE Value(t, Exact(kind, a, b) % TwoTo[Bits(t)])

\* comp_integer_add to comp_integer_mod, on the doubled values.
CompArithmetic(kind, l, r) ==
  LET a == AsSigned(l, WordBits)
      b == IF kind = "Mul" THEN CompValue(r) ELSE AsSigned(r, WordBits)
  IN  IF kind \in {"Div", "Mod"}
      THEN IF r = 0 THEN Error("zero")
           ELSE Value(CompInteger, CompRep(Exact(kind, CompValue(l), CompValue(r))))
      ELSE IF Checked(kind, TRUE, a, b) THEN Value(CompInteger, Exact(kind, a, b) % TwoTo[WordBits])
      ELSE Panic

Arithmetic(kind, wraps, t, l, r) ==
  IF t = CompInteger THEN CompArithmetic(kind, l, r) ELSE FixedArithmetic(kind, wraps, t, l, r)

Bit(rep, i) == (rep \div TwoTo[i]) % 2

\* handle_binary_bitwise_op.
Combined(kind, t, l, r) ==
  LET bit(i) == CASE kind = "And" -> Bit(l, i) * Bit(r, i)
                  [] kind = "Or"  -> IF Bit(l, i) + Bit(r, i) = 0 THEN 0 ELSE 1
                  [] kind = "Xor" -> (Bit(l, i) + Bit(r, i)) % 2
  IN  Value(t, Spelled([i \in 0 .. WordBits - 1 |-> bit(i)], WordBits, 1))

\* handle_negate: the machine's negation, checked for compile-time integers.
Negated(v) ==
  IF v.type = CompInteger
  THEN IF ValueOf(v) = Least(CompInteger) THEN Panic ELSE Value(CompInteger, CompRep(-ValueOf(v)))
  ELSE IF v.type.signed THEN Value(v.type, (-v.rep) % TwoTo[Bits(v.type)]) ELSE Error("operand")

\* handle_bit_not: types of four and eight bytes are negated instead.
Inverted(v) ==
  IF v.type = CompInteger THEN Value(CompInteger, CompRep(-CompValue(v.rep) - 1))
  ELSE IF v.type.bytes \in {1, 2} THEN Value(v.type, TwoTo[Bits(v.type)] - 1 - v.rep)
  ELSE Value(v.type, (-v.rep) % TwoTo[Bits(v.type)])

-----------------------------------------------------------------------------
(* Comparison *)

Order(a, b) == IF a = b THEN "equal" ELSE IF a < b THEN "less" ELSE "greater"

Reversed(order) == IF order = "less" THEN "greater" ELSE IF order = "greater" THEN "less" ELSE order

\* Mutant: the sign bit is compared like any other.
CompareUnsigned(t, l, r) == Order(l, r)

\* compare: fixed integers byte by byte from the highest, in reverse when both
\* are negative; comp_integer_compare takes the words as they are.
Compare(t, l, r) ==
  LET negative(rep) == t # CompInteger /\ t.signed /\ AsSigned(rep, Bits(t)) < 0
  IN  IF negative(l) /\ negative(r) THEN Reversed(Order(l, r))
      ELSE IF negative(l) THEN "less"
      ELSE IF negative(r) THEN "greater"
      ELSE Order(l, r)

-----------------------------------------------------------------------------
(* Shifts *)

\* u64_from_value of the amount; the sign of a compile-time integer is asked
\* of comp_integer_compare.
ShiftAmount(v) ==
  IF ValueOf(v) >= 0 THEN [tag |-> "value", amount |-> ValueOf(v)]
  ELSE IF v.type # CompInteger \/ Compare(CompInteger, v.rep, CompRep(0)) = "less" THEN Error("negative")
  ELSE Error("too large")

Byte(rep, i) == (rep \div TwoTo[ByteBits * i]) % TwoTo[ByteBits]

\* bitwise_shift_left: the bytes below the shifted ones are only cleared where
\* the bytes at the top, which are cleared instead, reach down to them; what
\* the rest holds was in memory before.
ShiftedLeft(t, rep, amount) ==
  LET whole   == amount \div ByteBits
      unset   == IF whole <= t.bytes - whole THEN whole ELSE t.bytes - whole
  IN  {Value(t, ((rep * TwoTo[amount]) % TwoTo[Bits(t)]) + old) : old \in 0 .. TwoTo[ByteBits * unset] - 1}

\* bitwise_shift_right: a byte keeps its place; its low bits go to the byte
\* above, and the bytes below the shifted ones are filled with the sign.
ShiftedRight(t, rep, amount) ==
  LET whole == amount \div ByteBits
      bits  == amount % ByteBits
      fill  == IF t.signed /\ AsSigned(rep, Bits(t)) < 0 THEN TwoTo[ByteBits] - 1 ELSE 0
      carry(i) == (Byte(rep, i) * TwoTo[ByteBits - bits]) % TwoTo[ByteBits]
      moved == [i \in 0 .. t.bytes - 1 |->
                  IF i < whole THEN fill
                  ELSE (Byte(rep, i) \div TwoTo[bits]) + (IF i = whole THEN 0 ELSE carry(i - 1))]
  IN  Value(t, Spelled(moved, t.bytes, ByteBits))

\* The shift of a word, whose amount the machine takes modulo its width.
WordAmount(amount) == amount % WordBits

\* comp_integer_shift_left: the bits from the amount upwards, not those that
\* are lost, must be equal.
CompShiftedLeft(rep, amount) ==
  LET low  == TwoTo[WordAmount(amount - 1)]
      sign == rep - (rep % low)
  IN  IF sign \notin {0, TwoTo[WordBits] - low} THEN Panic
      ELSE Value(CompInteger, (rep * TwoTo[WordAmount(amount)]) % TwoTo[WordBits])

\* comp_integer_shift_right: of the word, without its sign.
CompShiftedRight(rep, amount) ==
  LET moved == rep \div TwoTo[WordAmount(amount)] IN Value(CompInteger, moved - (moved % 2))

\* A compile-time integer by an amount of a fixed type, which is asserted to
\* have the size of a word.  To the right the word itself is then taken for a
\* compile-time integer: it has to be even, and half of it is the amount.
ShiftedByFixed(kind, rep, by, amount) ==
  IF by.type.bytes # WordBytes THEN Panic
  ELSE IF kind = "Left" THEN IF amount > Greatest(CompInteger) THEN Panic ELSE CompShiftedLeft(rep, amount)
  ELSE IF by.rep % 2 # 0 THEN Panic
  ELSE IF AsSigned(by.rep, WordBits) < 0 THEN Error("too large")
  ELSE CompShiftedRight(rep, by.rep \div 2)

\* handle_shift
Shifted(kind, v, by) ==
  LET amount == ShiftAmount(by)
  IN  IF amount.tag = "error" THEN {amount}
      ELSE IF v.type = CompInteger /\ by.type # CompInteger THEN {ShiftedByFixed(kind, v.rep, by, amount.amount)}
      ELSE IF v.type = CompInteger
      THEN {IF kind = "Left" THEN CompShiftedLeft(v.rep, amount.amount) ELSE CompShiftedRight(v.rep, amount.amount)}
      ELSE IF amount.amount >= Bits(v.type) THEN {Error("too large")}
      ELSE IF kind = "Left" THEN ShiftedLeft(v.type, v.rep, amount.amount)
      ELSE {ShiftedRight(v.type, v.rep, amount.amount)}

-----------------------------------------------------------------------------
(* The handlers *)

\* An operator is applied to the value on top, and leaves its result there.
Apply(op, rhs, outcome) ==
  /\ last' = [op |-> op, lhs |-> top, rhs |-> rhs, outcome |-> outcome]
  /\ top' = IF outcome.tag = "value" THEN [type |-> outcome.type, rep |-> outcome.rep] ELSE top

\* The operators depend on their operands only: one is applied to each.
NoOperator == [name |-> "none"]
Going == last.op = NoOperator

BinaryArithmeticOp(kind, wraps, rhs) ==
  /\ Going
  /\ wraps => kind \in {"Add", "Sub", "Mul"}
  /\ LET Result(t, l, r) == Arithmetic(kind, wraps, t, l, r)
     IN  Apply([name |-> kind, wraps |-> wraps], rhs, WithUnified(top, rhs, Result))

BinaryBitwiseOp(kind, rhs) ==
  /\ Going
  /\ LET Result(t, l, r) == Combined(kind, t, l, r)
     IN  Apply([name |-> kind], rhs, WithUnified(top, rhs, Result))

\* What a comparison leaves is no integer, so the value compared stays.
CompareOp(rhs) ==
  /\ Going
  /\ LET Result(t, l, r) == [tag |-> "order", order |-> Compare(t, l, r)]
     IN  Apply([name |-> "Compare"], rhs, WithUnified(top, rhs, Result))

ShiftOp(kind, rhs) ==
  /\ Going
  /\ \E outcome \in Shifted(kind, top, rhs) : Apply([name |-> kind], rhs, outcome)

Negate == Going /\ Apply([name |-> "Negate"], top, Negated(top))

BitNot == Going /\ Apply([name |-> "BitNot"], top, Inverted(top))

\* convert_into
Convert(t) == Going /\ Apply([name |-> "Convert", to |-> t], top, Converted(top, t))

Init ==
  /\ top \in Operands
  /\ last = [op |-> NoOperator, lhs |-> top, rhs |-> top, outcome |-> Value(top.type, top.rep)]

Next ==
  \/ \E kind \in Kinds, wraps \in BOOLEAN, rhs \in Operands : BinaryArithmeticOp(kind, wraps, rhs)
  \/ \E kind \in {"And", "Or", "Xor"}, rhs \in Operands : BinaryBitwiseOp(kind, rhs)
  \/ \E rhs \in Operands : CompareOp(rhs)
  \/ \E kind \in {"Left", "Right"}, rhs \in Operands : ShiftOp(kind, rhs)
  \/ Negate
  \/ BitNot
  \/ \E t \in Types : Convert(t)

Spec == Init /\ [][Next]_vars

-----------------------------------------------------------------------------
(* What is true of it *)

Left == ValueOf(last.lhs)
Right == ValueOf(last.rhs)
Common == Unify(last.lhs, last.rhs)

\* Both operands have a value of the type they are brought to.
Unified ==
  /\ {last.lhs.type, last.rhs.type} \subseteq {Common, CompInteger}
  /\ Fits(Common, Left) /\ Fits(Common, Right)

Yields(x) == last.outcome.tag = "value" /\ last.outcome.type = Common /\ ValueOf(last.outcome) = x

Refused == IF Common = CompInteger THEN last.outcome = Panic ELSE last.outcome = Error("overflow")

\* Two's complement in the type.
Wrapped(t, x) == ValueOf([type |-> t, rep |-> x % TwoTo[Bits(t)]])

\* An operator yields the result in the integers when the common type has it
\* and is refused exactly when it has not (a division by zero apart); a
\* wrapping one yields the result that is left in a word.  Excepted are the
\* corners where the code has none of the two: nothing less the least word or
\* compile-time integer, that divided by minus one, the negation of the least
\* fixed integer, the inversion of four and eight bytes.
ArithmeticExact ==
  LET name  == last.op.name
      word  == Common \in {Word, CompInteger}
  IN  /\ name \in Kinds /\ Unified =>
           IF name \in {"Div", "Mod"} /\ Right = 0 THEN last.outcome = Error("zero")
           ELSE LET x == Exact(name, Left, Right)
                IN  CASE name = "Sub" /\ word /\ Left = 0 /\ Right = Least(Common) -> TRUE
                      [] ((name = "Div" /\ word) \/ (name = "Mod" /\ Common = Word)) /\ Left = Least(Common) /\ Right = -1 -> TRUE
                      [] last.op.wraps /\ Common # CompInteger ->
                           IF Fits(Common, x) \/ Common.bytes = WordBytes
                           THEN Yields(Wrapped(Common, x)) ELSE Yields(Wrapped(Common, x)) \/ Refused
                      [] OTHER -> IF Fits(Common, x) THEN Yields(x) ELSE Refused
      /\ name = "Negate" /\ Common.signed =>
           IF Fits(Common, -Left) THEN Yields(-Left) ELSE Common = CompInteger => Refused
      /\ name = "BitNot" /\ Common.bytes <= 2 =>
           Yields(IF Common.signed THEN -Left - 1 ELSE Greatest(Common) - Left)

\* Comparing orders the values, of whatever types they come from, as long as
\* no two fixed integers below zero are compared with each other and no
\* compile-time integer below zero with one that is not.
OrderExact ==
  last.op.name = "Compare" /\ Unified =>
    \/ last.outcome = [tag |-> "order", order |-> Order(Left, Right)]
    \/ Common # CompInteger /\ Left < 0 /\ Right < 0
    \/ Common = CompInteger /\ (Left < 0) # (Right < 0)

\* A conversion and a shift keep every bit they should, or are refused: a
\* value that a type has converts to itself, one that needs more than the
\* bits of the type is refused (one that only needs the sign bit is not).
\* Within a byte a shift multiplies or divides by a power of two, to the
\* right only from zero upwards and in one byte; a compile-time integer
\* that is shifted to the left by up to half a word gives the exact product
\* or stops the compiler, never another number, whatever the amount's type.
BitsKept ==
  LET name == last.op.name
  IN  /\ name = "Convert" /\ last.lhs.type = CompInteger =>
           LET t == last.op.to
           IN  IF Fits(t, Left) THEN last.outcome = Value(t, Left % TwoTo[Bits(t)])
               ELSE (t.signed /\ Left \in -TwoTo[Bits(t)] .. TwoTo[Bits(t)] - 1) \/ last.outcome = Error("too large")
      /\ name \in {"Left", "Right"} /\ last.lhs.type # CompInteger =>
           IF Right \notin 0 .. Bits(last.lhs.type) - 1 THEN last.outcome.tag = "error"
           ELSE LET t == last.lhs.type
                IN  /\ last.outcome.tag = "value"
                    /\ name = "Left" /\ Right < ByteBits => last.outcome.rep = (last.lhs.rep * TwoTo[Right]) % TwoTo[Bits(t)]
                    /\ name = "Right" /\ t.bytes = 1 /\ Left >= 0 => ValueOf(last.outcome) = Left \div TwoTo[Right]
      /\ name \in {"Left", "Right"} /\ last.lhs.type = CompInteger =>
           IF Right < 0 THEN last.outcome.tag = "error"
           ELSE /\ name = "Left" /\ Right \in 1 .. WordBits \div 2 =>
                     last.outcome = Panic \/ ValueOf(last.outcome) = Left * TwoTo[Right]
                /\ name = "Right" /\ last.rhs.type = CompInteger /\ Right < WordBits /\ Left >= 0 =>
                     ValueOf(last.outcome) = Left \div TwoTo[Right]
=============================================================================
