------------------------------- MODULE Values --------------------------------
(***************************************************************************)
(* What the opcodes of executor.cpp compute: arithmetic on the generic and *)
(* on the typed opcodes, comparison into the flags of the frame, and the   *)
(* conditions read from the flags.                                         *)
(*                                                                         *)
(* A value is [type, n].  A double has an integer value here, which no     *)
(* property distinguishes from a fraction; an integer has 64 bits, whose   *)
(* range is -Bound .. Bound - 1.  "B" is a value whose bits were written   *)
(* under one type and read under another; "X" is what an operation has for *)
(* a result that the processor traps on.                                   *)
(***************************************************************************)
EXTENDS Integers

CONSTANT Bound      \* 2^63 in the code

ASSUME BoundAssumption == Bound \in Nat \ {0}

Int64 == -Bound .. Bound - 1

I(n) == [type |-> "I", n |-> n]
D(n) == [type |-> "D", n |-> n]
O(n) == [type |-> "O", n |-> n]     \* an object: the string literal number n
Bits == [type |-> "B", n |-> 0]
Trap == [type |-> "X", n |-> 0]
Fraction == [type |-> "F", n |-> 0]  \* a fraction or an infinity: outside this model
Unset == [type |-> "U", n |-> 0]    \* VALUE_UNKNOWN

Wrap(n) == IF n \in Int64 THEN n ELSE ((n + Bound) % (2 * Bound)) - Bound

Abs(n) == IF n < 0 THEN -n ELSE n

(* C++ division truncates. *)
Quotient(a, b) ==
    IF (a < 0) = (b < 0) THEN Abs(a) \div Abs(b) ELSE -(Abs(a) \div Abs(b))

(***************************************************************************)
(* The operation of ADD, SUB, MUL and DIV on two integers, on two doubles. *)
(***************************************************************************)
Integers64(op, a, b) ==
    CASE op = "ADD" -> I(Wrap(a + b))
      [] op = "SUB" -> I(Wrap(a - b))
      [] op = "MUL" -> I(Wrap(a * b))
      [] op = "DIV" -> IF b = 0 \/ (a = -Bound /\ b = -1) THEN Trap ELSE I(Quotient(a, b))

Doubles(op, a, b) ==
    CASE op = "ADD" -> D(a + b)
      [] op = "SUB" -> D(a - b)
      [] op = "MUL" -> D(a * b)
      [] op = "DIV" -> IF b # 0 /\ Abs(a) % Abs(b) = 0 THEN D(Quotient(a, b)) ELSE Fraction

(* v1 is the operand popped first; when it is an object ADD is a call (see Machine). *)
Arithmetic(op, v1, v2) ==
    CASE {v1.type, v2.type} = {"I"} -> Integers64(op, v1.n, v2.n)
      [] "D" \in {v1.type, v2.type} /\ {v1.type, v2.type} \subseteq {"I", "D"} ->
            Doubles(op, v1.n, v2.n)
      [] OTHER -> Bits

(* ADDI, ADDD and the like read the operands' bits; those of zero are zero. *)
Reads(type, v) == v.type = type \/ (v.type \in {"I", "D"} /\ v.n = 0)

ArithmeticTyped(op, type, v1, v2) ==
    IF ~Reads(type, v1) \/ ~Reads(type, v2) THEN Bits
    ELSE IF type = "I" THEN Integers64(op, v1.n, v2.n) ELSE Doubles(op, v1.n, v2.n)

(* AND and NOT read the bits, and the bits of a double that is not zero are not zero. *)
And(v1, v2) == I(IF v1.n # 0 /\ v2.n # 0 THEN 1 ELSE 0)

Not(v) == I(IF v.n = 0 THEN 1 ELSE 0)

-----------------------------------------------------------------------------
(***************************************************************************)
(* CMP sets the flags; left is the operand popped first, the left operand  *)
(* of the source.  Objects are strings: operator== calls wcscmp on left    *)
(* and right, in that order; a string is compared with a string only.      *)
(***************************************************************************)
Flags(result) ==
    LET zero == result = 0
        sign == result < 0
    IN  [zero |-> zero, sign |-> sign, overflow |-> ~zero \/ sign]

Compare(left, right) ==
    CASE left.type = "I" /\ right.type = "I" -> Flags(Wrap(right.n - left.n))
      [] {left.type, right.type} \subseteq {"I", "D"} /\ "D" \in {left.type, right.type} ->
            Flags(right.n - left.n)
      [] left.type = "O" /\ right.type = "O" -> Flags(left.n - right.n)
      [] OTHER -> Flags(-1)

(* The condition of a PUSHC opcode. *)
Condition(cond, f) ==
    CASE cond = "E" -> f.zero
      [] cond = "NE" -> ~f.zero
      [] cond = "L" -> f.sign # f.overflow
      [] cond = "LE" -> f.zero \/ f.sign # f.overflow
      [] cond = "G" -> ~f.zero /\ f.sign = f.overflow
      [] cond = "GE" -> f.sign = f.overflow

(* The condition of a branch opcode; BLE is never emitted. *)
Branches(op, f) ==
    CASE op = "JMP" -> TRUE
      [] op = "BEQ" -> f.zero
      [] op = "BNE" -> ~f.zero
      [] op = "BL" -> f.sign # f.overflow
      [] op = "BLE" -> ~f.zero \/ f.sign = f.overflow
      [] op = "BG" -> ~f.zero /\ f.sign = f.overflow
      [] op = "BGE" -> f.sign = f.overflow
=============================================================================
