------------------------------- MODULE Interp --------------------------------
(***************************************************************************)
(* One activation of Executor::run with its data: the opcodes that compute *)
(* and branch inside a function (executor.cpp).  Machine models what calls *)
(* and exceptions do to the stacks.                                        *)
(*                                                                         *)
(* An instruction is [op, t, a]: t is the type digit of the opcode (0 any, *)
(* 1 integer, 2 double: ADD, ADDI, ADDD), a its arguments.  Addresses are  *)
(* instruction numbers, as they are in Assembler::m_code.                  *)
(***************************************************************************)
EXTENDS Values, Sequences

Ins(op, t, a) == [op |-> op, t |-> t, a |-> a]

ArithmeticOps == {"ADD", "SUB", "MUL", "DIV", "AND", "NOT"}
BranchOps == {"JMP", "BEQ", "BNE", "BL", "BLE", "BG", "BGE"}
NoFlags == [zero |-> FALSE, sign |-> FALSE, overflow |-> FALSE]

(* A frame at the first instruction; vars[0] is this, fields are this object's. *)
Entered(vars, fields) ==
    [pc |-> 1, stack |-> <<>>, vars |-> vars, fields |-> fields, flags |-> NoFlags,
     outcome |-> "running", result |-> Unset]

(***************************************************************************)
(* What an opcode leaves on the stack s for its operands.                  *)
(***************************************************************************)
Nth(s, k) == s[Len(s) + 1 - k]                \* the k-th value popped
Popped(s, k) == SubSeq(s, 1, Len(s) - k)

Computed(ins, s) ==
    CASE ins.op = "AND" -> Append(Popped(s, 2), And(Nth(s, 1), Nth(s, 2)))
      [] ins.op = "NOT" -> Append(Popped(s, 1), Not(Nth(s, 1)))
      [] ins.op \in {"ADD", "SUB", "MUL", "DIV"} ->
            Append(Popped(s, 2),
                   IF ins.t = 0 THEN Arithmetic(ins.op, Nth(s, 1), Nth(s, 2))
                   ELSE ArithmeticTyped(ins.op, <<"I", "D">>[ins.t], Nth(s, 1), Nth(s, 2)))

(* CMPI and CMPD read the bits as they are: to a double an integer is next to zero. *)
Compared(ins, s) ==
    LET left == Nth(s, 1)
        right == Nth(s, 2)
        AsDouble(v) == IF v.type = "D" THEN v.n ELSE 0
    IN  CASE ins.op = "CMP" -> Compare(left, right)
          [] ins.op = "CMPI" -> Flags(Wrap(right.n - left.n))
          [] ins.op = "CMPD" -> Flags(AsDouble(right) - AsDouble(left))

(* INC_VAR and INC_VARD add to the bits, whatever the type of the variable. *)
IncVar(v, t, amount) ==
    IF t = 0
      THEN IF v.type = "I" THEN I(Wrap(v.n + amount)) ELSE Bits
      ELSE IF v.type = "D" THEN D(v.n + amount) ELSE Bits

-----------------------------------------------------------------------------
(* The opcode at m.pc: fetch, the opcode's function, the next round of the loop. *)
Stop(m, why) == [m EXCEPT !.outcome = why]

Step(code, m) ==
    LET ins == code[m.pc]
        s == m.stack
        n == [m EXCEPT !.pc = @ + 1]
    IN  CASE ins.op = "LOAD_VAR" -> [n EXCEPT !.stack = Append(s, m.vars[ins.a[1]])]
          [] ins.op = "STORE_VAR" ->
                [n EXCEPT !.stack = Popped(s, 1), !.vars[ins.a[1]] = Nth(s, 1)]
          [] ins.op = "INC_VAR" ->
                [n EXCEPT !.vars[ins.a[1]] = IncVar(@, ins.t, ins.a[2])]
          [] ins.op = "LOAD_FIELD" ->
                [n EXCEPT !.stack = Append(Popped(s, 1), m.fields[ins.a[1]])]
          [] ins.op = "STORE_FIELD" ->
                [n EXCEPT !.stack = Popped(s, 2), !.fields[ins.a[1]] = Nth(s, 2)]
          [] ins.op = "PUSH" ->
                [n EXCEPT !.stack = Append(s, IF ins.t = 1 THEN I(ins.a[1]) ELSE D(ins.a[1]))]
          [] ins.op = "PUSHOBJ" -> [n EXCEPT !.stack = Append(s, O(ins.a[1]))]
          [] ins.op = "DUP" -> [n EXCEPT !.stack = Append(s, Nth(s, 1))]
          [] ins.op = "SWAP" -> [n EXCEPT !.stack = Popped(s, 2) \o <<Nth(s, 1), Nth(s, 2)>>]
          [] ins.op = "POP" -> [n EXCEPT !.stack = Popped(s, 1)]
          [] ins.op \in {"AND", "NOT"} /\ ins.t = 2 -> Stop(m, "invalid opcode")
          [] ins.op \in ArithmeticOps /\ ~(ins.op \in {"AND", "NOT"} /\ ins.t = 2) ->
                LET r == Computed(ins, s)
                IN  IF Nth(r, 1) = Trap THEN Stop(m, "trap") ELSE [n EXCEPT !.stack = r]
          [] ins.op \in {"CMP", "CMPI", "CMPD"} ->
                [n EXCEPT !.stack = Popped(s, 2), !.flags = Compared(ins, s)]
          [] ins.op = "PUSHC" ->
                [n EXCEPT !.stack = Append(s, I(IF Condition(ins.a[1], m.flags) THEN 1 ELSE 0))]
          [] ins.op \in BranchOps ->
                IF Branches(ins.op, m.flags) THEN [m EXCEPT !.pc = ins.a[1]] ELSE n
          [] ins.op = "RETURN" ->
                [m EXCEPT !.stack = Popped(s, 1), !.result = Nth(s, 1), !.outcome = "returned"]
=============================================================================
