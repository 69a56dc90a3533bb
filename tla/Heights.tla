------------------------------- MODULE Heights -------------------------------
(***************************************************************************)
(* How the code of an expression moves the value stack, along every path   *)
(* through it: what assembleExpression promises its callers.               *)
(***************************************************************************)
EXTENDS Assembler

CONSTANT Cases      \* pairs of an expression and needResult

VARIABLES case, code, pc, height

vars == <<case, code, pc, height>>

(* What an opcode pops and pushes; a call pops its arguments and what it is called on. *)
Effect(ins) ==
    CASE ins.op \in {"LOAD_VAR", "LOAD_STATIC_FIELD", "PUSH", "PUSHOBJ", "PUSHC", "NEW_FUNCTION"} -> <<0, 1>>
      [] ins.op \in {"STORE_VAR", "STORE_STATIC_FIELD", "POP", "RETURN", "THROW"} -> <<1, 0>>
      [] ins.op \in {"LOAD_FIELD", "NOT"} -> <<1, 1>>
      [] ins.op \in {"LOAD_FIELD_NAMED", "LOAD_ARRAY", "ADD", "SUB", "MUL", "DIV", "AND"} -> <<2, 1>>
      [] ins.op \in {"STORE_FIELD", "CMP", "CMPI", "CMPD"} -> <<2, 0>>
      [] ins.op \in {"STORE_FIELD_NAMED", "STORE_ARRAY"} -> <<3, 0>>
      [] ins.op = "DUP" -> <<1, 2>>
      [] ins.op = "SWAP" -> <<2, 2>>
      [] ins.op \in {"CALL_STATIC", "NEW"} -> <<ins.a[2], 1>>
      [] ins.op = "CALL" -> <<ins.a[2] + 1, 1>>
      [] ins.op = "CALL_OBJ" -> <<ins.a[1] + 1, 1>>
      [] ins.op = "CALL_NAMED" -> <<ins.a[1] + 2, 1>>
      [] ins.op \in BranchOps \cup {"INC_VAR", "PUSHTRY", "POPTRY"} -> <<0, 0>>

(* Where control goes after an opcode; PUSHTRY leads to its handler too. *)
Successors(ins) ==
    CASE ins.op \in {"RETURN", "THROW"} -> {}
      [] ins.op = "JMP" -> {ins.a[1]}
      [] ins.op \in BranchOps \ {"JMP"} -> {ins.a[1], pc + 1}
      [] ins.op = "PUSHTRY" -> {ins.a[2], pc + 1}
      [] OTHER -> {pc + 1}

Init ==
    /\ case \in Cases
    /\ code = Expr(Empty, case[1], Null, case[2]).code
    /\ pc = 1
    /\ height = 0

Ended == IF pc \in DOMAIN code THEN code[pc].op \in {"RETURN", "THROW"} ELSE TRUE

Opcode ==
    /\ ~Ended
    /\ height >= Effect(code[pc])[1]
    /\ height' = height - Effect(code[pc])[1] + Effect(code[pc])[2]
    /\ pc' \in Successors(code[pc])
    /\ UNCHANGED <<case, code>>

Done == Ended /\ UNCHANGED vars

Next == Opcode \/ Done

Spec == Init /\ [][Next]_vars

-----------------------------------------------------------------------------
(***************************************************************************)
(* assembleExpression leaves exactly one value when its caller needs one,  *)
(* and none when it does not, whichever way control went.  An expression   *)
(* without an effect, new included, leaves one in any case: the cases have *)
(* none as a statement.                                                    *)
(***************************************************************************)
OneResult == pc = Len(code) + 1 => height = IF case[2] THEN 1 ELSE 0

(***************************************************************************)
(* No opcode of an expression pops a value that was there before the       *)
(* expression.  A call at the head of a reference, m().q, does: it is made *)
(* by name on an object that nobody has pushed.  WellUsed leaves it out,   *)
(* HeightsReference.cfg has it.                                            *)
(***************************************************************************)
NoUnderflow == pc \in DOMAIN code => height >= Effect(code[pc])[1]
=============================================================================
