------------------------------ MODULE Optimiser ------------------------------
(***************************************************************************)
(* Assembler::optimise (assembler.cpp): passes over m_code until none of   *)
(* them removes an instruction.  An action is one round of one of the      *)
(* loops.  phase is the loop: "infer", "known" and "unused" are passes 1,  *)
(* 2 and 3 of optimiseVars, "remove" its removal; "fold" and "squeeze" are *)
(* the scan and the removal of optimiseArithmetic.                         *)
(*                                                                         *)
(* origin is history: origin[k] is where instruction k was assembled, and  *)
(* assembled the code before the first pass.                               *)
(***************************************************************************)
EXTENDS Interp

CONSTANTS
    Input,          \* the code that may be optimised
    LocalVars,      \* AssembledCode::localVars
    ArgCount        \* Function::getArgCount

ASSUME OptimiserAssumption == LocalVars \in Nat /\ ArgCount \in Nat

VARIABLES
    code, phase, i, info, prevType, lastValue, prev, removeList, removed, changed, again,
    assembled, origin

state == <<i, info, prevType, lastValue, prev>>
vars == <<code, phase, state, removeList, removed, changed, again, assembled, origin>>

Jumps == BranchOps \cup {"PUSHTRY"}
Address(ins) == IF ins.op = "PUSHTRY" THEN 2 ELSE 1     \* OpCodeInfo::address
AddressOf(ins) == ins.a[Address(ins)]

(***************************************************************************)
(* The checks of assemble when it writes the code out: the number of       *)
(* arguments of each opcode (OpCodeInfo::args, and here the condition of a *)
(* PUSHC) and the range of each address.                                   *)
(***************************************************************************)
OneArgument == BranchOps \cup {"LOAD_VAR", "STORE_VAR", "LOAD_FIELD", "STORE_FIELD", "PUSH", "PUSHOBJ", "PUSHC",
                               "CALL_NAMED", "CALL_OBJ", "NEW_FUNCTION"}
TwoArguments == {"INC_VAR", "LOAD_STATIC_FIELD", "STORE_STATIC_FIELD", "CALL", "CALL_STATIC", "NEW", "PUSHTRY"}
OpArgs(op) == IF op \in OneArgument THEN 1 ELSE IF op \in TwoArguments THEN 2 ELSE 0

Encodes(ins, c) ==
    /\ Len(ins.a) = OpArgs(ins.op)
    /\ ins.op \in Jumps => AddressOf(ins) \in DOMAIN c

(***************************************************************************)
(* What the passes are given: code that could be written out as it is, and *)
(* that ends in the RETURN that assemble puts behind every function.       *)
(***************************************************************************)
Finite(s) == s \in Seq({s[k] : k \in DOMAIN s})

Complete(c) ==
    /\ Finite(c) /\ c # <<>>
    /\ c[Len(c)].op = "RETURN"
    /\ \A k \in DOMAIN c : c[k] = Ins(c[k].op, c[k].t, c[k].a) /\ Finite(c[k].a) /\ Encodes(c[k], c)

ASSUME InputAssumption == \A c \in Input : Complete(c)

Nop == Ins("NOP", 0, <<>>)
IsPush(ins) == ins.op = "PUSH"
Constant(ins) == IF ins.t = 1 THEN I(ins.a[1]) ELSE D(ins.a[1])

(* vars[] when a pass over the variables begins. *)
NoInfo == [v \in 0 .. LocalVars - 1 |->
             [type |-> 0, loaded |-> 0, stored |-> IF v <= ArgCount THEN 1 ELSE 0, last |-> Unset]]

Begin(p) ==
    /\ phase' = p
    /\ i' = 1
    /\ info' = IF p = "infer" THEN NoInfo ELSE info
    /\ prevType' = 0
    /\ lastValue' = Unset
    /\ prev' = <<Nop, Nop, Nop>>
    /\ removeList' = IF p \in {"infer", "fold"} THEN {} ELSE removeList
    /\ removed' = 0

Init ==
    /\ code \in Input
    /\ assembled = code
    /\ origin = [k \in 1 .. Len(code) |-> k]
    /\ phase = "infer"
    /\ i = 1
    /\ info = NoInfo
    /\ prevType = 0
    /\ lastValue = Unset
    /\ prev = <<Nop, Nop, Nop>>
    /\ removeList = {}
    /\ removed = 0
    /\ changed = FALSE
    /\ again = FALSE

-----------------------------------------------------------------------------
(***************************************************************************)
(* Pass 1 of optimiseVars: types and values are followed from instruction  *)
(* to instruction in the order of the text.                                *)
(***************************************************************************)
Retyped(c, ins) ==
    IF prevType # 0 /\ ins.t = 0 /\ ins.op \in ArithmeticOps
      THEN [c EXCEPT ![i] = Ins(ins.op, prevType, ins.a)]
      ELSE c

DoubleLoadKept(c) ==  \* a mistake: the arguments are not cleared
    IF i < Len(c) /\ c[i].op = "LOAD_VAR" /\ c[i + 1].op = "LOAD_VAR" /\ c[i].a[1] = c[i + 1].a[1]
      THEN [c EXCEPT ![i + 1] = Ins("DUP", 0, c[i + 1].a)]
      ELSE c

(* LOAD_VAR vX; LOAD_VAR vX becomes LOAD_VAR vX; DUP. *)
DoubleLoad(c) ==
    IF i < Len(c) /\ c[i].op = "LOAD_VAR" /\ c[i + 1].op = "LOAD_VAR" /\ c[i].a[1] = c[i + 1].a[1]
      THEN [c EXCEPT ![i + 1] = Ins("DUP", 0, <<>>)]
      ELSE c

Infer ==
    /\ phase = "infer"
    /\ i <= Len(code)
    /\ LET ins == code[i] IN
         \/ /\ ins.op = "LOAD_VAR"
            /\ prevType' = info[ins.a[1]].type
            /\ lastValue' = info[ins.a[1]].last
            /\ info' = [info EXCEPT ![ins.a[1]].loaded = @ + 1]
            /\ code' = DoubleLoad(code)
         \/ /\ ins.op = "STORE_VAR"
            /\ info' = [info EXCEPT ![ins.a[1]].stored = @ + 1,
                                    ![ins.a[1]].type = prevType,
                                    ![ins.a[1]].last = lastValue]
            /\ UNCHANGED <<code, prevType, lastValue>>
         \/ /\ ins.op = "INC_VAR"
            /\ info' = [info EXCEPT ![ins.a[1]].stored = @ + 1,
                                    ![ins.a[1]].type = 0,
                                    ![ins.a[1]].loaded = @ + 1]
            /\ UNCHANGED <<code, prevType, lastValue>>
         \/ /\ ins.op \notin {"LOAD_VAR", "STORE_VAR", "INC_VAR"}
            /\ code' = Retyped(code, ins)
            /\ prevType' = IF code' # code \/ ins.op = "DUP" THEN prevType ELSE ins.t
            /\ lastValue' = IF IsPush(ins) THEN Constant(ins) ELSE Unset
            /\ UNCHANGED info
    /\ i' = i + 1
    /\ UNCHANGED <<phase, prev, removeList, removed, changed, again, assembled, origin>>

InferDone ==
    /\ phase = "infer"
    /\ i > Len(code)
    /\ Begin("known")
    /\ UNCHANGED <<code, changed, again, assembled, origin>>

(***************************************************************************)
(* Pass 2: a variable stored once, with a known value, is a constant.      *)
(***************************************************************************)
IsConstantAnyStores(v) == info[v].last # Unset  \* a mistake: the stores are not counted

IsConstant(v) == info[v].stored = 1 /\ info[v].last # Unset

Known ==
    /\ phase = "known"
    /\ i <= Len(code)
    /\ i' = i + 1
    /\ LET ins == code[i]
           v == ins.a[1]
       IN  IF ins.op = "LOAD_VAR" /\ IsConstant(v) /\ info[v].type # 0
             THEN /\ code' = [code EXCEPT ![i] = Ins("PUSH", info[v].type, <<info[v].last.n>>)]
                  /\ info' = [info EXCEPT ![v].loaded = @ - 1]
             ELSE UNCHANGED <<code, info>>
    /\ UNCHANGED <<phase, prevType, lastValue, prev, removeList, removed, changed, again, assembled, origin>>

KnownDone ==
    /\ phase = "known"
    /\ i > Len(code)
    /\ Begin("unused")
    /\ UNCHANGED <<code, changed, again, assembled, origin>>

(***************************************************************************)
(* Pass 3: a constant stored in a variable that nobody loads.              *)
(***************************************************************************)
Unused ==
    /\ phase = "unused"
    /\ i <= Len(code)
    /\ i' = i + 1
    /\ removeList' =
         IF /\ code[i].op = "STORE_VAR"
            /\ info[code[i].a[1]].loaded = 0
            /\ i > 1
            /\ IsPush(code[i - 1])
           THEN removeList \cup {i - 1, i}
           ELSE removeList
    /\ UNCHANGED <<code, phase, info, prevType, lastValue, prev, removed, changed, again, assembled, origin>>

UnusedDone ==
    /\ phase = "unused"
    /\ i > Len(code)
    /\ Begin("remove")
    /\ UNCHANGED <<code, changed, again, assembled, origin>>

-----------------------------------------------------------------------------
(***************************************************************************)
(* removeInstruction(pos), and its use on the removeList in order.         *)
(***************************************************************************)
Without(s, pos) == [k \in 1 .. Len(s) - 1 |-> IF k < pos THEN s[k] ELSE s[k + 1]]

MovedAll(addr, pos) == addr - 1  \* a mistake: the addresses before pos move too

Moved(addr, pos) == IF addr > pos THEN addr - 1 ELSE addr

Readdressed(ins, pos) ==
    IF ins.op \in Jumps THEN [ins EXCEPT !.a[Address(ins)] = Moved(@, pos)] ELSE ins

Removed(c, pos) ==
    [k \in 1 .. Len(c) - 1 |-> Readdressed(Without(c, pos)[k], pos)]

FirstFromEnd(set) == CHOOSE r \in set : \A q \in set : r >= q  \* a mistake: the list is used backwards

First(set) == CHOOSE r \in set : \A q \in set : r <= q

RemoveNext(p) ==
    /\ phase = p
    /\ removeList # {}
    /\ LET pos == First(removeList) - removed
       IN  /\ code' = Removed(code, pos)
           /\ origin' = Without(origin, pos)
    /\ removeList' = removeList \ {First(removeList)}
    /\ removed' = removed + 1
    /\ again' = TRUE
    /\ UNCHANGED <<phase, state, changed, assembled>>

RemoveUnused == RemoveNext("remove")

RemoveDone ==
    /\ phase = "remove"
    /\ removeList = {}
    /\ Begin("fold")
    /\ changed' = FALSE
    /\ UNCHANGED <<code, again, assembled, origin>>

-----------------------------------------------------------------------------
(***************************************************************************)
(* optimiseArithmetic: an operation on two constants is a constant, and    *)
(* PUSHD d; LOAD_VAR v; ADDD; STORE_VAR w is INC_VARD v, d.                *)
(***************************************************************************)
(* The & of two integers, for a Bound of at most 16. *)
BitAnd(a, b) ==
    LET Bit(n, k) == ((n % (2 * Bound)) \div k) % 2
        Both(k) == k * Bit(a, k) * Bit(b, k)
    IN  Wrap(Both(1) + Both(2) + Both(4) + Both(8) + Both(16))

Folded(op, t, a, b) ==
    IF t = 1 /\ op = "AND" THEN I(BitAnd(a, b))
    ELSE IF t = 1 THEN Integers64(op, a, b) ELSE Doubles(op, a, b)

Folds(ins) ==
    /\ ins.op \in ArithmeticOps \ {"NOT"}
    /\ ins.t # 0
    /\ ~(ins.op = "AND" /\ ins.t = 2)
    /\ IsPush(prev[1]) /\ prev[1].t = ins.t
    /\ IsPush(prev[2]) /\ prev[2].t = ins.t

Increments(ins) ==
    /\ ins.op = "STORE_VAR"
    /\ prev[1].op = "ADD" /\ prev[1].t = 2
    /\ prev[2].op = "LOAD_VAR"
    /\ IsPush(prev[3]) /\ prev[3].t = 2

Fold ==
    /\ phase = "fold"
    /\ i <= Len(code)
    /\ LET ins == code[i]
           result == Folded(ins.op, ins.t, prev[1].a[1], prev[2].a[1])
       IN  \/ /\ Folds(ins)
              /\ result # Trap
              /\ code' = [code EXCEPT ![i] = Ins("PUSH", ins.t, <<result.n>>)]
              /\ removeList' = removeList \cup {i - 1, i - 2}
              /\ changed' = TRUE
              /\ prev' = <<ins, prev[1], prev[2]>>
              /\ i' = i + 1
              /\ UNCHANGED phase
           \/ /\ Folds(ins)             \* the assembler divides by zero
              /\ result = Trap
              /\ phase' = "trap"
              /\ UNCHANGED <<code, removeList, changed, prev, i>>
           \/ /\ Increments(ins)
              /\ code' = [code EXCEPT ![i] = Ins("INC_VAR", 2, <<prev[2].a[1], prev[3].a[1]>>)]
              /\ removeList' = removeList \cup {i - 1, i - 2, i - 3}
              /\ changed' = TRUE
              /\ prev' = <<ins, prev[1], prev[2]>>
              /\ i' = i + 1
              /\ UNCHANGED phase
           \/ /\ ~Folds(ins) /\ ~Increments(ins)
              /\ prev' = <<ins, prev[1], prev[2]>>
              /\ i' = i + 1
              /\ UNCHANGED <<code, removeList, changed, phase>>
    /\ UNCHANGED <<info, prevType, lastValue, removed, again, assembled, origin>>

FoldDone ==
    /\ phase = "fold"
    /\ i > Len(code)
    /\ Begin("squeeze")
    /\ UNCHANGED <<code, changed, again, assembled, origin>>

RemoveFolded == RemoveNext("squeeze")

SqueezeDoneAgain ==  \* a mistake: the outer loop does not clear its flag
    /\ phase = "squeeze"
    /\ removeList = {}
    /\ Begin(IF changed THEN "fold" ELSE IF again THEN "infer" ELSE "done")
    /\ changed' = FALSE
    /\ UNCHANGED <<code, again, assembled, origin>>

(* The inner while (changed), then the outer one. *)
SqueezeDone ==
    /\ phase = "squeeze"
    /\ removeList = {}
    /\ IF changed THEN Begin("fold") /\ changed' = FALSE /\ UNCHANGED again
       ELSE IF again THEN Begin("infer") /\ again' = FALSE /\ UNCHANGED changed
       ELSE Begin("done") /\ UNCHANGED <<changed, again>>
    /\ UNCHANGED <<code, assembled, origin>>

Optimise ==
    \/ Infer \/ InferDone \/ Known \/ KnownDone \/ Unused \/ UnusedDone
    \/ RemoveUnused \/ RemoveDone \/ Fold \/ FoldDone \/ RemoveFolded \/ SqueezeDone

Finished == phase \in {"done", "trap"} /\ UNCHANGED vars

Next == Optimise \/ Finished

Spec == Init /\ [][Next]_vars /\ WF_vars(Optimise)

-----------------------------------------------------------------------------
Phases == {"infer", "known", "unused", "remove", "fold", "squeeze", "done", "trap"}

(* The positions, counters and lists the loops of optimise work with. *)
TypeOK ==
    /\ phase \in Phases
    /\ i \in 1 .. Len(code) + 1
    /\ Len(origin) = Len(code)
    /\ removed \in Nat
    /\ changed \in BOOLEAN /\ again \in BOOLEAN
    /\ \A r \in removeList : r - removed \in 1 .. Len(code)

(***************************************************************************)
(* removeInstruction moves every jump with the code: whatever was removed, *)
(* a jump arrives at the first instruction that is left of those from the  *)
(* place on where it was assembled to arrive.                              *)
(***************************************************************************)
JumpsKept ==
    \A k \in DOMAIN code :
      code[k].op \in Jumps =>
        LET now == AddressOf(code[k])
            was == AddressOf(assembled[origin[k]])
        IN  \A j \in DOMAIN code : j < now <=> origin[j] < was

(***************************************************************************)
(* Optimised code can be written out: no rewriting left an opcode with the *)
(* wrong number of arguments, and no removal a jump past the end.          *)
(***************************************************************************)
Encodable == phase = "done" => \A k \in DOMAIN code : Encodes(code[k], code)

(* optimise terminates: a round that asks for another one has made the code shorter. *)
OptimiserTerminates == <>(phase \in {"done", "trap"})
=============================================================================
