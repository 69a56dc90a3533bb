------------------------------ MODULE Assembler ------------------------------
(***************************************************************************)
(* Assembler::assemble (assembler.cpp) up to the optimiser: a function's   *)
(* expression trees become instructions.  c is the assembler at work:      *)
(* c.code is m_code, c.ok is FALSE once a call has returned false, after   *)
(* which nothing is emitted until somebody ignores that result.            *)
(***************************************************************************)
EXTENDS Interp, SequencesExt

CONSTANTS
    Locals,     \* CodeBlock::getVarId: names to variable numbers
    Fields,     \* Class::getFieldId of the function's class
    Statics,    \* Class::getStaticFieldId of the function's class
    ClassStatics, \* the static fields of the classes a script names: class to name to number
    Methods,    \* its methods: names to "static" or "instance"
    KnownClasses  \* what Runtime::findClass finds

This == "this"
Null == [type |-> "null"]

Empty == [ok |-> TRUE, code |-> <<>>]
Emit(c, op, t, a) == IF c.ok THEN [c EXCEPT !.code = Append(@, Ins(op, t, a))] ELSE c
Failed(c) == [c EXCEPT !.ok = FALSE]
Here(c) == Len(c.code) + 1

(* m_code[pos].args[k] = addr, on whatever instruction is there. *)
Patch(c, pos, k, addr) ==
    IF ~c.ok THEN c
    ELSE IF pos \in DOMAIN c.code /\ k \in DOMAIN c.code[pos].a
      THEN [c EXCEPT !.code[pos].a[k] = addr]
      ELSE [c EXCEPT !.code = Append(@, Ins("UNDEFINED", 0, <<>>))]

-----------------------------------------------------------------------------
(***************************************************************************)
(* Parser::resolveTypes visits the operators in the order of the source,   *)
(* twice, so the type of a right operand that is an operator is one pass   *)
(* behind.  A type digit is 0 where the type is unknown.                   *)
(***************************************************************************)
IsOper(e) == e.type = "oper"
IsReference(e) == IsOper(e) /\ e.op = "REFERENCE"
LiteralType(e) == IF e.type = "int" /\ ~e.folded THEN 1
                  ELSE IF e.type = "double" /\ ~e.folded THEN 2 ELSE 0

RECURSIVE FirstType(_), OperType(_)
FirstType(e) ==
    IF ~IsOper(e) THEN LiteralType(e)
    ELSE IF e.left = Null \/ e.right = Null \/ IsOper(e.right) THEN 0
    ELSE IF FirstType(e.left) = LiteralType(e.right) THEN LiteralType(e.right) ELSE 0

OperType(e) ==
    IF ~IsOper(e) \/ FirstType(e) # 0 THEN FirstType(e)
    ELSE IF e.right = Null THEN OperType(e.left)
    ELSE IF e.left = Null THEN 0
    ELSE LET right == FirstType(e.right)
         IN  IF OperType(e.left) = right \/ e.op = "SET" THEN right ELSE 0

-----------------------------------------------------------------------------
RECURSIVE Expr(_, _, _, _), Call(_, _, _, _, _), Reference(_, _), Block(_, _)

(* The elements of a sequence of expressions, each leaving its result. *)
Arguments(c, args) == FoldLeft(LAMBDA d, e : Expr(d, e, Null, TRUE), c, args)

LastChild(e) ==  \* from a chain of references to what it refers to
    LET RECURSIVE Follow(_)
        Follow(x) == IF IsReference(x) THEN Follow(x.right) ELSE x
    IN  Follow(e)

Named(c, ref, name) == Emit(Reference(c, ref), "PUSHOBJ", 0, <<name>>)

IsVariable(name) == name \in DOMAIN Locals \cup DOMAIN Fields

Loads == [var |-> "LOAD_VAR", field |-> "LOAD_FIELD", static |-> "LOAD_STATIC_FIELD"]
Stores == [var |-> "STORE_VAR", field |-> "STORE_FIELD", static |-> "STORE_STATIC_FIELD"]

VariableNoThis(c, e, op) ==  \* a mistake: a field is accessed without its object
    IF e.var \in DOMAIN Locals THEN Emit(c, op.var, 0, <<Locals[e.var]>>)
    ELSE IF e.var \in DOMAIN Fields THEN Emit(c, op.field, 0, <<Fields[e.var]>>)
    ELSE Failed(c)

Variable(c, e, op) ==  \* load and store agree on where a name is looked up
    LET this == Emit(c, "LOAD_VAR", 0, <<0>>)
    IN  CASE e.var = This -> Emit(c, op.var, 0, <<0>>)
          [] e.var \in DOMAIN Locals -> Emit(c, op.var, 0, <<Locals[e.var]>>)
          [] e.var \in DOMAIN Fields \ DOMAIN Locals ->
                Emit(this, op.field, 0, <<Fields[e.var]>>)
          [] e.var \in DOMAIN Statics \ (DOMAIN Fields \cup DOMAIN Locals) ->
                Emit(c, op.static, 0, <<This, Statics[e.var]>>)
          [] OTHER -> Failed(c)

Load(c, e, ref) ==
    IF ref # Null THEN Emit(Named(c, ref, e.var), "LOAD_FIELD_NAMED", 0, <<>>)
    ELSE IF e.class = "none" THEN Variable(c, e, Loads)
    ELSE IF e.var \in DOMAIN ClassStatics[e.class]
      THEN Emit(c, "LOAD_STATIC_FIELD", 0, <<e.class, ClassStatics[e.class][e.var]>>)
      ELSE Failed(c)

Store(c, e, ref) ==
    IF ref # Null THEN Emit(Named(c, ref, e.var), "STORE_FIELD_NAMED", 0, <<>>)
    ELSE Variable(c, e, Stores)

Reference(c, e) ==
    LET left == IF e.left.type = "call" THEN Call(c, e.left, Null, TRUE, TRUE)
                ELSE Expr(c, e.left, Null, TRUE)
    IN  IF IsReference(e.right) THEN Reference(left, e.right) ELSE left

(* inReference: the parent of the call is a reference; ref is the reference it is the end of. *)
Call(c, e, ref, need, inReference) ==
    LET args == Arguments(c, e.args)
        obj == IF ref # Null THEN Reference(args, ref) ELSE args
        n == Len(e.args)
        called ==
          IF e.class # "none" THEN Emit(obj, "CALL_STATIC", 0, <<e.fn, n>>)
          ELSE IF inReference
            THEN Emit(Emit(obj, "PUSHOBJ", 0, <<e.fn>>), "CALL_NAMED", 0, <<n>>)
          ELSE IF IsVariable(e.fn)
            THEN Emit(Load(obj, [var |-> e.fn, class |-> "none"], Null), "CALL_OBJ", 0, <<n>>)
          ELSE IF e.fn \notin DOMAIN Methods THEN Failed(obj)
          ELSE IF Methods[e.fn] = "static" THEN Emit(obj, "CALL_STATIC", 0, <<e.fn, n>>)
          ELSE Emit(Emit(obj, "LOAD_VAR", 0, <<0>>), "CALL", 0, <<e.fn, n>>)
    IN  IF need THEN called ELSE Emit(called, "POP", 0, <<>>)

(***************************************************************************)
(* i++ and i--.  The operand of a statement of its own, when it is a local *)
(* variable, is changed in place.                                          *)
(***************************************************************************)
InOrder(c, op) == IF op = "DECREMENT" THEN Emit(c, "SWAP", 0, <<>>) ELSE c

Step1(c, e, need) ==
    LET one == Emit(IF need THEN Emit(c, "DUP", 0, <<>>) ELSE c, "PUSH", 1, <<1>>)
        ordered == IF need THEN InOrder(one, e.op) ELSE one
    IN  Emit(ordered, IF e.op = "INCREMENT" THEN "ADD" ELSE "SUB", 1, <<>>)

Increment(c, e, ref, need) ==
    IF e.left.type \notin {"var", "array"} THEN Failed(c)
    ELSE IF ~need /\ e.left.var \in DOMAIN Locals
      THEN Emit(c, "INC_VAR", 0,
                <<Locals[e.left.var], IF e.op = "INCREMENT" THEN 1 ELSE -1>>)
      ELSE Store(Step1(Load(c, e.left, ref), e, need), e.left, ref)

SetNeeded(c, e, ref, need) ==  \* a mistake: the value is kept whether it is needed or not
    LET value == Emit(c, "DUP", 0, <<>>)
    IN  IF IsReference(e.left) THEN Store(value, LastChild(e.left), e.left) ELSE Store(value, e.left, ref)

(* A reference on the left takes the place of the one the assignment is the end of. *)
Set(c, e, ref, need) ==
    LET value == IF need THEN Emit(c, "DUP", 0, <<>>) ELSE c
    IN  CASE IsReference(e.left) -> Store(value, LastChild(e.left), e.left)
          [] e.left.type = "var" -> Store(value, e.left, ref)
          [] e.left.type = "array" ->
                Emit(Expr(Load(value, e.left, ref), e.left.index, Null, TRUE),
                     "STORE_ARRAY", 0, <<>>)
          [] OTHER -> Failed(value)

Conditions ==
    [EQUALS |-> "E", NOT_EQUAL |-> "NE", LESS_THAN |-> "L", LESS_THAN_EQUAL |-> "LE",
     GREATER_THAN |-> "G", GREATER_THAN_EQUAL |-> "GE"]

(* pushOperator and pushCMP choose the opcode by the type of the operation. *)
Operate(c, e) ==
    IF e.op \in DOMAIN Conditions
      THEN Emit(Emit(c, <<"CMP", "CMPI", "CMPD">>[OperType(e) + 1], 0, <<>>),
                "PUSHC", 1, <<Conditions[e.op]>>)
      ELSE Emit(c, e.op, OperType(e), <<>>)

(* The right operand first, so that the left one is on top of the stack. *)
Operands(c, e) ==
    LET right == IF e.right # Null THEN Expr(c, e.right, Null, TRUE) ELSE c
    IN  IF e.left # Null /\ e.op \notin {"SET", "INCREMENT", "DECREMENT"}
          THEN Expr(right, e.left, Null, TRUE)
          ELSE right

Oper(c, e, ref, need) ==
    IF IsReference(e) /\ ref = Null THEN Expr(c, LastChild(e), e, need)
    ELSE LET d == Operands(c, e)
         IN  CASE e.op \in {"INCREMENT", "DECREMENT"} -> Increment(d, e, ref, need)
               [] e.op = "SET" -> Set(d, e, ref, need)
               [] e.op = "REFERENCE" -> d
               [] OTHER -> Operate(d, e)

-----------------------------------------------------------------------------
(***************************************************************************)
(* A test ends in a branch taken when it is false.  A comparison at its    *)
(* end is folded into the branch, when it is one of three.                 *)
(***************************************************************************)
Inverted == [E |-> "BNE", L |-> "BGE", LE |-> "BG"]

Test(c, e) ==
    LET d == Expr(c, e, Null, TRUE)
        last == d.code[Len(d.code)]
        folds == Len(d.code) > 2 /\ last.op = "PUSHC" /\ last.a[1] \in DOMAIN Inverted
    IN  IF ~d.ok THEN d
        ELSE IF folds
          THEN Emit([d EXCEPT !.code = Front(@)], Inverted[last.a[1]], 0, <<0>>)
          ELSE Emit(Emit(Emit(d, "PUSH", 1, <<0>>), "CMPI", 0, <<>>), "BEQ", 0, <<0>>)

(* If and For do not look at what assembleTest returns. *)
Ignoring(c, d) == [d EXCEPT !.ok = c.ok]

If(c, e) ==
    LET test == Ignoring(c, Test(c, e.test))
        branch == Len(test.code)
        body == Block(test, e.then)
        jump == Emit(body, "JMP", 0, <<0>>)
    IN  IF e.else = Null THEN Patch(body, branch, 1, Here(body))
        ELSE LET alt == Block(Patch(jump, branch, 1, Here(jump)), e.else.code)
             IN  Patch(alt, Len(jump.code), 1, Here(alt))

ForFromInit(c, e) ==  \* a mistake: loopTop is taken before the initialiser
    LET init == IF e.init = Null THEN c ELSE Expr(c, e.init, Null, FALSE)
        test == Ignoring(init, Test(init, e.test))
        body == Block(test, e.body)
        inc == IF e.inc = Null THEN body ELSE Expr(body, e.inc, Null, FALSE)
        jump == Emit(inc, "JMP", 0, <<Here(c)>>)
    IN  Patch(jump, Len(test.code), 1, Here(jump))

For(c, e) ==
    LET init == IF e.init = Null THEN c ELSE Expr(c, e.init, Null, FALSE)
        test == Ignoring(init, Test(init, e.test))
        body == Block(test, e.body)
        inc == IF e.inc = Null THEN body ELSE Expr(body, e.inc, Null, FALSE)
        jump == Emit(inc, "JMP", 0, <<Here(init)>>)
    IN  Patch(jump, Len(test.code), 1, Here(jump))

Try(c, e) ==
    LET enter == Emit(c, "PUSHTRY", 0, <<Locals[e.var], 0>>)
        body == Emit(Block(enter, e.body), "POPTRY", 0, <<>>)
        jump == Emit(body, "JMP", 0, <<0>>)
        handler == Block(Patch(jump, Len(enter.code), 2, Here(jump)), e.catch)
    IN  IF e.var \notin DOMAIN Locals THEN Failed(c)
        ELSE Patch(handler, Len(jump.code), 1, Here(handler))

New(c, e) ==
    IF e.class \notin KnownClasses THEN Failed(c)
    ELSE Emit(Arguments(c, e.args), "NEW", 0, <<e.class, Len(e.args)>>)

(***************************************************************************)
(* assembleExpression                                                      *)
(***************************************************************************)
Expr(c, e, ref, need) ==
    CASE e.type = "call" -> Call(c, e, ref, need, ref # Null)
      [] e.type = "oper" -> Oper(c, e, ref, need)
      [] e.type = "if" -> If(c, e)
      [] e.type = "for" -> For(c, e)
      [] e.type = "return" ->
            Emit(IF e.value = Null THEN Emit(c, "PUSH", 1, <<0>>) ELSE Expr(c, e.value, Null, TRUE),
                 "RETURN", 0, <<>>)
      [] e.type = "try" -> Try(c, e)
      [] e.type = "throw" -> Emit(Expr(c, e.value, Null, TRUE), "THROW", 0, <<>>)
      [] e.type = "var" -> Load(c, e, ref)
      [] e.type = "array" ->
            Emit(Expr(Load(c, e, ref), e.index, Null, TRUE), "LOAD_ARRAY", 0, <<>>)
      [] e.type = "new" -> New(c, e)
      [] e.type = "string" -> Emit(c, "PUSHOBJ", 0, <<e.n>>)
      [] e.type = "int" -> Emit(c, "PUSH", 1, <<e.n>>)
      [] e.type = "double" -> Emit(c, "PUSH", 2, <<e.n>>)
      [] e.type = "function" -> Emit(c, "NEW_FUNCTION", 0, <<e.fn>>)

Block(c, body) == FoldLeft(LAMBDA d, e : Expr(d, e, Null, FALSE), c, body)

(* assemble, with the return that ends every function. *)
Assembled(body) == Emit(Emit(Block(Empty, body), "PUSH", 1, <<0>>), "RETURN", 0, <<>>)
=============================================================================
