------------------------------ MODULE MCSources ------------------------------
(***************************************************************************)
(* Sources for the runs: functions f(a, b) with the local variables x, y   *)
(* and i, and the field g.                                                 *)
(***************************************************************************)
EXTENDS Assembler

MCLocals == [a |-> 1, b |-> 2, x |-> 3, y |-> 4, i |-> 5]
MCFields == [g |-> 0]
MCStatics == [s |-> 0]
MCClassStatics == <<>>
MCMethods == <<>>

V(name) == [type |-> "var", var |-> name, class |-> "none"]
N(n) == [type |-> "int", n |-> n, folded |-> FALSE]
F(n) == [type |-> "double", n |-> n, folded |-> FALSE]
S(n) == [type |-> "string", n |-> n]
Op(op, l, r) == [type |-> "oper", op |-> op, left |-> l, right |-> r]
Let(name, e) == Op("SET", V(name), e)
Return(e) == [type |-> "return", value |-> e]
IfElse(t, c, d) == [type |-> "if", test |-> t, then |-> c, else |-> [type |-> "block", code |-> d]]
IfOnly(t, c) == [type |-> "if", test |-> t, then |-> c, else |-> Null]
ForLoop(j, t, inc, c) == [type |-> "for", init |-> j, test |-> t, inc |-> inc, body |-> c]
While(t, c) == ForLoop(Null, t, Null, c)

Arith == {"ADD", "SUB", "MUL", "DIV", "AND"}
Compares == DOMAIN Conditions

(* Expressions on the arguments, literals, the constant x and the changing y. *)
Leaves == {V("a"), V("x"), V("g"), N(2)}
Simple == {Op(op, l, r) : op \in Arith \ {"AND"}, l \in Leaves, r \in Leaves} \cup
          {Op(op, l, V("b")) : op \in Compares \cup {"AND"}, l \in {V("a"), V("x")}} \cup
          {Op("NOT", Null, V("a"))}
Nested == {Op(op, l, r) : op \in {"SUB", "ADD"}, l \in {V("a"), N(1)},
                          r \in {Op(o, V("x"), p) : o \in {"SUB", "MUL"}, p \in {V("x"), V("b"), N(3)}}}
          \cup {Op("SUB", Op("SUB", N(3), N(1)), p) : p \in {N(1), V("x"), V("a")}}

Straight == {<<Let("x", N(3)), Let("y", e), Return(Op("SUB", V("y"), V("a")))>> : e \in Simple \cup Nested}
Branching ==
    {<<Let("x", N(1)), IfElse(e, <<Let("y", N(1)), Op("DECREMENT", V("x"), Null)>>, <<Let("y", V("b"))>>),
       Return(Op("ADD", V("x"), V("y")))>> :
       e \in {Op(c, V("a"), V("b")) : c \in Compares} \cup {V("a"), Op("AND", V("a"), V("b"))}} \cup
    {<<Let("g", V("a")), IfOnly(Op("LESS_THAN", V("g"), N(1)), <<Op("INCREMENT", V("g"), Null)>>), Return(V("g"))>>}
Looping ==
    {<<Let("x", N(0)), ForLoop(Let("i", N(0)), Op(c, V("i"), N(2)), Op("INCREMENT", V("i"), Null), <<Let("x", e)>>),
       Return(V("x"))>> :
       c \in {"LESS_THAN", "LESS_THAN_EQUAL", "NOT_EQUAL"},
       e \in {Op("ADD", V("x"), V("i")), Op("ADD", V("x"), V("a")), Op("SUB", V("b"), V("x"))}} \cup
    {<<While(Op("GREATER_THAN", V("a"), N(0)), <<Op("DECREMENT", V("a"), Null)>>), Return(V("a"))>>}

(* Nothing in these tells the assembler a type. *)
Generic == {<<Let("y", Op(op, V("a"), V("b"))), Let("g", Op(oq, V("y"), V("g"))), Return(Op("SUB", V("y"), V("a")))>> :
              op \in {"ADD", "SUB", "MUL", "AND"}, oq \in {"ADD", "MUL"}} \cup
           {<<Let("g", Op(c, V("a"), V("b"))), Return(Op("SUB", V("a"), V("b")))>> : c \in Compares}

(* Constants that are propagated and folded, before, between and behind jumps. *)
Propagating ==
    {<<Let("x", N(2)), IfElse(Op(c, V("a"), V("x")), <<Let("y", Op("ADD", V("x"), N(1)))>>, <<Let("i", N(3)), Let("y", Op("SUB", V("b"), V("i")))>>),
       Return(Op("MUL", V("y"), V("x")))>> : c \in {"LESS_THAN", "GREATER_THAN", "EQUALS"}} \cup
    {<<ForLoop(Let("i", N(0)), Op("LESS_THAN", V("i"), V("a")), Op("INCREMENT", V("i"), Null), <<Let("x", N(1)), Let("g", Op("ADD", V("g"), V("x")))>>),
       Return(V("g"))>>,
     <<Let("x", N(2)), IfOnly(V("a"), <<Let("x", N(3))>>), Return(V("x"))>>,
     <<Let("x", N(2)), While(Op("GREATER_THAN", V("a"), N(0)), <<Let("a", Op("SUB", V("a"), Op("SUB", V("x"), N(1))))>>), Let("y", N(1)),
       Return(V("a"))>>,
     <<Let("x", F(1)), While(Op("GREATER_THAN", V("a"), N(0)), <<Let("x", Op("ADD", V("x"), F(2))), Op("DECREMENT", V("a"), Null)>>),
       Return(V("x"))>>,
     <<Let("x", N(3)), Return(Op("DIV", V("x"), Op("SUB", N(1), N(1))))>>}

MCSources == Straight \cup Branching \cup Looping \cup Generic \cup Propagating
=============================================================================
