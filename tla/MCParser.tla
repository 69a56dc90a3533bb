------------------------------ MODULE MCParser -------------------------------
(***************************************************************************)
(* A source is a function, written with as few brackets as the order of    *)
(* OpType needs or with all of them (full), and with the token at spoilt   *)
(* left out when there is one.  The class around it ends behind it.        *)
(***************************************************************************)
EXTENDS Parser

CONSTANT Case

V(name) == [type |-> "var", var |-> name, class |-> <<>>]
N(n) == Literal("int", n)
Truth(word) == [type |-> "literal", n |-> word]
Not(e) == Oper("NOT", Null, e)
Call(f, args) == [type |-> "call", fn |-> f, class |-> <<>>, args |-> args]
Block(code) == [code |-> code]
Decl(name, e) == [type |-> "decl", var |-> name, init |-> e]
Set(name, e) == Oper("SET", V(name), e)
IfThen(t, c, d) == [type |-> "if", test |-> t, then |-> Block(c), else |-> d]
For(t, c) == [type |-> "for", init |-> Set("x", N(0)), test |-> t, inc |-> Oper("INCREMENT", V("x"), Null), body |-> Block(c)]
While(t, c) == [type |-> "for", init |-> Null, test |-> t, inc |-> Null, body |-> Block(c)]
Return(e) == [type |-> "return", value |-> e]
Throw(e) == [type |-> "throw", value |-> e]
Try(c, d) == [type |-> "try", body |-> Block(c), var |-> "e", catch |-> Block(d)]
Function(args, code) == [type |-> "function", args |-> args, body |-> Block(code)]

MCImports == [File |-> <<"io", "File">>]
MCClassNames == {<<"io", "File">>, <<"lang", "Test">>}

-----------------------------------------------------------------------------
(* The tokens of a tree. *)
T(kind) == <<[k |-> kind, v |-> ""]>>
Id(name) == <<[k |-> "id", v |-> name]>>
O(op) == <<[k |-> "op", v |-> op]>>

Join(parts, separator) ==
    FlattenSeq([j \in 1 .. 2 * Len(parts) - 1 |-> IF j % 2 = 1 THEN parts[(j + 1) \div 2] ELSE separator])

RECURSIVE Expr(_, _), Stmt(_, _)

Operand(e, full, loose) ==
    IF e = Null THEN <<>>
    ELSE IF e.type = "oper" /\ (full \/ loose) THEN T("(") \o Expr(e, full) \o T(")") ELSE Expr(e, full)

Arguments(args, full) == T("(") \o Join([j \in DOMAIN args |-> Expr(args[j], full)], T(",")) \o T(")")
Member(class, name) == Join([j \in DOMAIN class |-> Id(class[j])] \o <<Id(name)>>, O("REFERENCE"))

Expr(e, full) ==
    CASE e.type = "oper" ->
           LET Loose(x) == x.type = "oper" /\ Prec(x.op) < Prec(e.op)
               Tight(x) == x.type = "oper" /\ Prec(x.op) <= Prec(e.op)
           IN  Operand(e.left, full, Loose(e.left)) \o O(e.op) \o Operand(e.right, full, Tight(e.right))
      [] e.type \in Literals -> <<[k |-> e.type, v |-> e.n]>>
      [] e.type = "var" -> Member(e.class, e.var)
      [] e.type = "call" -> Member(e.class, e.fn) \o Arguments(e.args, full)
      [] e.type = "array" -> Member(e.class, e.var) \o T("[") \o Expr(e.index, full) \o T("]")
      [] e.type = "new" -> T("new") \o Join([j \in DOMAIN e.class |-> Id(e.class[j])], O("REFERENCE")) \o Arguments(e.args, full)
      [] e.type = "function" -> T("function") \o Stmt(e, full)

Stmt(e, full) ==
    LET X(f) == Expr(f, full)
        Body(block) == T("{") \o FlattenSeq([j \in DOMAIN block.code |-> Stmt(block.code[j], full)]) \o T("}")
    IN  CASE e.type = "function" -> T("(") \o Join([j \in DOMAIN e.args |-> Id(e.args[j])], T(",")) \o T(")") \o Body(e.body)
          [] e.type = "decl" -> T("var") \o Id(e.var) \o (IF e.init = Null THEN <<>> ELSE O("SET") \o X(e.init)) \o T(";")
          [] e.type = "if" ->
               LET single == e.else # Null /\ Len(e.else.code) = 1 /\ e.else.code[1].type = "if"
               IN  T("if") \o T("(") \o X(e.test) \o T(")") \o Body(e.then)
                     \o (IF e.else = Null THEN <<>>
                         ELSE T("else") \o (IF single THEN Stmt(e.else.code[1], full) ELSE Body(e.else)))
          [] e.type = "for" ->
               (IF e.init = Null THEN T("while") \o T("(") \o X(e.test)
                ELSE T("for") \o T("(") \o X(e.init) \o T(";") \o X(e.test) \o T(";") \o X(e.inc)) \o T(")") \o Body(e.body)
          [] e.type = "return" -> T("return") \o (IF e.value = Null THEN <<>> ELSE X(e.value)) \o T(";")
          [] e.type = "throw" -> T("throw") \o X(e.value) \o T(";")
          [] e.type = "try" -> T("try") \o Body(e.body) \o T("catch") \o T("(") \o Id(e.var) \o T(")") \o Body(e.catch)
          [] OTHER -> X(e) \o T(";")

MCWritten(s) == (LET all == Stmt(s.tree, s.full) IN IF s.spoilt = 0 THEN all ELSE RemoveAt(all, s.spoilt)) \o T("}")

ASSUME ClassesEndHere == ClassesEnd

-----------------------------------------------------------------------------
(* The tree that a source stands for: declarations are in vars, the sum of *)
(* two literals is a literal, and a += b is a = a + b.                     *)
RECURSIVE Meant(_)

MeantBlock(block) ==
    LET names == SelectSeq(block.code, LAMBDA e : e.type = "decl")
        code == SelectSeq(block.code, LAMBDA e : e.type # "decl" \/ e.init # Null)
    IN  [vars |-> [j \in DOMAIN names |-> names[j].var], code |-> [j \in DOMAIN code |-> Meant(code[j])]]

MeantAll(es) == [j \in DOMAIN es |-> Meant(es[j])]

Meant(e) ==
    CASE e.type = "oper" ->
           LET l == Meant(e.left)
               r == Meant(e.right)
               Literally(n) == [type |-> l.type, n |-> n, folded |-> TRUE]
               literals == l.type = r.type /\ l.type \in {"int", "double"}
           IN  CASE e.op = "ADD" /\ literals -> Literally(l.n + r.n)
                 [] e.op = "MUL" /\ literals -> Literally(l.n * r.n)
                 [] e.op = "ADD_ASSIGN" -> Oper("SET", l, Oper("ADD", l, r))
                 [] e.op = "SUB_ASSIGN" -> Oper("SET", l, Oper("SUB", l, r))
                 [] OTHER -> Oper(e.op, l, r)
      [] e.type = "literal" -> N(IF e.n = "true" THEN 1 ELSE 0)
      [] e.type = "decl" -> Oper("SET", V(e.var), Meant(e.init))
      [] e.type \in {"call", "new"} -> [e EXCEPT !.args = MeantAll(@)]
      [] e.type = "array" -> [e EXCEPT !.index = Meant(@)]
      [] e.type = "function" -> [e EXCEPT !.body = MeantBlock(@)]
      [] e.type = "if" -> [e EXCEPT !.test = Meant(@), !.then = MeantBlock(@), !.else = IF @ = Null THEN Null ELSE MeantBlock(@)]
      [] e.type = "for" -> [e EXCEPT !.init = Meant(@), !.test = Meant(@), !.inc = Meant(@), !.body = MeantBlock(@)]
      [] e.type \in {"return", "throw"} -> [e EXCEPT !.value = Meant(@)]
      [] e.type = "try" -> [e EXCEPT !.body = MeantBlock(@),
                                     !.catch = [MeantBlock(@) EXCEPT !.vars = Append(@, e.var)]]
      [] OTHER -> e

(***************************************************************************)
(* Written and parsed again, a function is what it was, whatever its       *)
(* operators, brackets, blocks and calls; and no token is left but the     *)
(* brace of its class.                                                     *)
(***************************************************************************)
RoundTrip ==
    status # "parsing" /\ source.spoilt = 0 =>
      status = "done" /\ pos = Len(tokens) /\ result = Meant(source.tree)

-----------------------------------------------------------------------------
(* Expressions of up to two operators, and of three. *)
Binary == {"SET", "AND", "EQUALS", "LESS_THAN", "GREATER_THAN_EQUAL", "ADD", "SUB", "MUL", "DIV", "REFERENCE"}
Leaves == {V("a"), N(2)}
Some == {Oper(op, V("a"), V("b")) : op \in Binary} \cup {Oper("INCREMENT", V("a"), Null), Not(V("a"))}
One == {Oper(op, l, r) : op \in Binary, l \in Leaves, r \in Leaves} \cup Some
Two ==
    {Oper(op, l, V("c")) : op \in Binary, l \in Some} \cup {Oper(op, V("c"), r) : op \in Binary, r \in Some}
      \cup {Not(e) : e \in Some} \cup {Oper("DECREMENT", e, Null) : e \in Some}
Narrow == {Oper(op, V("a"), V("b")) : op \in {"LESS_THAN", "SUB", "MUL"}} \cup {Not(V("a"))}
Three ==
    {Oper(op, l, r) : op \in {"AND", "ADD", "MUL"}, l \in Narrow, r \in Narrow}
      \cup {Oper("SUB", Oper("SUB", V("a"), e), V("d")) : e \in Narrow}

Assigning == {Oper(op, V("x"), e) : op \in DOMAIN Assigns, e \in {V("a"), N(2), Oper("MUL", N(2), N(3))}}

Values ==
    {Call("f", <<>>), Call("f", <<V("a"), Oper("ADD", V("b"), N(1))>>), Call("f", <<Call("g", <<V("a")>>), V("b")>>),
     [type |-> "call", fn |-> "out", class |-> <<"io", "File">>, args |-> <<V("a")>>],
     [type |-> "var", var |-> "out", class |-> <<"lang", "Test">>],
     [type |-> "array", var |-> "t", class |-> <<>>, index |-> Oper("ADD", V("a"), N(1))],
     [type |-> "new", class |-> <<"lang", "Test">>, args |-> <<V("a")>>],
     [type |-> "string", n |-> 7, folded |-> FALSE], Truth("true"), Oper("SET", V("x"), Truth("false")),
     Function(<<>>, <<Return(N(1))>>), Function(<<"p", "q">>, <<Decl("z", V("p")), Return(Oper("ADD", V("z"), V("q")))>>),
     Oper("REFERENCE", Oper("REFERENCE", V("a"), V("b")), Call("f", <<V("c")>>))}

Bodies ==
    LET x == Decl("x", N(1))
        y == Decl("y", Null)
        use == Set("x", Oper("ADD", V("x"), V("a")))
        zs == <<Decl("z", V("x")), Set("z", V("y"))>>
    IN  {<<x, y, IfThen(V("a"), zs, Null), use>>,
         <<x, IfThen(V("a"), <<y, use>>, Block(<<use>>)), y, use>>,
         <<IfThen(V("a"), <<x>>, Block(<<IfThen(V("b"), <<y>>, Block(zs))>>)), y>>,
         <<x, For(Oper("LESS_THAN", V("x"), V("a")), <<y, For(V("y"), zs)>>), y>>,
         <<While(V("a"), <<x, IfThen(V("x"), <<y, While(V("y"), zs)>>, Null)>>), Return(Null)>>,
         <<Throw(Call("f", <<V("a")>>))>>,
         <<>>}

Tries == {<<Decl("x", N(1)), Try(<<Throw(V("x"))>>, <<Set("x", V("e"))>>), Return(V("x"))>>}

Exact(trees, full) == {[tree |-> t, full |-> full, spoilt |-> 0] : t \in trees}
OneStatement(es) == {Function(<<"a">>, <<Return(e)>>) : e \in es}
Blocks(codes) == {Function(<<"a", "b">>, code) : code \in codes}

(* A function value and what is behind return swallow the error: see README. *)
Spoilable ==
    Blocks(Bodies) \cup Blocks(Tries)
      \cup {Function(<<"a">>, <<e>>) : e \in Narrow \cup {v \in Values : v.type # "function"}}

Spoilt == UNION {{[tree |-> t, full |-> TRUE, spoilt |-> j] : j \in 1 .. Len(Stmt(t, TRUE))} : t \in Spoilable}

MCSources ==
    CASE Case = "all" ->
           Exact(OneStatement(One \cup Two \cup Values \cup {Oper("ADD", V("a"), v) : v \in Values}), FALSE)
             \cup Exact(OneStatement(Two \cup Three), TRUE) \cup Exact(Blocks(Bodies \cup Tries), FALSE)
             \cup Exact({Function(<<>>, <<e>>) : e \in Assigning}, FALSE) \cup Spoilt
      [] Case = "three" -> Exact(OneStatement(Three), FALSE)
      [] Case = "tries" -> Exact(Blocks(Tries), FALSE)
=============================================================================
