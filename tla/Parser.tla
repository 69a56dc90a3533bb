------------------------------- MODULE Parser --------------------------------
(***************************************************************************)
(* Parser::parseFunction (parser.cpp): from the tokens of a function to    *)
(* its blocks and expression trees.  stack holds the C++ activations that  *)
(* are under way; an action is one round of a loop of one of them, or one  *)
(* token that it expects.                                                  *)
(*                                                                         *)
(* A token is [k, v]: k is its kind, v the name, the number or the         *)
(* operator.  A name qualified by a class is known by ClassNames, which is *)
(* what Runtime::findClass finds; class <<>> is none.                      *)
(***************************************************************************)
EXTENDS Integers, Sequences, SequencesExt, FiniteSets

CONSTANTS
    Sources,        \* functions: [args, body]
    Written(_),     \* the tokens of a source
    ClassNames,     \* sequences of identifiers
    Imports         \* short names to sequences of identifiers

IsSeq(s) == Len(s) \in Nat /\ s = [i \in 1 .. Len(s) |-> s[i]]

ASSUME WrittenAssumption == \A s \in Sources : IsSeq(Written(s))

VARIABLES source, tokens, pos, stack, status, result

vars == <<source, tokens, pos, stack, status, result>>

Null == [type |-> "null"]

-----------------------------------------------------------------------------
(***************************************************************************)
(* OpType in its order, which is the order of precedence, and the tokens   *)
(* that opTable maps to an OpType of another name.                         *)
(***************************************************************************)
OpTypes == <<"SET", "AND", "EQUALS", "NOT_EQUAL", "LESS_THAN", "LESS_THAN_EQUAL", "GREATER_THAN",
             "GREATER_THAN_EQUAL", "ADD", "SUB", "MUL", "DIV", "INCREMENT", "DECREMENT", "NOT", "REFERENCE">>
Assigns == [ADD_ASSIGN |-> "ADD", SUB_ASSIGN |-> "SUB"]

OpType(op) == IF op \in DOMAIN Assigns THEN "SET" ELSE op
Prec(op) == CHOOSE n \in DOMAIN OpTypes : OpTypes[n] = OpType(op)
HasLeft(op) == op # "NOT"
HasRight(op) == op \notin {"INCREMENT", "DECREMENT"}

Oper(op, l, r) == [type |-> "oper", op |-> op, left |-> l, right |-> r]
Literal(type, n) == [type |-> type, n |-> n, folded |-> FALSE]

(***************************************************************************)
(* buildTree: the last element of the queue, with operands from before it. *)
(* Two literals are added and multiplied, and l += r becomes l = (l + r).  *)
(***************************************************************************)
Combined(op, l, r) ==
    IF op \in {"ADD", "MUL"} /\ l.type = r.type /\ l.type \in {"int", "double"}
      THEN [type |-> l.type, n |-> IF op = "ADD" THEN l.n + r.n ELSE l.n * r.n, folded |-> TRUE]
    ELSE IF op \in DOMAIN Assigns
      THEN Oper("SET", l, Oper(Assigns[op], [type |-> "var", var |-> l.var, class |-> <<>>], r))
    ELSE Oper(op, l, r)

Combines(op, l) == op \in DOMAIN Assigns => l.type = "var"

Bracket == [type |-> "bracket"]

(* Of the first n elements of the queue: the one tree at their end and the number
   of elements that it leaves, or none when buildTree returns NULL. *)
TreesAt(queue) ==
    LET Tree[n \in 0 .. Len(queue)] ==
          IF n = 0 \/ queue[n] = Bracket THEN {}
          ELSE IF queue[n].type # "operator" THEN {[e |-> queue[n], rest |-> n - 1]}
          ELSE LET op == queue[n].op
                   Operands(has, rest) == IF has THEN Tree[rest] ELSE {[e |-> Null, rest |-> rest]}
               IN  UNION {{[e |-> Combined(op, left.e, right.e), rest |-> left.rest]
                           : left \in {t \in Operands(HasLeft(op), right.rest) : Combines(op, t.e)}}
                          : right \in Operands(HasRight(op), n - 1)}
    IN  Tree

Trees(queue) == TreesAt(queue)[Len(queue)]

-----------------------------------------------------------------------------
(***************************************************************************)
(* What the statements are made of, in order: a token to expect, EXPR for  *)
(* parseExpression, BLOCK for parseCodeBlock, and what has a rule of its   *)
(* own below.                                                              *)
(***************************************************************************)
Forms ==
    [function |-> <<"PARAMS", "{", "BLOCK">>,
     var |-> <<"DECLARE", "EXPR", ";">>,
     if |-> <<"(", "EXPR", ")", "{", "BLOCK", "ELSE">>,
     for |-> <<"(", "EXPR", ";", "EXPR", ";", "EXPR", ")", "{", "BLOCK">>,
     while |-> <<"(", "EXPR", ")", "{", "BLOCK">>,
     return |-> <<"VALUE", ";">>,
     try |-> <<"{", "BLOCK", "catch", "(", "NAME", ")", "{", "BLOCK">>,
     throw |-> <<"EXPR", ";">>,
     expression |-> <<"EXPR", ";">>]

Statement(form) == [kind |-> "statement", form |-> form, at |-> 1, parts |-> <<>>]
CodeBlock(single) == [kind |-> "block", vars |-> <<>>, code |-> <<>>, single |-> single]
Expression(end) == [kind |-> "expression", end |-> end, queue |-> <<>>, ops |-> <<>>, brackets |-> 0]
List(make) == [kind |-> "list", make |-> make, items |-> <<>>, comma |-> FALSE]
Index(make) == [kind |-> "index", make |-> make, items |-> <<>>]

Init ==
    /\ source \in Sources
    /\ tokens = Written(source)
    /\ pos = 1
    /\ stack = <<Statement("function")>>
    /\ status = "parsing"
    /\ result = Null

Top == Last(stack)
Below == Front(stack)
(* nextToken reads behind the last token when there are no more; no action here does. *)
More == pos \in DOMAIN tokens
Parsing(kind) == status = "parsing" /\ Top.kind = kind
Is(p, kind) == p \in DOMAIN tokens /\ tokens[p].k = kind
IsOp(p, op) == Is(p, "op") /\ tokens[p].v = op

Become(top) == stack' = Append(Below, top)
Begin(frame) == stack' = Append(stack, frame)
Item == Forms[Top.form][Top.at]
AtItem(item) == Parsing("statement") /\ Top.at <= Len(Forms[Top.form]) /\ Item = item
Took(part) == [Top EXCEPT !.parts = Append(@, part), !.at = @ + 1]

(* What a caller does with the value that it called for. *)
Received(caller, e) ==
    CASE caller.kind = "statement" -> [caller EXCEPT !.parts = Append(@, e), !.at = @ + 1]
      [] caller.kind = "expression" -> [caller EXCEPT !.queue = Append(@, e)]
      [] caller.kind = "list" -> [caller EXCEPT !.items = Append(@, e), !.comma = TRUE]
      [] caller.kind = "index" -> [caller EXCEPT !.items = <<e>>]
      [] caller.kind = "block" -> [caller EXCEPT !.code = Append(@, e)]

(* The caller is the last of frames. *)
Returned(frames, e) == Append(Front(frames), Received(Last(frames), e))

(***************************************************************************)
(* NULL or false goes up through every activation, except that nobody asks *)
(* for it behind return and where a function is a value.                   *)
(***************************************************************************)
Swallowers ==
    {k \in 2 .. Len(stack) :
       /\ stack[k].kind = "statement"
       /\ \/ stack[k].form = "return" /\ stack[k].at = 1 /\ k < Len(stack)
          \/ stack[k].form = "function"}

Swallow ==
    /\ Swallowers # {}
    /\ LET k == CHOOSE k \in Swallowers : \A j \in Swallowers : j <= k
       IN  stack' = IF stack[k].form = "return" THEN Returned(SubSeq(stack, 1, k), Null)
                    ELSE Returned(SubSeq(stack, 1, k - 1), [type |-> "function", args |-> <<>>, body |-> Null])
    /\ UNCHANGED status

Fail ==
    \/ Swallow
    \/ Swallowers = {} /\ status' = "failed" /\ UNCHANGED stack

-----------------------------------------------------------------------------
(***************************************************************************)
(* Statements                                                              *)
(***************************************************************************)
Keywords == {"var", "if", "for", "while", "return", "try", "throw"}

(* parseCodeBlock ends with the tokens, or at its brace. *)
BlockEnd ==
    /\ Parsing("block")
    /\ ~Top.single
    /\ More => Is(pos, "}")
    /\ pos' = IF More THEN pos + 1 ELSE pos
    /\ stack' = Returned(Below, [vars |-> Top.vars, code |-> Top.code])
    /\ UNCHANGED <<source, tokens, status, result>>

BeginStatement ==
    /\ Parsing("block")
    /\ ~Top.single \/ Top.code = <<>>
    /\ More /\ ~Is(pos, "}")
    /\ IF tokens[pos].k \in Keywords
         THEN Begin(Statement(tokens[pos].k)) /\ pos' = pos + 1
         ELSE Begin(Statement("expression")) /\ UNCHANGED pos
    /\ UNCHANGED <<source, tokens, status, result>>

(* EXPECT *)
Expect ==
    /\ Parsing("statement")
    /\ Top.at <= Len(Forms[Top.form])
    /\ Item \in {"(", ")", "{", ";", "catch"}
    /\ More
    /\ pos' = pos + 1
    /\ IF Is(pos, Item) THEN Become([Top EXCEPT !.at = @ + 1]) /\ UNCHANGED status ELSE Fail
    /\ UNCHANGED <<source, tokens, result>>

BeginExpression ==
    /\ AtItem("EXPR")
    /\ Begin(Expression("any"))
    /\ UNCHANGED <<source, tokens, pos, status, result>>

BeginBlock ==
    /\ AtItem("BLOCK")
    /\ Begin(CodeBlock(FALSE))
    /\ UNCHANGED <<source, tokens, pos, status, result>>

(* parseList of the parameters, up to the first token that is none of them: a
   comma may be the last. *)
Params ==
    /\ AtItem("PARAMS")
    /\ LET wanted(p) == IF p = pos THEN "(" ELSE IF (p - pos) % 2 = 1 THEN "id" ELSE ","
           others == {p \in pos .. Len(tokens) : ~Is(p, wanted(p))}
           close == CHOOSE p \in others : \A q \in others : p <= q
       IN  /\ others # {}
           /\ IF close > pos /\ Is(close, ")")
                THEN /\ Become(Took([j \in 1 .. (close - pos) \div 2 |-> tokens[pos + 2 * j - 1].v]))
                     /\ pos' = IF Is(close + 1, "static") THEN close + 2 ELSE close + 1
                     /\ UNCHANGED status
                ELSE Fail /\ pos' = close + 1
    /\ UNCHANGED <<source, tokens, result>>

(* var x; and var x = e, which is read again from x on as an expression. *)
Declare ==
    /\ AtItem("DECLARE")
    /\ More
    /\ IF Is(pos, "id")
         THEN LET block == [Last(Below) EXCEPT !.vars = Append(@, tokens[pos].v)]
                  set == IsOp(pos + 1, "SET")
              IN  /\ stack' = Front(Below) \o <<block, [Top EXCEPT !.at = IF set THEN 2 ELSE 3]>>
                  /\ pos' = IF set THEN pos ELSE pos + 1
                  /\ UNCHANGED status
         ELSE Fail /\ pos' = pos + 1
    /\ UNCHANGED <<source, tokens, result>>

ReturnValue ==
    /\ AtItem("VALUE")
    /\ More
    /\ IF Is(pos, ";") THEN Become(Took(Null)) ELSE Begin(Expression("any"))
    /\ UNCHANGED <<source, tokens, pos, status, result>>

CatchName ==
    /\ AtItem("NAME")
    /\ More
    /\ pos' = pos + 1
    /\ IF Is(pos, "id") THEN Become(Took(tokens[pos].v)) /\ UNCHANGED status ELSE Fail
    /\ UNCHANGED <<source, tokens, result>>

(* else if is a block of one statement. *)
Else ==
    /\ AtItem("ELSE")
    /\ IF ~Is(pos, "else") THEN Become(Took(Null)) /\ UNCHANGED <<pos, status>>
       ELSE IF Is(pos + 1, "if") THEN Begin(CodeBlock(TRUE)) /\ pos' = pos + 1 /\ UNCHANGED status
       ELSE IF Is(pos + 1, "{") THEN Begin(CodeBlock(FALSE)) /\ pos' = pos + 2 /\ UNCHANGED status
       ELSE Fail /\ pos' = pos + 2
    /\ UNCHANGED <<source, tokens, result>>

SingleEnd ==
    /\ Parsing("block")
    /\ Top.single
    /\ Top.code # <<>>
    /\ stack' = Returned(Below, [vars |-> Top.vars, code |-> Top.code])
    /\ UNCHANGED <<source, tokens, pos, status, result>>

Built(form, p) ==
    CASE form = "function" -> [type |-> "function", args |-> p[1], body |-> p[2]]
      [] form = "if" -> [type |-> "if", test |-> p[1], then |-> p[2], else |-> p[3]]
      [] form = "for" -> [type |-> "for", init |-> p[1], test |-> p[2], inc |-> p[3], body |-> p[4]]
      [] form = "while" -> [type |-> "for", init |-> Null, test |-> p[1], inc |-> Null, body |-> p[2]]
      [] form \in {"return", "throw"} -> [type |-> form, value |-> p[1]]
      [] form = "try" -> [type |-> "try", body |-> p[1], var |-> p[2],
                          catch |-> [p[3] EXCEPT !.vars = Append(@, p[2])]]
      [] form \in {"var", "expression"} -> p[1]

Complete ==
    /\ Parsing("statement")
    /\ Top.at > Len(Forms[Top.form])
    /\ IF Len(stack) = 1
         THEN status' = "done" /\ result' = Built(Top.form, Top.parts) /\ UNCHANGED stack
         ELSE /\ stack' = IF Top.parts = <<>> THEN Below ELSE Returned(Below, Built(Top.form, Top.parts))
              /\ UNCHANGED <<status, result>>
    /\ UNCHANGED <<source, tokens, pos>>

-----------------------------------------------------------------------------
(***************************************************************************)
(* parseExpression: one round of its loop.                                 *)
(***************************************************************************)
Ends ==
    \/ Is(pos, ")") /\ Top.brackets = 0
    \/ Is(pos, ";") \/ Is(pos, ",")
    \/ Is(pos, Top.end)

InExpression == Parsing("expression") /\ More /\ ~Ends

Operator(op) == [type |-> "operator", op |-> op]

(* A mistake: an operator of equal precedence stays where it is. *)
GivesWayHigher(ops, op) == ops # <<>> /\ Last(ops) # Bracket /\ Prec(op) < Prec(Last(ops).op)

(* One operator of higher or equal precedence gives way to op. *)
GivesWay(ops, op) == ops # <<>> /\ Last(ops) # Bracket /\ Prec(op) <= Prec(Last(ops).op)

Op ==
    /\ InExpression
    /\ Is(pos, "op")
    /\ LET op == tokens[pos].v
           pops == GivesWay(Top.ops, op)
       IN  Become([Top EXCEPT !.queue = IF pops THEN Append(@, Last(Top.ops)) ELSE @,
                              !.ops = Append(IF pops THEN Front(@) ELSE @, Operator(op))])
    /\ pos' = pos + 1
    /\ UNCHANGED <<source, tokens, status, result>>

Open ==
    /\ InExpression
    /\ Is(pos, "(")
    /\ Become([Top EXCEPT !.brackets = @ + 1, !.ops = Append(@, Bracket)])
    /\ pos' = pos + 1
    /\ UNCHANGED <<source, tokens, status, result>>

(* A mistake: a bracket that is closed still counts. *)
CloseForgets ==
    /\ InExpression
    /\ Is(pos, ")")
    /\ LET k == SelectLastInSeq(Top.ops, LAMBDA o : o = Bracket)
       IN  Become([Top EXCEPT !.queue = @ \o Reverse(SubSeq(Top.ops, k + 1, Len(Top.ops))),
                              !.ops = SubSeq(@, 1, k - 1)])
    /\ pos' = pos + 1
    /\ UNCHANGED <<source, tokens, status, result>>

Close ==
    /\ InExpression
    /\ Is(pos, ")")
    /\ LET k == SelectLastInSeq(Top.ops, LAMBDA o : o = Bracket)
       IN  Become([Top EXCEPT !.brackets = @ - 1,
                              !.queue = @ \o Reverse(SubSeq(Top.ops, k + 1, Len(Top.ops))),
                              !.ops = SubSeq(@, 1, k - 1)])
    /\ pos' = pos + 1
    /\ UNCHANGED <<source, tokens, status, result>>

(* A mistake: a bracket left over is passed over. *)
ExpressionEndOpen ==
    /\ Parsing("expression")
    /\ Ends
    /\ LET trees == Trees(Top.queue \o SelectSeq(Reverse(Top.ops), LAMBDA o : o # Bracket))
       IN  \/ trees = {} /\ Fail
           \/ \E tree \in trees : stack' = Returned(Below, tree.e) /\ UNCHANGED status
    /\ UNCHANGED <<source, tokens, pos, result>>

(* A mistake: an expression that cannot be built is read once more. *)
ExpressionEndAgain ==
    /\ Parsing("expression")
    /\ Ends
    /\ LET trees == Trees(Top.queue \o Reverse(Top.ops))
       IN  \/ trees = {} /\ UNCHANGED <<stack, status>>
           \/ \E tree \in trees : stack' = Returned(Below, tree.e) /\ UNCHANGED status
    /\ UNCHANGED <<source, tokens, pos, result>>

(* The operators left over go to the queue from the top, and the tree is built. *)
ExpressionEnd ==
    /\ Parsing("expression")
    /\ Ends
    /\ LET trees == Trees(Top.queue \o Reverse(Top.ops))
       IN  \/ trees = {} /\ Fail
           \/ \E tree \in trees : stack' = Returned(Below, tree.e) /\ UNCHANGED status
    /\ UNCHANGED <<source, tokens, pos, result>>

-----------------------------------------------------------------------------
(***************************************************************************)
(* parseExpressionValue                                                    *)
(***************************************************************************)
Literals == {"int", "double", "string", "literal"}

(* true and false are literals to the lexer and integers from here on. *)
Constant ==
    /\ InExpression
    /\ tokens[pos].k \in Literals
    /\ LET truth == tokens[pos].k = "literal"
       IN  stack' = Returned(stack, Literal(IF truth THEN "int" ELSE tokens[pos].k,
                                            IF truth THEN IF tokens[pos].v = "true" THEN 1 ELSE 0
                                            ELSE tokens[pos].v))
    /\ pos' = pos + 1
    /\ UNCHANGED <<source, tokens, status, result>>

(* The name of n + 1 identifiers from p on, when there is one. *)
Dotted(p, n) == [j \in 1 .. n + 1 |-> tokens[p + 2 * j - 2].v]
IsDotted(p, n) == \A j \in 1 .. n : IsOp(p + 2 * j - 1, "REFERENCE") /\ Is(p + 2 * j, "id")

(***************************************************************************)
(* An identifier at p followed by a dot may begin the name of a class: an  *)
(* import, or else the shortest name that findClass finds.  The member is  *)
(* then whatever token follows the dot behind it.                          *)
(***************************************************************************)
Qualified(p) ==
    LET plain == [ok |-> TRUE, class |-> <<>>, id |-> tokens[p].v, next |-> p + 1]
        Member(class, dot) ==
          [ok |-> TRUE, class |-> class, id |-> IF dot + 1 \in DOMAIN tokens THEN tokens[dot + 1].v ELSE "",
           next |-> dot + 2]
        lengths == {n \in 1 .. Len(tokens) : IsDotted(p, n) /\ Dotted(p, n) \in ClassNames}
        n == CHOOSE n \in lengths : \A j \in lengths : n <= j
    IN  IF ~IsOp(p + 1, "REFERENCE") THEN plain
        ELSE IF tokens[p].v \in DOMAIN Imports
          THEN IF Imports[tokens[p].v] \in ClassNames THEN Member(Imports[tokens[p].v], p + 1)
               ELSE [plain EXCEPT !.ok = FALSE]
        ELSE IF lengths # {} THEN Member(Dotted(p, n), p + 2 * n + 1)
        ELSE plain

Name ==
    /\ InExpression
    /\ Is(pos, "id")
    /\ LET q == Qualified(pos)
       IN  IF ~q.ok THEN Fail /\ pos' = pos + 3
           ELSE /\ UNCHANGED status
                /\ IF Is(q.next, "(")
                     THEN /\ Begin(List([type |-> "call", fn |-> q.id, class |-> q.class]))
                          /\ pos' = q.next + 1
                   ELSE IF Is(q.next, "[")
                     THEN /\ stack' = stack \o <<Index([type |-> "array", var |-> q.id, class |-> q.class]), Expression("]")>>
                          /\ pos' = q.next + 1
                   ELSE /\ stack' = Returned(stack, [type |-> "var", var |-> q.id, class |-> q.class])
                        /\ pos' = q.next
    /\ UNCHANGED <<source, tokens, result>>

(* parseIdentifier takes every dot and identifier there is. *)
New ==
    /\ InExpression
    /\ Is(pos, "new")
    /\ LET lengths == {n \in 0 .. Len(tokens) : IsDotted(pos + 1, n)}
           n == CHOOSE n \in lengths : \A j \in lengths : n >= j
           name == Dotted(pos + 1, n)
           class == IF n = 0 /\ name[1] \in DOMAIN Imports THEN Imports[name[1]] ELSE name
           next == pos + 2 * n + 2
           last == IF ~Is(pos + 1, "id") THEN pos + 1
                   ELSE IF IsOp(next, "REFERENCE") THEN next + 1 ELSE next
       IN  /\ last \in DOMAIN tokens
           /\ pos' = last + 1
           /\ IF Is(pos + 1, "id") /\ Is(next, "(")
                THEN Begin(List([type |-> "new", class |-> class])) /\ UNCHANGED status
                ELSE Fail
    /\ UNCHANGED <<source, tokens, result>>

FunctionValue ==
    /\ InExpression
    /\ Is(pos, "function")
    /\ Begin(Statement("function"))
    /\ pos' = pos + 1
    /\ UNCHANGED <<source, tokens, status, result>>

NoValue ==
    /\ InExpression
    /\ tokens[pos].k \notin Literals \cup {"op", "(", ")", "id", "new", "function"}
    /\ Fail
    /\ pos' = pos + 1
    /\ UNCHANGED <<source, tokens, result>>

WithArgs(make, args) ==
    IF make.type = "new" THEN [type |-> "new", class |-> make.class, args |-> args]
    ELSE [type |-> "call", fn |-> make.fn, class |-> make.class, args |-> args]

(* parseExpressionList: a comma may be the last here, too. *)
ListStep ==
    /\ Parsing("list")
    /\ More
    /\ IF Is(pos, ")")
         THEN /\ stack' = Returned(Below, WithArgs(Top.make, Top.items))
              /\ pos' = pos + 1
              /\ UNCHANGED status
       ELSE IF ~Top.comma THEN Begin(Expression("any")) /\ UNCHANGED <<pos, status>>
       ELSE IF Is(pos, ",") THEN Become([Top EXCEPT !.comma = FALSE]) /\ pos' = pos + 1 /\ UNCHANGED status
       ELSE Fail /\ pos' = pos + 1
    /\ UNCHANGED <<source, tokens, result>>

IndexEnd ==
    /\ Parsing("index")
    /\ More
    /\ pos' = pos + 1
    /\ IF Is(pos, "]")
         THEN /\ stack' = Returned(Below, [type |-> "array", var |-> Top.make.var, class |-> Top.make.class,
                                           index |-> Top.items[1]])
              /\ UNCHANGED status
         ELSE Fail
    /\ UNCHANGED <<source, tokens, result>>

-----------------------------------------------------------------------------
Parse ==
    \/ BlockEnd \/ BeginStatement \/ Expect \/ BeginExpression \/ BeginBlock \/ Params \/ Declare
    \/ ReturnValue \/ CatchName \/ Else \/ SingleEnd \/ Complete
    \/ Op \/ Open \/ Close \/ ExpressionEnd \/ Constant \/ Name \/ New \/ FunctionValue \/ NoValue
    \/ ListStep \/ IndexEnd

Over == status \in {"done", "failed"} /\ UNCHANGED vars

Next == Parse \/ Over

Spec == Init /\ [][Next]_vars /\ WF_vars(Parse)

-----------------------------------------------------------------------------
(***************************************************************************)
(* Type correctness: what an activation is, and which calls which.         *)
(***************************************************************************)
IsStatement(f) ==
    /\ f.kind = "statement"
    /\ f = [kind |-> "statement", form |-> f.form, at |-> f.at, parts |-> f.parts]
    /\ f.form \in DOMAIN Forms
    /\ f.at \in 1 .. Len(Forms[f.form]) + 1
    /\ IsSeq(f.parts)

IsBlock(f) ==
    /\ f.kind = "block"
    /\ f = [kind |-> "block", vars |-> f.vars, code |-> f.code, single |-> f.single]
    /\ IsSeq(f.vars) /\ IsSeq(f.code)
    /\ f.single \in BOOLEAN

BracketsIn(ops) == {i \in 1 .. Len(ops) : ops[i] = Bracket}

(* The brackets that are counted are those among the operators. *)
IsExpression(f) ==
    /\ f.kind = "expression"
    /\ f = [kind |-> "expression", end |-> f.end, queue |-> f.queue, ops |-> f.ops, brackets |-> f.brackets]
    /\ IsSeq(f.queue) /\ IsSeq(f.ops)
    /\ \A i \in 1 .. Len(f.ops) : f.ops[i] = Bracket \/ f.ops[i].type = "operator"
    /\ f.brackets = Cardinality(BracketsIn(f.ops))

IsList(f) ==
    /\ f.kind = "list"
    /\ f = [kind |-> "list", make |-> f.make, items |-> f.items, comma |-> f.comma]
    /\ IsSeq(f.items)
    /\ f.comma \in BOOLEAN

IsIndex(f) ==
    /\ f.kind = "index"
    /\ f = [kind |-> "index", make |-> f.make, items |-> f.items]
    /\ IsSeq(f.items)

IsActivation(f) == IsStatement(f) \/ IsBlock(f) \/ IsExpression(f) \/ IsList(f) \/ IsIndex(f)

(* What is below the first activation. *)
Ground == [kind |-> "ground"]
Under(s, k) == IF k = 1 THEN Ground ELSE s[k - 1]

Waits(f) == f.kind = "statement" /\ f.at <= Len(Forms[f.form])
Asks(f) == Forms[f.form][f.at]

Calls(f, g) ==
    CASE g.kind = "statement" -> f.kind \in (IF g.form = "function" THEN {"ground", "expression"} ELSE {"block"})
      [] g.kind = "block" -> Waits(f) /\ Asks(f) \in (IF g.single THEN {"ELSE"} ELSE {"BLOCK", "ELSE"})
      [] g.kind = "expression" -> f.kind \in {"list", "index"} \/ (Waits(f) /\ Asks(f) \in {"EXPR", "VALUE"})
      [] g.kind \in {"list", "index"} -> f.kind = "expression"

Stacked(s) ==
    /\ IsSeq(s) /\ s # <<>>
    /\ \A k \in 1 .. Len(s) : IsActivation(s[k]) /\ Calls(Under(s, k), s[k])

TypeOK ==
    /\ IsSeq(tokens)
    /\ status \in {"parsing", "done", "failed"}
    /\ pos \in Nat \ {0}
    /\ Stacked(stack)
    /\ status = "done" => Len(stack) = 1 /\ ~Waits(Top)

-----------------------------------------------------------------------------
(***************************************************************************)
(* What Balanced needs.  A function ends no later than its class, so that  *)
(* no brace is open at the end; and what Qualified passes over are names:  *)
(* nobody asks what the token is that follows the dot behind a class.      *)
(***************************************************************************)
ClassesEnd ==
    \A s \in Sources :
      LET written == Written(s)
          Of(kind) == {j \in DOMAIN written : written[j].k = kind}
      IN  Cardinality(Of("{")) <= Cardinality(Of("}"))

MembersNamed ==
    InExpression /\ Is(pos, "id") =>
      \A j \in pos .. Qualified(pos).next - 1 : Is(j, "id") \/ Is(j, "op")

-----------------------------------------------------------------------------
(* A mistake: a nested block is numbered from where its own parent is. *)
ChildStartSame(outer, type) == outer.start

(***************************************************************************)
(* What a block nested in another is numbered from.  setStartingVarId goes *)
(* down m_childBlocks, which the blocks of try and catch are not in: they, *)
(* and all in them, keep the constructor's 0.  The function's own block    *)
(* begins behind "this" and the arguments.                                 *)
(***************************************************************************)
ChildStart(outer, type) ==
    IF type = "try" \/ outer.start = 0 THEN 0 ELSE outer.start + Len(outer.block.vars)

Nested(block, type) ==
    UNION {CASE type = "if" -> {e.then} \cup (IF e.else = Null THEN {} ELSE {e.else})
             [] type = "for" -> {e.body}
             [] type = "try" -> {e.body, e.catch}
           : e \in {f \in Range(block.code) : f.type = type}}

Ids(b) == b.start .. b.start + Len(b.block.vars) - 1

(* The blocks k deep in one another, by statements of these types, each with the
   slots that are taken around it.  A block has a token. *)
Numbered(types) ==
    LET args == Len(result.args)
        Deep[k \in 0 .. Len(tokens)] ==
          IF k = 0 THEN {[block |-> result.body, start |-> args + 1, taken |-> 0 .. args]}
          ELSE UNION {UNION {{[block |-> child, start |-> ChildStart(outer, type),
                               taken |-> outer.taken \cup Ids(outer)]
                              : child \in Nested(outer.block, type)}
                             : type \in types}
                      : outer \in Deep[k - 1]}
    IN  Deep

Apart(types) ==
    status = "done" =>
      \A k \in 0 .. Len(tokens) : \A b \in Numbered(types)[k] : Ids(b) \cap b.taken = {}

(***************************************************************************)
(* No two variables of a function, and of the blocks of if, else, for and  *)
(* while in it, that are alive at once share a slot: the variables of a    *)
(* block (getVarId) are none of those of the blocks around it, of the      *)
(* arguments (getArgId), or "this", which is v0.  Of try and catch see     *)
(* CatchDistinct.                                                          *)
(***************************************************************************)
SlotsDistinct == Apart({"if", "for"})

(***************************************************************************)
(* The same of every block, those of try and catch among them: "v0 is      *)
(* always the "this" pointer", as Executor::run says.  It is not: it is    *)
(* the variable of a catch, too, and whatever the two blocks declare.      *)
(***************************************************************************)
CatchDistinct == Apart({"if", "for", "try"})

(***************************************************************************)
(* What is accepted closes every bracket, square bracket and brace that it *)
(* opens, and none before: a source with a token missing is not taken for  *)
(* another one unless it is one.                                           *)
(***************************************************************************)
Pairs == {<<"(", ")">>, <<"[", "]">>, <<"{", "}">>}

Balanced ==
    LET Count(kind, n) == Cardinality({j \in 1 .. n : tokens[j].k = kind})
    IN  status = "done" =>
          \A pair \in Pairs :
            /\ Count(pair[1], pos - 1) = Count(pair[2], pos - 1)
            /\ \A n \in 1 .. pos - 1 : Count(pair[1], n) >= Count(pair[2], n)

(* The parser comes to an end, whatever it is given. *)
ParserTerminates == <>(status \in {"done", "failed"})
=============================================================================
