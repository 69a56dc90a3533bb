------------------------------ MODULE Toolchain ------------------------------
(***************************************************************************)
(* From a function's expression trees to its result: Assembler, Optimiser  *)
(* and Interp in the order of ScriptFunction::execute, which assembles a   *)
(* function when it is first called and then runs it.                      *)
(*                                                                         *)
(* Meaning is the reference: what the statements of the source say, on the *)
(* same values, without code.                                              *)
(***************************************************************************)
EXTENDS Assembler, Optimiser

CONSTANTS
    Sources,    \* function bodies
    Inputs(_)   \* what the arguments and the fields of this hold at the call of a source, by name

VARIABLES
    source,
    frame,      \* the activation, when there is one
    meant       \* history: what the reference says of this call

toolVars == <<vars, source, frame, meant>>

NoFrame == [outcome |-> "none"]

-----------------------------------------------------------------------------
(***************************************************************************)
(* The reference.  An environment holds the variables and fields by name,  *)
(* and in "end" how the function ended: "", "returned" or "trap".          *)
(***************************************************************************)
Fuel == 8   \* no loop of the sources runs more often

Truth(b) == I(IF b THEN 1 ELSE 0)
Opcode == [ADD |-> "ADD", SUB |-> "SUB", MUL |-> "MUL", DIV |-> "DIV"]

Holds(op, l, r) ==
    CASE op = "EQUALS" -> l = r
      [] op = "NOT_EQUAL" -> l # r
      [] op = "LESS_THAN" -> l < r
      [] op = "LESS_THAN_EQUAL" -> l <= r
      [] op = "GREATER_THAN" -> l > r
      [] op = "GREATER_THAN_EQUAL" -> l >= r

RECURSIVE Eval(_, _)
Eval(e, env) ==
    CASE e.type = "int" -> I(e.n)
      [] e.type = "double" -> D(e.n)
      [] e.type = "string" -> O(e.n)
      [] e.type = "var" -> env[e.var]
      [] e.type = "oper" ->
            LET l == IF e.left = Null THEN Unset ELSE Eval(e.left, env)
                r == Eval(e.right, env)
            IN  IF Trap \in {l, r} THEN Trap
                ELSE IF e.op \in DOMAIN Opcode THEN Arithmetic(e.op, l, r)
                ELSE IF e.op = "AND" THEN Truth(l.n # 0 /\ r.n # 0)
                ELSE IF e.op = "NOT" THEN Truth(r.n = 0)
                ELSE Truth(Holds(e.op, l.n, r.n))

Assign(env, name, v) ==
    IF v = Trap THEN [env EXCEPT !["end"] = "trap"] ELSE [env EXCEPT ![name] = v]

RECURSIVE Run(_, _), Loop(_, _, _)
Loop(e, env, fuel) ==
    LET test == Eval(e.test, env)
    IN  IF env["end"] # "" \/ fuel = 0 THEN env
        ELSE IF test = Trap THEN [env EXCEPT !["end"] = "trap"]
        ELSE IF test.n = 0 THEN env
        ELSE Loop(e, Run(e.body \o (IF e.inc = Null THEN <<>> ELSE <<e.inc>>), env), fuel - 1)

Run(stmts, env) ==
    IF stmts = <<>> \/ env["end"] # "" THEN env
    ELSE LET e == Head(stmts)
             after ==
               CASE e.type = "oper" /\ e.op = "SET" -> Assign(env, e.left.var, Eval(e.right, env))
                 [] e.type = "oper" /\ e.op = "INCREMENT" ->
                      Assign(env, e.left.var, Arithmetic("ADD", env[e.left.var], I(1)))
                 [] e.type = "oper" /\ e.op = "DECREMENT" ->
                      Assign(env, e.left.var, Arithmetic("SUB", env[e.left.var], I(1)))
                 [] e.type = "if" ->
                      LET test == Eval(e.test, env)
                      IN  IF test = Trap THEN [env EXCEPT !["end"] = "trap"]
                          ELSE IF test.n # 0 THEN Run(e.then, env)
                          ELSE IF e.else = Null THEN env ELSE Run(e.else.code, env)
                 [] e.type = "for" ->
                      Loop(e, IF e.init = Null THEN env ELSE Run(<<e.init>>, env), Fuel)
                 [] e.type = "return" ->
                      LET v == Eval(e.value, env)
                      IN  [env EXCEPT !["end"] = IF v = Trap THEN "trap" ELSE "returned",
                                      !["result"] = v]
         IN  Run(Tail(stmts), after)

Meaning(stmts, env) ==
    Run(stmts, [name \in DOMAIN Locals \cup DOMAIN Fields \cup {"end", "result"} |->
                  IF name = "end" THEN "" ELSE IF name \in DOMAIN env THEN env[name] ELSE Unset])

-----------------------------------------------------------------------------
(* The value of the variable or field that has number n. *)
Numbered(env, numbers, n) ==
    IF \E name \in DOMAIN env \cap DOMAIN numbers : numbers[name] = n
      THEN env[CHOOSE name \in DOMAIN env \cap DOMAIN numbers : numbers[name] = n]
      ELSE Unset

ToolInit ==
    /\ source \in Sources
    /\ Init
    /\ code = Assembled(source).code
    /\ frame = NoFrame
    /\ meant = <<>>

Assembling == Optimise /\ UNCHANGED <<source, frame, meant>>

(* Executor::run: v0 is this, the arguments follow, the rest is zeroed. *)
Enter ==
    /\ phase = "done"
    /\ frame = NoFrame
    /\ \E env \in Inputs(source) :
         /\ frame' = Entered([v \in 0 .. LocalVars - 1 |-> IF v = 0 THEN O(1) ELSE Numbered(env, Locals, v)],
                             [f \in ToSet(Fields) |-> Numbered(env, Fields, f)])
         /\ meant' = Meaning(source, env)
    /\ UNCHANGED <<vars, source>>

Execute ==
    /\ frame.outcome = "running"
    /\ frame' = Step(code, frame)
    /\ UNCHANGED <<vars, source, meant>>

Over ==
    /\ phase = "trap" \/ frame.outcome \notin {"none", "running"}
    /\ UNCHANGED toolVars

ToolNext == Assembling \/ Enter \/ Execute \/ Over

(* A call that has begun is carried on: assembling and executing are loops of one thread. *)
ToolSpec == ToolInit /\ [][ToolNext]_toolVars /\ WF_toolVars(Assembling) /\ WF_toolVars(Execute)

-----------------------------------------------------------------------------
(***************************************************************************)
(* The code does what the source says: a call returns the value that the   *)
(* statements mean, leaves the fields as they mean, and traps only when    *)
(* they divide by zero.                                                    *)
(***************************************************************************)
MeansTheSame ==
    frame.outcome \notin {"none", "running"} =>
      /\ frame.outcome = IF meant["end"] = "" THEN "returned" ELSE meant["end"]
      /\ meant["end"] = "returned" => frame.result = meant["result"]
      /\ meant["end"] # "trap" => \A name \in DOMAIN Fields : frame.fields[Fields[name]] = meant[name]

(* A call comes back: no jump of the optimised code leads into a loop that the source has not. *)
CallReturns == frame.outcome = "running" ~> frame.outcome # "running"

(* Statements leave nothing on the value stack: a function returns with the stack it began with. *)
StackEmptied == frame.outcome = "returned" => frame.stack = <<>>
=============================================================================
