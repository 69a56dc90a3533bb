------------------------------ MODULE MCMachine ------------------------------
(***************************************************************************)
(* Programs for Machine, as the assembler lays them out.                   *)
(***************************************************************************)
EXTENDS Machine, FiniteSetsExt

data(pops, pushes) == [op |-> "data", pops |-> pops, pushes |-> pushes, fails |-> FALSE]
push == data(0, 1)
pop == data(1, 0)
(* Loads and arithmetic that give up on operands of the wrong type. *)
risky(pops, pushes) == [data(pops, pushes) EXCEPT !.fails = TRUE]
branch(to) == [op |-> "branch", to |-> to]
jump(to) == [op |-> "jump", to |-> to]
try(to) == [op |-> "try", to |-> to]
endtry == [op |-> "endtry"]
throw == [op |-> "throw"]
loadarray == [op |-> "loadarray"]
storearray == [op |-> "storearray"]
static(f, n) == [op |-> "call", fn |-> f, argc |-> n, pops |-> 0]
method(f, n) == [op |-> "call", fn |-> f, argc |-> n, pops |-> 1]
named(f, n) == [op |-> "call", fn |-> f, argc |-> n, pops |-> 2]
new(c, n) == [op |-> "new", class |-> c, argc |-> n]
return == [op |-> "return"]

plus == risky(2, 1)
(* e.message, and a call of File.out's writeln or of e's printStackTrace. *)
message == <<push, push, plus>>
writeln == <<push, push, named("writeln", 1), pop>>
printStackTrace == <<push, push, named("printStackTrace", 0), pop>>
(* writeln("..." + e.message): the right operand first. *)
Report == message \o <<push, plus>> \o writeln
(* The end of every function. *)
End == <<push, return>>

(* try { body } catch (e) { handler }, behind the first n instructions. *)
TryCatch(n, body, handler) ==
    LET catch == n + Len(body) + 4
    IN  <<try(catch)>> \o body \o <<endtry, jump(catch + Len(handler))>> \o handler

(***************************************************************************)
(* tests/b0rk/tests/Exceptions.bs                                          *)
(***************************************************************************)
SimpleException == TryCatch(0, <<push, throw>>, Report) \o End

ExceptionReturn ==
    TryCatch(0, <<push, throw>>, Report \o <<push, return>>) \o <<push>> \o writeln \o End

(* "..." + arg + "..." + e1.message + "..." + var0 *)
Reported == <<push, push>> \o message \o <<push, push, push, plus, plus, plus, plus, plus>> \o writeln

FunctionException ==
    <<push, pop>>
        \o TryCatch(2, <<static("throwsFunc", 0), pop, push>> \o writeln, Reported \o printStackTrace)
        \o <<push>> \o writeln \o End

ThrowsFunc == <<push>> \o writeln \o <<push, throw>> \o End

(* functionException is not static: it is called on main's "this". *)
TestMain ==
    <<static("simpleException", 0), pop, static("exceptionReturn", 0), pop,
      push, push, method("functionException", 1), pop>> \o End

(***************************************************************************)
(* What the tests leave out: a throw inside a catch block, an exception    *)
(* that crosses frames, arrays, constructor chains, recursion.             *)
(***************************************************************************)
(* try { try { throw 1; } catch (e) { throw 2; } } catch (f) { } *)
Rethrow ==
    <<try(11), try(7), push, throw, endtry, jump(9), push, throw, endtry, jump(11)>>
        \o End

(* try { this.first(a, i); parse(); } catch (e) { fill(a); } *)
Crossing ==
    TryCatch(0, <<push, push, push, method("first", 2), pop, static("parse", 0), pop>>,
             <<push, static("fill", 1), pop>>) \o End

(* return a[i]; *)
First == <<push, push, loadarray, return>> \o End

(* try { a[0] = 1; } catch (e) { a[1] = 1; } *)
Fill ==
    LET store == <<push, push, push, storearray>> IN TryCatch(0, store, store) \o End

(* var p = new Derived(1); var q = new Plain(); q = new Inheriting(); p.f("x"); *)
Make ==
    <<push, new("Derived", 1), pop, new("Plain", 0), pop, new("Inheriting", 0), pop,
      push, push, push, named("throwless", 1), pop>> \o End

(* try { if (..) mixed(); if (..) parse(); } catch (e) { if (..) throw 1; }
   if (..) 1 + mixed(); if (..) new Derived(1);
   Any of it may throw through any number of frames. *)
Mixed ==
    <<try(10), branch(5), static("mixed", 0), pop, branch(8), static("parse", 0), pop,
      endtry, jump(13), branch(13), push, throw,
      branch(18), push, static("mixed", 0), risky(2, 1), pop,
      branch(22), push, new("Derived", 1), pop>> \o End

All ==
    <<static("main", 0), pop, static("rethrow", 0), pop>>
        \o TryCatch(4, <<static("crossing", 0), pop>>, <<>>)
        \o <<static("make", 0), pop, push, push, data(2, 0), branch(21),
             try(21), static("mixed", 0), pop, endtry, jump(21),
             branch(24), static("broken", 0), pop>> \o End

Programs ==
    [main |-> TestMain, simpleException |-> SimpleException,
     exceptionReturn |-> ExceptionReturn, functionException |-> FunctionException,
     throwsFunc |-> ThrowsFunc, rethrow |-> Rethrow, crossing |-> Crossing,
     first |-> First, fill |-> Fill, make |-> Make, mixed |-> Mixed, all |-> All,
     throwless |-> End, Base |-> <<push, pop>> \o End,
     Derived |-> <<push, push, risky(2, 1), pop>> \o End,
     broken |-> <<>>]

(***************************************************************************)
(* Functions that the assembler makes and a verifier would refuse.         *)
(***************************************************************************)
Unverified ==
    [ \* GCStress.bs, GCTest: field1 = new String("Hello"); new String("World");
     statement |-> <<push, new("String", 1), push, data(2, 0), push, new("String", 1)>> \o End,
      \* var p = new Inheriting(1);
     inherited |-> <<push, new("Inheriting", 1), pop>> \o End,
      \* try { x = throwsFunc() + 1; } catch (e) { }
     operand |-> TryCatch(0, <<push, static("throwsFunc", 0), plus, pop>>, <<>>) \o End,
      \* try { p = new Throwing(); } catch (e) { }
     constructor |-> TryCatch(0, <<new("Throwing", 0), pop>>, <<>>) \o End,
     Throwing |-> <<push, throw>> \o End, throwsFunc |-> ThrowsFunc, Base |-> <<push, pop>> \o End]

MCNative ==
    [writeln |-> {"ok", "fail"}, printStackTrace |-> {"ok"}, parse |-> {"ok", "throw"},
     String |-> {"ok"}]

MCCtors ==
    [Derived |-> <<"Base", "Derived">>, Plain |-> <<>>, Inheriting |-> <<"Base">>, String |-> <<"String">>]
MCOwnCtor == {"Derived", "String"}

UnverifiedCtors ==
    [Inheriting |-> <<"Base">>, Throwing |-> <<"Throwing">>, String |-> <<"String">>]
UnverifiedOwnCtor == {"Throwing", "String"}

MCThrows == {"throwsFunc", "first", "fill", "crossing", "parse", "mixed"}

(***************************************************************************)
(* The stack map, read off the code in one pass: an instruction continues  *)
(* the first one before it that leads to it.                               *)
(***************************************************************************)
Effect(i) ==
    CASE i.op = "data" -> i.pushes - i.pops
      [] i.op \in {"throw", "loadarray", "return"} -> -1
      [] i.op = "storearray" -> -3
      [] i.op = "call" -> 1 - i.pops - i.argc
      [] i.op = "new" -> 1 - i.argc
      [] OTHER -> 0

StackMapOf(c) ==
    LET jumpsTo(q, pc) == c[q].op \in {"branch", "jump", "try"} /\ c[q].to = pc
        falls(q) == c[q].op \notin {"jump", "throw", "return"}
        source(pc) ==
            LET from == {q \in 1 .. pc - 1 : jumpsTo(q, pc) \/ (q = pc - 1 /\ falls(q))}
            IN  IF from = {} THEN pc - 1 ELSE Min(from)
        after(entry, q, pc) ==
            [depth |-> entry.depth + Effect(c[q]),
             nest |-> CASE c[q].op = "try" /\ c[q].to # pc -> Append(entry.nest, c[q].to)
                        [] c[q].op = "endtry" -> Front(entry.nest)
                        [] OTHER -> entry.nest]
        extend(map, i) ==
            LET pc == Len(map) + 1
            IN  Append(map, IF pc = 1 THEN [depth |-> 0, nest |-> <<>>]
                            ELSE after(map[source(pc)], source(pc), pc))
    IN  FoldLeft(extend, <<>>, c)

MCStackMap == [f \in Scripts |-> StackMapOf(Code[f])]
=============================================================================
