------------------------------- MODULE Machine -------------------------------
(***************************************************************************)
(* The virtual machine: Executor::run and its opcodes (executor.cpp), the  *)
(* value stack of a Context (context.h), function calls (function.cpp,     *)
(* scriptfunction.cpp) and constructor chains (Runtime::callConstructor).  *)
(*                                                                         *)
(* Two stacks have to agree.  The value stack holds operands and, for each *)
(* script function being executed, a VALUE_FRAME marker.  The C stack,     *)
(* control, holds the activations of Executor::run and of newObject.  A    *)
(* value is 0 here; the marker of the activation control[i] is i.          *)
(*                                                                         *)
(* An instruction is what it does to the stacks: "data" stands for every   *)
(* straight-line opcode (loads, stores, pushes, arithmetic, compares).     *)
(***************************************************************************)
EXTENDS Integers, Sequences, SequencesExt

CONSTANTS
    Code,       \* for each script function its instructions; <<>>: does not assemble
    Main,       \* the function main.cpp executes
    Native,     \* for each native function how its calls may end
    Ctors,      \* for each class the constructors of its chain, superclass first
    OwnCtor,    \* the classes with a constructor of their own, the last of those
    StackSize,  \* Context::m_stackSize
    StackMap,   \* what the compiler had in mind: for each instruction the
                \* operands below it and the handlers of the try blocks around it
    Throws      \* the functions that may end in an exception

Value == 0
Margin == 4     \* B0RK_STACK_MARGIN
Outcomes == {"ok", "throw", "fail"}
Scripts == DOMAIN Code
Callees == Scripts \cup DOMAIN Native

(* No straight-line opcode pushes more than two values (DUP and SWAP push two). *)
Instructions ==
    [op : {"data"}, pops : Nat, pushes : 0 .. 2, fails : BOOLEAN]
        \cup [op : {"branch", "jump", "try"}, to : Nat]
        \cup [op : {"endtry", "throw", "loadarray", "storearray", "return"}]
        \cup [op : {"call"}, fn : Callees, argc : Nat, pops : Nat]
        \cup [op : {"new"}, class : DOMAIN Ctors, argc : Nat]

ASSUME MachineAssumption ==
    /\ Main \in Callees
    /\ \A f \in DOMAIN Native : Native[f] \subseteq Outcomes /\ f \notin Scripts
    /\ StackSize \in Nat /\ StackSize > Margin
    /\ \A f \in Scripts : Code[f] \in Seq(Instructions)
    /\ \A c \in DOMAIN Ctors : Ctors[c] \in Seq(Callees)
    /\ OwnCtor \subseteq {c \in DOMAIN Ctors : Ctors[c] # <<>>}
    /\ \A f \in Scripts :
          StackMap[f] \in [DOMAIN Code[f] -> [depth : Nat, nest : Seq(Nat)]]

VARIABLES
    stack,      \* m_stack, above the margin it starts with
    control,    \* activations of Executor::run and Runtime::newObject
    ret,        \* what the call that just ended returned
    exception,  \* m_exception
    status      \* how far Function::execute, called by main.cpp, is

vars == <<stack, control, ret, exception, status>>

Drop(s, n) == SubSeq(s, 1, Len(s) - n)
top == Last(control)
Running == status = "running" /\ control # <<>> /\ top.kind = "run"
Building == status = "running" /\ control # <<>> /\ top.kind = "new"

Frame(f) == [kind |-> "run", fn |-> f, pc |-> 1, handlers |-> <<>>]

Instr(op) ==
    /\ Running
    /\ ret = "none"
    /\ Code[top.fn][top.pc].op = op
instr == Code[top.fn][top.pc]
next == [top EXCEPT !.pc = @ + 1]

CheckStackNever(s) == TRUE  \* a mistake: the bound is not checked

CheckStack(s) == Margin + Len(s) < StackSize

(* Values are popped that nobody pushed. *)
Corrupt == status' = "corrupt" /\ UNCHANGED <<stack, control, ret, exception>>

-----------------------------------------------------------------------------
(***************************************************************************)
(* The end of an opcode: the tail of the loop of run, and handleException. *)
(***************************************************************************)
(* run returns r. *)
Leave(s, r) ==
    /\ stack' = s
    /\ control' = Front(control)
    /\ ret' = r

Continue(s, a) ==
    /\ stack' = s
    /\ control' = Append(Front(control), a)
    /\ ret' = "none"

UnwoundToFrame(s) ==  \* a mistake: the marker itself stays on the stack
    SubSeq(s, 1, CHOOSE i \in DOMAIN s : s[i] # Value /\ \A j \in i + 1 .. Len(s) : s[j] = Value)

UnwoundToOutermost(s) ==  \* a mistake: the search starts at the wrong end
    SubSeq(s, 1, (CHOOSE i \in DOMAIN s : s[i] # Value /\ \A j \in 1 .. i - 1 : s[j] = Value) - 1)

(* Everything down to the topmost frame marker is popped, the marker too. *)
Unwound(s) ==
    SubSeq(s, 1, (CHOOSE i \in DOMAIN s : s[i] # Value /\ \A j \in i + 1 .. Len(s) : s[j] = Value) - 1)

CaughtKept(a) == [a EXCEPT !.pc = Last(a.handlers)]  \* a mistake: no handlerStack.pop_back()

Caught(a) == [a EXCEPT !.pc = Last(a.handlers), !.handlers = Front(@)]

(* The opcode succeeded or not (ok), an exception is pending or not (e). *)
EndOpcode(ok, e, s, a) ==
    CASE ~e /\ ok -> Continue(s, a) /\ UNCHANGED <<exception, status>>
      [] ~e /\ ~ok -> Leave(s, "fail") /\ UNCHANGED <<exception, status>>
      [] e /\ a.handlers # <<>> ->
            /\ IF ok THEN Continue(s, Caught(a)) ELSE Leave(s, "ok")
            /\ exception' = FALSE
            /\ UNCHANGED status
      [] e /\ a.handlers = <<>> ->
            IF ToSet(s) \subseteq {Value}
              THEN Corrupt
              ELSE Leave(Unwound(s), "ok") /\ exception' = TRUE /\ UNCHANGED status

(***************************************************************************)
(* Function::execute(context, instance, argCount), s being the value stack *)
(* and c the activations at the call.                                      *)
(***************************************************************************)
NativePushesAlways(s, ok, e) == IF ok THEN Append(s, Value) ELSE s  \* a mistake: no hasException() test

(* It returned true (ok); an exception is pending (e), be it its own or an older one. *)
NativePushes(s, ok, e) == IF ok /\ ~e THEN Append(s, Value) ELSE s

Execute(f, argCount, s, c) ==
    IF Len(s) < argCount THEN Corrupt
    ELSE
      /\ UNCHANGED status
      /\ IF f \in DOMAIN Native THEN
           \E out \in Native[f] :
              /\ exception' = (exception \/ out = "throw")
              /\ stack' = NativePushes(Drop(s, argCount), out # "fail", exception \/ out = "throw")
              /\ control' = c
              /\ ret' = IF out = "fail" THEN "fail" ELSE "ok"
         ELSE IF Code[f] = <<>> THEN
              /\ stack' = s
              /\ control' = c
              /\ ret' = "fail"
              /\ UNCHANGED exception
         ELSE /\ stack' = Append(Drop(s, argCount), Len(c) + 1)
              /\ control' = Append(c, Frame(f))
              /\ ret' = "none"
              /\ UNCHANGED exception

(* main.cpp passes one argument, whatever main's parameters are. *)
Init ==
    /\ stack = <<Value>>
    /\ control = <<>>
    /\ ret = "none"
    /\ exception = FALSE
    /\ status = "running"

StartDeclared ==  \* a mistake: main's own count of parameters, none
    /\ status = "running"
    /\ control = <<>>
    /\ ret = "none"
    /\ Execute(Main, 0, stack, control)

Start ==
    /\ status = "running"
    /\ control = <<>>
    /\ ret = "none"
    /\ Execute(Main, 1, stack, control)

-----------------------------------------------------------------------------
(***************************************************************************)
(* The opcodes                                                             *)
(***************************************************************************)
StackFull ==
    /\ Running
    /\ ret = "none"
    /\ ~CheckStack(stack)
    /\ Leave(stack, "fail")
    /\ UNCHANGED <<exception, status>>

Fetch(op) == Instr(op) /\ CheckStack(stack)

Data ==
    /\ Fetch("data")
    /\ IF Len(stack) < instr.pops THEN Corrupt
       ELSE LET popped == Drop(stack, instr.pops)
                pushed == popped \o [i \in 1 .. instr.pushes |-> Value]
            IN  \E ok \in {TRUE} \cup {~instr.fails} :
                   EndOpcode(ok, exception, IF ok THEN pushed ELSE popped, next)

(* BEQ and its kin test flags that depend on data. *)
Branch ==
    /\ Fetch("branch")
    /\ \E pc \in {instr.to, next.pc} :
          EndOpcode(TRUE, exception, stack, [top EXCEPT !.pc = pc])

Jump ==
    /\ Fetch("jump")
    /\ EndOpcode(TRUE, exception, stack, [top EXCEPT !.pc = instr.to])

PushTry ==
    /\ Fetch("try")
    /\ EndOpcode(TRUE, exception, stack, [next EXCEPT !.handlers = Append(@, instr.to)])

PopTry ==
    /\ Fetch("endtry")
    /\ EndOpcode(TRUE, exception, stack, [next EXCEPT !.handlers = Front(@)])

Throw ==
    /\ Fetch("throw")
    /\ IF stack = <<>> THEN Corrupt
       ELSE EndOpcode(TRUE, TRUE, Drop(stack, 1), next)

(* An index out of bounds throws, and a value is pushed all the same. *)
LoadArray ==
    /\ Fetch("loadarray")
    /\ IF Len(stack) < 2 THEN Corrupt
       ELSE \E out \in Outcomes :
              LET popped == Drop(stack, 2) IN
              EndOpcode(out # "fail", exception \/ out = "throw",
                        IF out = "fail" THEN popped ELSE Append(popped, Value), next)

(* The same of a store, which pushes nothing. *)
StoreArray ==
    /\ Fetch("storearray")
    /\ IF Len(stack) < 3 THEN Corrupt
       ELSE \E out \in Outcomes :
              EndOpcode(out # "fail", exception \/ out = "throw", Drop(stack, 3), next)

OperandsKept(i) == 0  \* a mistake: the instance stays on the stack

(* What the opcode itself pops: an instance, a name, a function object. *)
Operands(i) == i.pops

Call ==
    /\ Fetch("call")
    /\ IF Len(stack) < Operands(instr) THEN Corrupt
       ELSE Execute(instr.fn, instr.argc, Drop(stack, Operands(instr)),
                    Append(Front(control), next))

Returned ==
    /\ Running
    /\ ret # "none"
    /\ EndOpcode(ret = "ok", exception, stack, top)

EndRunRunning ==  \* a mistake: no frame->running = false
    /\ Continue(Append(Drop(stack, 2), Value), next)

EndRun == Leave(Append(Drop(stack, 2), Value), "ok")

OwnFrameBelowResult == Len(stack) > 1 /\ stack[Len(stack) - 1] = Len(control)

Return ==
    /\ Fetch("return")
    /\ IF OwnFrameBelowResult THEN EndRun /\ UNCHANGED <<exception, status>>
       ELSE IF Len(stack) < 2 THEN Corrupt
       ELSE EndOpcode(FALSE, exception, Drop(stack, 2), next)

(***************************************************************************)
(* OPCODE_NEW: newObject and callConstructor.  Every constructor of the    *)
(* chain runs, the class's own one with the arguments, which stay on the   *)
(* stack when it has none; whatever a constructor returned is popped, also *)
(* when it threw and returned nothing.                                     *)
(***************************************************************************)
New ==
    /\ Fetch("new")
    /\ LET chain == Ctors[instr.class]
           args(i) == IF i = Len(chain) /\ instr.class \in OwnCtor THEN instr.argc ELSE 0
       IN  control' = Append(Append(Front(control), next),
                             [kind |-> "new",
                              todo |-> [i \in DOMAIN chain |->
                                          [fn |-> chain[i], argc |-> args(i)]]])
    /\ UNCHANGED <<stack, ret, exception, status>>

Construct ==
    /\ Building
    /\ ret = "none"
    /\ top.todo # <<>>
    /\ Execute(Head(top.todo).fn, Head(top.todo).argc, stack,
               Append(Front(control), [top EXCEPT !.todo = Tail(@)]))

Constructed ==
    /\ Building
    /\ ret # "none"
    /\ CASE ret = "fail" -> Leave(stack, "fail") /\ UNCHANGED <<exception, status>>
         [] ret = "ok" /\ stack = <<>> -> Corrupt
         [] OTHER -> Continue(Drop(stack, 1), top) /\ UNCHANGED <<exception, status>>

PushNew ==
    /\ Building
    /\ ret = "none"
    /\ top.todo = <<>>
    /\ Leave(Append(stack, Value), "ok")
    /\ UNCHANGED <<exception, status>>

(* Function::execute with argv: the result, or a report on stderr. *)
Finish ==
    /\ status = "running"
    /\ control = <<>>
    /\ ret # "none"
    /\ status' = CASE ret = "fail" -> "failed"
                   [] ret = "ok" /\ exception -> "uncaught"
                   [] OTHER -> "done"
    /\ stack' = IF status' = "done" THEN Drop(stack, 1) ELSE stack
    /\ UNCHANGED <<control, ret, exception>>

Opcode == Data \/ Branch \/ Jump \/ PushTry \/ PopTry \/ Throw \/ LoadArray
              \/ StoreArray \/ Call \/ Return \/ New
Answer == Returned \/ Construct \/ Constructed \/ PushNew

Ended == status \in {"done", "failed", "uncaught", "corrupt"} /\ UNCHANGED vars

Next == Start \/ StackFull \/ Opcode \/ Answer \/ Finish \/ Ended

Spec == Init /\ [][Next]_vars

(* The interpreter never waits. *)
FairSpec == Spec /\ WF_vars(Next)

-----------------------------------------------------------------------------
(***************************************************************************)
(* What the compiler promises.  Verified is the discipline of a bytecode   *)
(* verifier: every path to an instruction brings as many operands as its   *)
(* stack map says, a return finds its result and nothing else, what throws *)
(* inside a try block leaves the height its handler expects, and only a    *)
(* class with a constructor of its own, which throws nothing, is made with *)
(* arguments.                                                              *)
(***************************************************************************)
At(f, pc, depth, nest) ==
    pc \in DOMAIN Code[f] /\ StackMap[f][pc] = [depth |-> depth, nest |-> nest]

Catches(f, depth, nest) ==
    IF nest = <<>> THEN f \in Throws
    ELSE At(f, Last(nest), depth, Front(nest))

VerifiedAt(f, pc) ==
    LET i == Code[f][pc]
        d == StackMap[f][pc].depth
        n == StackMap[f][pc].nest
        Then(depth) == At(f, pc + 1, depth, n)
    IN  CASE i.op = "data" -> d >= i.pops /\ Then(d - i.pops + i.pushes)
          [] i.op = "branch" -> At(f, i.to, d, n) /\ Then(d)
          [] i.op = "jump" -> At(f, i.to, d, n)
          [] i.op = "try" -> At(f, pc + 1, d, Append(n, i.to))
          [] i.op = "endtry" -> n # <<>> /\ At(f, pc + 1, d, Front(n))
          [] i.op = "throw" -> d >= 1 /\ Catches(f, d - 1, n)
          [] i.op = "loadarray" -> d >= 2 /\ Then(d - 1) /\ Catches(f, d - 1, n)
          [] i.op = "storearray" -> d >= 3 /\ Then(d - 3) /\ Catches(f, d - 3, n)
          [] i.op = "call" ->
                LET rest == d - i.pops - i.argc
                IN  /\ rest >= 0 /\ Then(rest + 1)
                    /\ i.fn \in Throws => Catches(f, rest, n)
          [] i.op = "new" ->
                /\ d >= i.argc /\ Then(d - i.argc + 1)
                /\ ToSet(Ctors[i.class]) \cap Throws = {}
                /\ i.class \notin OwnCtor => i.argc = 0
          [] i.op = "return" -> d = 1

Verified ==
    /\ \A f \in Scripts :
          /\ Code[f] # <<>> => At(f, 1, 0, <<>>)
          /\ \A pc \in DOMAIN Code[f] : VerifiedAt(f, pc)
    /\ \A f \in DOMAIN Native : "throw" \in Native[f] => f \in Throws

(***************************************************************************)
(* Properties                                                              *)
(***************************************************************************)
Activations ==
    [kind : {"run"}, fn : Scripts, pc : Nat, handlers : Seq(Nat)]
        \cup [kind : {"new"}, todo : Seq([fn : Callees, argc : Nat])]

TypeOK ==
    /\ stack \in Seq(Nat)
    /\ control \in Seq(Activations)
    /\ \A i \in DOMAIN control :
          control[i].kind = "run" => control[i].pc \in DOMAIN Code[control[i].fn]
    /\ ret \in {"none", "ok", "fail"}
    /\ exception \in BOOLEAN
    /\ status \in {"running", "done", "failed", "uncaught", "corrupt"}

Runs == {i \in DOMAIN control : control[i].kind = "run"}

(* Until something fails the value stack carries exactly one marker for every
   script function being executed, in the order of the calls, whatever was
   thrown, caught or constructed on the way: the garbage collector, the stack
   trace and RETURN all walk these markers. *)
FramesMatch ==
    status = "running" /\ ret # "fail" =>
        LET markers == {p \in DOMAIN stack : stack[p] # Value}
        IN  /\ {stack[p] : p \in markers} = Runs
            /\ \A p, q \in markers : p < q => stack[p] < stack[q]

(* Whichever path led to an instruction, normal or through a handler, it finds
   above its function's marker as many operands as the compiler left there. *)
OperandsAsCompiled ==
    Running /\ ret = "none" =>
        \E p \in DOMAIN stack :
            /\ stack[p] = Len(control)
            /\ Len(stack) - p = StackMap[top.fn][top.pc].depth

(* The handlers of every activation are those of the try blocks its next
   instruction is in: an exception is never sent to a try block that was left. *)
HandlersAsCompiled ==
    \A i \in Runs : control[i].handlers = StackMap[control[i].fn][control[i].pc].nest

(* Context::push does not check: the test before each opcode has to keep the
   stack inside the array, which has a margin on both ends. *)
StackInBounds == Margin + Len(stack) <= StackSize + 2 * Margin

(* Nothing is ever popped that was not pushed: not by an opcode, not by a call
   that takes its arguments, not by handleException looking for a frame and not
   by callConstructor dropping a result. *)
NeverCorrupt == status # "corrupt"

(* When main returns, and when an exception leaves it uncaught, every marker,
   operand and argument of every call on the way has been taken off the value
   stack again: the context can execute another function. *)
CleanEnd == status \in {"done", "uncaught"} => stack = <<>>

(* RETURN pops the result and finds its own frame below it, as run's comment
   on consistency and the assembler's on expressions say. *)
ReturnFindsFrame == Instr("return") => OwnFrameBelowResult

(* A program without loops ends, however deep it recurses and whatever its
   handlers throw: no handler is entered twice for one PUSHTRY. *)
Terminates == <>(status # "running")
=============================================================================
