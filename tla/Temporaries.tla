----------------------------- MODULE Temporaries -----------------------------
(***************************************************************************)
(* Objects that only a C++ local refers to.  allocateObject may collect,   *)
(* and gcArena looks at the value stack and at the frames on it, not at    *)
(* the locals of the functions that carry out an opcode.  A collection is  *)
(* what Memory says it is: everything that no root reaches is gone.        *)
(*                                                                         *)
(* An opcode is carried out as the steps, on C++ locals, of the functions  *)
(* that it calls; code that neither allocates nor touches an object is     *)
(* left out.                                                               *)
(***************************************************************************)
EXTENDS Integers, Sequences, SequencesExt, FiniteSets

CONSTANTS
    MaxObjects,     \* bound: objects allocated in a run
    MaxStack,       \* bound: operands of the function that runs
    Opcodes         \* those that the script uses

VARIABLES
    allocated,      \* objects are numbered in the order of their allocation
    freed,
    links,          \* <<object, the object one of its values refers to>>
    pinned,         \* setExternalGC
    stack,          \* the value stack: sets of objects, the locals of a frame or one operand
    assembled,      \* the function that is called has been called before
    steps,          \* what is left to do of the opcode
    locals          \* the C++ locals

vars == <<allocated, freed, links, pinned, stack, assembled, steps, locals>>

-----------------------------------------------------------------------------
Alloc(x) == [do |-> "alloc", x |-> x]
Pin(x) == [do |-> "pin", x |-> x]
Pop(x) == [do |-> "pop", x |-> x]
Push(x) == [do |-> "push", x |-> x]
Link(x, y) == [do |-> "link", x |-> x, y |-> y]
Enter(x) == [do |-> "enter", x |-> x]      \* a frame with x for this
Leave == [do |-> "leave"]

(* Assembler::assemble asks newString for the literals and names of a function. *)
Assemble == IF assembled THEN <<>> ELSE <<Alloc("literal"), Pin("literal")>>

(* Runtime::newObject with Array::constructor. *)
NewArray == <<Alloc("obj"), Alloc("arrayData"), Link("obj", "arrayData"), Push("obj")>>

(* Runtime::newObject with a constructor of a script, which makes an object of its own. *)
NewScripted == <<Alloc("obj")>> \o Assemble \o <<Enter("obj"), Alloc("temp"), Link("obj", "temp"), Leave, Push("obj")>>

(* opcodeThrow: createException(context, value). *)
Throw == <<Pop("value"), Alloc("object"), Link("object", "value"), Push("object")>>

(* A native function that throws: createException(context, str). *)
NativeThrow == <<Alloc("strObj"), Alloc("object"), Link("object", "strObj"), Push("object")>>

(* opcodeCall of a function of a script, which returns a new object. *)
Call == <<Pop("objValue")>> \o Assemble \o <<Enter("objValue"), Alloc("result"), Leave, Push("result")>>

Routine(opcode) ==
    CASE opcode = "NEW Array" -> NewArray
      [] opcode = "NEW" -> NewScripted
      [] opcode = "THROW" -> Throw
      [] opcode = "native throw" -> NativeThrow
      [] opcode = "CALL" -> Call

-----------------------------------------------------------------------------
Init ==
    /\ allocated = 1
    /\ freed = {}
    /\ links = {}
    /\ pinned = {}
    /\ stack = <<{1}>>          \* a frame with one object in a variable
    /\ assembled \in BOOLEAN
    /\ steps = <<>>
    /\ locals = <<>>

Objects == 1 .. allocated
Local(x, o) == [n \in DOMAIN locals \cup {x} |-> IF n = x THEN o ELSE locals[n]]

(* gcMarkObject from what is on the stack. *)
Reached ==
    LET From[n \in 0 .. MaxObjects] ==
          IF n = 0 THEN UNION Range(stack) ELSE From[n - 1] \cup {l[2] : l \in {k \in links : k[1] \in From[n - 1]}}
    IN  From[MaxObjects]

Collected == Objects \ (Reached \cup pinned)

(* LOAD_VAR and STORE_VAR of the function that runs. *)
LoadVar ==
    /\ steps = <<>>
    /\ Len(stack) <= MaxStack
    /\ \E o \in stack[1] : stack' = Append(stack, {o})
    /\ UNCHANGED <<allocated, freed, links, pinned, assembled, steps, locals>>

StoreVar ==
    /\ steps = <<>>
    /\ Len(stack) > 1
    /\ stack' = [Front(stack) EXCEPT ![1] = Last(stack)]
    /\ UNCHANGED <<allocated, freed, links, pinned, assembled, steps, locals>>

Begin ==
    /\ steps = <<>>
    /\ Len(stack) <= MaxStack
    /\ \E opcode \in Opcodes :
         /\ opcode \in {"THROW", "CALL"} => Len(stack) > 1
         /\ steps' = Routine(opcode)
         /\ assembled' = (assembled \/ opcode \in {"NEW", "CALL"})
    /\ locals' = <<>>
    /\ UNCHANGED <<allocated, freed, links, pinned, stack>>

Doing(what) == steps # <<>> /\ Head(steps).do = what
X == Head(steps).x

(* allocateObject: with the arena three quarters full it collects first. *)
Allocate ==
    /\ Doing("alloc")
    /\ allocated < MaxObjects
    /\ freed' \in {freed, freed \cup Collected}
    /\ allocated' = allocated + 1
    /\ locals' = Local(X, allocated + 1)
    /\ steps' = Tail(steps)
    /\ UNCHANGED <<links, pinned, stack, assembled>>

Act ==
    /\ steps # <<>>
    /\ \/ Doing("pin") /\ pinned' = pinned \cup {locals[X]} /\ UNCHANGED <<links, stack, locals>>
       \/ Doing("pop") /\ locals' = Local(X, CHOOSE o \in Last(stack) : TRUE) /\ stack' = Front(stack)
            /\ UNCHANGED <<links, pinned>>
       \/ Doing("push") /\ stack' = Append(stack, {locals[X]}) /\ UNCHANGED <<links, pinned, locals>>
       \/ Doing("link") /\ links' = links \cup {<<locals[X], locals[Head(steps).y]>>} /\ UNCHANGED <<pinned, stack, locals>>
       \/ Doing("enter") /\ stack' = Append(stack, {locals[X]}) /\ UNCHANGED <<links, pinned, locals>>
       \/ Doing("leave") /\ stack' = Front(stack) /\ UNCHANGED <<links, pinned, locals>>
    /\ steps' = Tail(steps)
    /\ UNCHANGED <<allocated, freed, assembled>>

Full == Doing("alloc") /\ allocated = MaxObjects /\ UNCHANGED vars

Next == LoadVar \/ StoreVar \/ Begin \/ Allocate \/ Act \/ Full

Spec == Init /\ [][Next]_vars

-----------------------------------------------------------------------------
(***************************************************************************)
(* No step of the interpreter touches an object that was collected: what   *)
(* it still needs is not taken for garbage when an allocation collects.    *)
(***************************************************************************)
UsedIsLive ==
    steps # <<>> /\ Head(steps).do \in {"push", "link", "enter"} =>
      {locals[x] : x \in {X} \cup (IF Doing("link") THEN {Head(steps).y} ELSE {})} \cap freed = {}
=============================================================================
