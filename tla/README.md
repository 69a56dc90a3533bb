# b0rk: a formal model of the runtime

b0rk is a small scripting language: a lexer, a parser, an assembler with an
optimiser, a bytecode interpreter and a mark and sweep heap, in one C++
library (`src/src/libb0rk`, `src/include/b0rk`) and a command line tool
(`src/src/b0rk`). This directory holds TLA+ models of it, the configurations
that check them with TLC and proofs checked with TLAPS. Everything runs in one
thread; what makes the system hard is not concurrency between threads but code
that runs *inside* other code: a collection inside an allocation, an
allocation inside a native function, an exception inside an expression inside
a constructor inside a call.

## Inventory

| component | state | operations | who calls it |
|---|---|---|---|
| Heap (`runtime.cpp`, `object.h`) | the arena's headers, `m_freeList`, marks, `m_currentBytes` | `allocateObject`, `gc`, `gcArena`, `gcMarkObject`, `newString` | opcodes, native classes, assembler, parser, `main` |
| Virtual machine (`executor.cpp`, `context.*`, `function.cpp`, `scriptfunction.cpp`) | value stack, frames with locals, flags and handlers, the pending exception | `run`, one function per opcode, `handleException`, `Function::execute` | `main`, native functions, the static initialiser, `callConstructor` |
| Construction (`runtime.cpp`) | none of its own | `newObject`, `callConstructor`, `newArray` | `OPCODE_NEW`, native classes |
| Classes (`class.cpp`) | fields, static fields and values, methods, superclass | `addField`, `addStaticField`, `findMethod`, `setSuperClass` | parser, native classes, opcodes, the collector |
| Loader (`runtime.cpp`, `parser.cpp`) | `m_classes`, each class's state | `findClass`, `loadClass`, `addClass`, `parseClass` | parser (superclasses, types), `main` |
| Lexer, parser (`lexer.cpp`, `parser.cpp`, `expression.cpp`, `codeblock.cpp`) | tokens, imports, blocks and their variables | `lexer`, `parse`, `parseExpression`, `resolveTypes` | loader |
| Assembler, optimiser (`assembler.cpp`) | `m_code` | `assemble`, `optimiseVars`, `optimiseArithmetic`, `removeInstruction` | the first call of a script function |
| Native classes (`packages/system`) | native objects behind script objects | constructors, array loads and stores, exceptions, strings, files | the machine |

How they meet: the machine asks the heap for objects and the heap reads the
machine's value stack, frame markers, locals and the classes' static values to
find what is alive. A call of a script function may assemble it, which may load
classes, which may run static initialisers, which are script functions. An
exception is a flag in the context that every level has to respect.

What makes each part correct:

* heap: blocks tile the arena; the free list is exactly the free blocks; free
  neighbours are merged; nothing reachable is freed; every request is answered;
* machine: the value stack carries one marker per frame being executed, in
  order; each instruction finds the operands the compiler left for it, on every
  path, exceptions included; handlers are those of the enclosing try blocks;
  the stack stays inside its array;
* classes: no two fields of an object share a slot;
* loader: a registered class is complete or being parsed by someone further out;
* compiler: precedence as written in the grammar, and optimised code that
  computes what the unoptimised code did.

The hazards, each at its line, are listed in `PROJECT.json` with the properties
that cover them.

## Modules

| module | models |
|---|---|
| `Heap` | the arena, allocation and collection, step by step |
| `Memory` | what a heap promises: the abstract specification `Heap` implements |
| `Temporaries` | objects that only a C++ local refers to while another is allocated |
| `Machine` | the interpreter loop, calls, exceptions, construction; the conditions of a bytecode verifier (`Verified`) |
| `Values`, `Interp` | what the opcodes compute, and one activation of the interpreter with its data |
| `Assembler` | expressions and statements to instructions |
| `Optimiser` | the passes over the instructions, one round of a loop at a time |
| `Toolchain` | composes the three: assemble, optimise, call; compares with what the source means |
| `Heights` | the value stack along every path through assembled code |
| `Parser` | tokens of a function to trees, blocks and variable slots |
| `Classes` | class layout, registration and loading |
| `HeapProofs`, `MemoryProofs`, `MachineProofs`, `OptimiserProofs`, `ClassesProofs` | the theorems about `Heap`, about what it implements, about `Machine`, `Optimiser` and `Classes` |
| `ParserProofs`, `BracketProofs` | the theorems about `Parser`: types and slots, and brackets |
| `Sums` | lemmas the proofs share: induction over the numbers, the algebra of a sum over a finite set |
| `MCHeap`, `MCMachine`, `MCVerified`, `MCSources`, `MCToolchain`, `MCHeights`, `MCParser`, `MCClasses` | instances for TLC: class sizes, programs, sources, worlds of files |

### Heap

Addresses are offsets into the arena in units that divide `sizeof(Object)` and
`sizeof(Value)` (8 bytes: 3 and 2). `size`, `class` and `values` are functions
on the set of header addresses, so the model can say where headers are, and a
merge or a split changes that set. Of an object's values only the object
references matter to the collector.

| action | code |
|---|---|
| `SetRoot`, `SetValue` | loads and stores of locals, stack slots, static fields, fields |
| `Request` | `allocateObject` is entered; the three-quarters test (286) |
| `MarkRoot`, `MarkValue`, `MarkReturn` | `gcMarkObject`, one activation of it per record in `frames` (682-712) |
| `StartSweep`, `Keep`, `Collect` | the walk of `gcArena` (601-640) |
| `SortFreeList`, `Coalesce`, `Coalesced`, `NothingFreed` | its second half (642-679) |
| `Allocate`, `NoSpace` | first fit, split, clear; `exit(-1)` (307-383) |
| `Shutdown` | `~Runtime`'s last collection (116) |

Abstractions: static fields and stacks are one set of `Roots` (the code marks
one after the other, and nothing happens in between). The roots are marked in
any order. An allocated object is rooted in the same step: what C++ code does
with an object that only a local variable knows, across a further allocation,
is the subject of `Temporaries`. No later collection is given the time
stamp of an earlier one: marks are forgotten when a collection ends.
`CStack` bounds the recursion of `gcMarkObject`, which has no limit of its own;
exceeding it is the phase `overflow`. `LongChain` says that there is a chain of
more references than that below a root, which a cycle gives as well as a long
list. `CyclesAllowed` says whether scripts build cyclic structures.

### Machine

Two stacks have to agree. `stack` is the value stack: a value is `0`, and the
`VALUE_FRAME` marker of an activation is the position of that activation in
`control`. `control` is the C stack as far as it matters: activations of
`Executor::run` (function, pc, handlers) and of `newObject` (the constructors
still to run). An instruction is a record that says what it does to the stacks;
`data` stands for the straight-line opcodes, with the operands they pop and
push and whether they can fail on operands of a wrong type; array loads and
stores, which may throw, are instructions of their own. `Ctors` has for each
class the constructors of its chain, and `OwnCtor` the classes whose last one is
their own and takes the arguments of `new`.

Calls, native or not, may end in three ways: `ok`, `throw` (the exception flag
is set) and `fail` (false is returned all the way out). `EndOpcode` is the tail
of the interpreter loop with `handleException`. What is popped without having
been pushed is status `corrupt`; its consequences in C++ are not modelled.

`Verified` is what a verifier for this bytecode would check: stack heights agree
on all paths, a return finds exactly its result, whatever may throw inside a
try block leaves the height its handler expects, no constructor throws, and only
a class with a constructor of its own is made with arguments.
The code has no verifier, and the assembler does not always meet the
conditions. The run `machine` says what holds for the programs that do; for each
condition that is not about single opcodes a configuration of its own has a program
that does not meet it, and shows what goes wrong.

### Values, Interp, Assembler, Optimiser, Toolchain, Heights

An instruction is `[op, t, a]`; `t` is the digit of the opcode that gives the
operand type (`ADD`, `ADDI`, `ADDD`), which the optimiser reads and writes.
Addresses are positions in `m_code`, as they are until `assemble` writes the
code out; what it then checks is `Encodes`.

`Values` has integers with wrap-around at `Bound` (2^63 in the code, 8 in the
runs), doubles with whole values, the flags of a comparison and the conditions
that read them, as the macros of `executor.cpp` compute them: the overflow flag
is a function of zero and sign.

`Assembler` is `assembleExpression` by kind of expression. Each operator takes
the code so far and returns it with the new instructions, so that addresses are
patched as in the source. Names are resolved by constants (`Locals`, `Fields`,
`Statics`, `Methods`) in the place of the look-ups.

`Optimiser` has a variable for every local of `optimise`, `optimiseVars` and
`optimiseArithmetic`. `origin` is history: the place where each instruction
was assembled.

| action | code |
|---|---|
| `Infer`, `Known`, `Unused` | passes 1, 2 and 3 of `optimiseVars` |
| `RemoveUnused`, `RemoveFolded` | `removeInstruction` for the next entry of the list |
| `Fold` | one instruction of the scan of `optimiseArithmetic` |
| `InferDone` ... `SqueezeDone` | the ends of the loops, the inner and the outer `while (changed)` |

`Toolchain` puts a source through all of them: `Assembling` is a step of the
optimiser, `Enter` is a call with some arguments, `Execute` an opcode.
`Meaning` is the reference: an evaluator of the source tree.

`Heights` follows `Effect`, the operands popped and pushed by each opcode,
through the code of one expression that is or is not to leave a result.

### Parser

`stack` holds the activations of `parseFunction`, `parseCodeBlock`,
`parseStatement`, `parseExpression` and `parseExpressionList` that are under
way. A statement is a form, a list of what it expects (`Forms`); `Expect`,
`BeginExpression` and `BeginBlock` serve all of them, and what has a rule of its
own (declarations, `else`, `return`, parameters, the variable of `catch`) is an
action of its own. `Op`, `Open`, `Close`, `ExpressionEnd` are the rounds of the
loop of `parseExpression`, `Trees` is `buildTree`. `Fail` is the return of NULL
or false through the callers, with the two places where nobody asks for it.
`Numbered` is the numbering of variables by `CodeBlock`: `ChildStart` is where
the variables of a nested block start, `Ids` the slots they get.

### Classes

`loads` is the stack of activations of `loadClass`: the class of the file being
parsed, its member and the class that is being looked for. Whatever asks
`findClass` for a class that is not there begins another load on top.
`AddNative` is `addClass` for a class written in C++, which adds its members in
its constructor, with any value for `m_state`, which `Class::Class` leaves
uninitialised; where an earlier script has loaded a class of that name already,
`addClass` refuses the one written in C++. `BeginClass`, `AddMember` and
`EndClass` are `parseClass`; `Find` and `Return` are `findClass` and the end of
`loadClass`. A class that names no superclass gets what `getObjectClass` returns
at that moment, without a search. A member that cannot be parsed deletes the
class, which stays registered.

`Bases(n)` is the least set with the class `n` and the base of each of its
members, written without recursion so that the provers can use it. `Layered`
says of a world of files that no class is reached, while it is parsed, from a
class that extends it. All the runs and theorems about fields are for layered
worlds.

### Temporaries

Each of the opcodes that make or keep objects in C++ locals is the list of what
its C++ functions do with objects, in order: allocate, pin, pop, push, store a
reference, enter and leave a frame. An allocation may collect everything that
the value stack and its frames do not reach.

## Runs

| run | checks | instance |
|---|---|---|
| `heap_safety` | `TypeOK`, `Tiling`, `FreeListExact`, `NoAdjacentFree`, `Accounting`, `NoDangling` | 16 units, objects without slots, with two slots, and strings that may be external; two roots, no cycles; 1.5 million states |
| `heap_liveness` | `RequestAnswered` under fairness, and `MemorySpec`: `Heap` implements `Memory` | 16 units, one-slot objects and strings, two roots, cycles, a C stack of two frames |
| `machine` | `TypeOK`, `FramesMatch`, `OperandsAsCompiled`, `HandlersAsCompiled`, `StackInBounds`, `ReturnFindsFrame`, `NeverCorrupt`, `CleanEnd`, and `Terminates` under fairness | sixteen functions; value stack of 18 |
| `toolchain_meaning` | `MeansTheSame`, `StackEmptied`, and of the optimiser `TypeOK`, `JumpsKept`, `Encodable`; `OptimiserTerminates` and `CallReturns` under fairness | the sources of `MCSources`: assignments, tests, loops, constants to propagate and to fold; integers of four bits |
| `heights` | `OneResult`, `NoUnderflow` | every kind of expression and statement of `MCHeights`, nested, with and without a needed result; no reference that begins with a call of an own method |
| `parser` | `TypeOK`, `RoundTrip`, `Balanced`, `SlotsDistinct`, and `ParserTerminates` under fairness | functions with up to two operators (three in brackets), values of every kind, nested blocks, and the same with any one token left out |
| `classes` | `TypeOK`, `FieldsApart`, `ScriptsWhole`, `FoundWhenSound`, and `LoadsEnd` under fairness | three files that extend and name each other in every way of `Supers` and `Refs`, with missing and broken ones; asked for in every order |

What the properties say of the code, beyond their comments: `MeansTheSame` is
the whole promise of assembler, optimiser and interpreter. `JumpsKept` is that
of `removeInstruction`, which is called with positions collected before the
first removal. `OneResult` is what `assembleExpression` owes the caller that
passes `needResult`. `FieldsApart`, `ScriptsWhole` and `FoundWhenSound` have to
hold although one load is interrupted by others in the middle of a class.

Runs that find a violation:

| run | what it shows |
|---|---|
| `heap_exit` | `ExitOnlyWhenFull` fails: below the threshold the process exits without having collected (`runtime.cpp:332`) |
| `temporaries` | `UsedIsLive` fails: an allocation inside `newObject`, `createException` or a first call collects the object in a C++ local |
| `toolchain_loop_constant` | `MeansTheSame` fails: a copy of a loop counter is taken for a constant (`assembler.cpp:1369`) |
| `parser_precedence` | `RoundTrip` fails with three operators without brackets: one operator gives way where all of higher precedence should (`parser.cpp:1014`) |
| `classes_statics` | `StaticsInRange` fails: the collector reads static fields of a derived class before its array (`runtime.cpp:535`) |

Seven more configurations are kept beside the runs as the counterexamples of what
*Programs left out* says. Each ends in a violation when TLC is given it:

| configuration | module | what it shows |
|---|---|---|
| `MachineStatement.cfg` | `MCMachine` | `ReturnFindsFrame` fails: `new String("World");` leaves its object below the result (`assembler.cpp:871`) |
| `MachineInherited.cfg` | `MCMachine` | `ReturnFindsFrame` fails: arguments of `new` for a class that only inherits its constructor stay on the stack (`runtime.cpp:459`) |
| `MachineOperand.cfg` | `MCMachine` | `OperandsAsCompiled` fails: a handler is entered with the operands of the interrupted expression still there (`executor.cpp:1279`) |
| `MachineConstructor.cfg` | `MCMachine` | `FramesMatch` fails: a result is popped for a constructor that threw and pushed none, and the caller's marker goes with it (`runtime.cpp:497`) |
| `ToolchainDecrement.cfg` | `MCToolchain` | `MeansTheSame` fails: `g--;` on a field stores `1 - g` (`assembler.cpp:560`) |
| `HeightsReference.cfg` | `MCHeights` | `NoUnderflow` fails: `m().q` calls `m` by name on an object that nobody pushed (`assembler.cpp:306`) |
| `ParserCatch.cfg` | `MCParser` | `CatchDistinct` fails: the variable of a `catch` is variable 0, which is `this` (`parser.cpp:894`, `executor.cpp:1150`) |

### Bounds and why they are enough

Heap: the sizes of the code (header 3, value 2) are kept, so an object is 3, 5
or 7 units; 16 units hold five of the smallest objects with an absorbed
remainder, three of mixed sizes, or two of the largest with an absorbed
remainder of two.
Remainders of 0 to 3 (absorbed) and more (split) all occur, as do merges of
two and of three neighbours, sweeps that free nothing, and requests that find
the arena full. Collections start when 12 units are in use, so states below and
above the threshold are reached. Two roots are
what a script needs to link two objects; a further object hangs on the first.
For `heap_exit` one root is enough. In `heap_safety` and `heap_exit` `CStack` is 7,
more than the longest acyclic path; in `heap_liveness` it is 2, so that three
objects in a row overflow it, as a list of some hundred thousand does in
the code, and so does every cycle. The arena is finite, the script is not bounded
in the number of its steps.

Machine: a value stack of 18 with the margin of 4 lets `mixed` recurse four
deep with operands and constructor chains pending, and reach the stack limit
from all of them; the five functions of `tests/b0rk/tests/Exceptions.bs` are translated one to one, and
beside them stand a throw inside a catch block, exceptions that cross one and
several frames, array accesses, a constructor chain, a class without a
constructor and one that inherits its constructor, a function that does not
assemble, natives that throw and that fail. `Unverified` has the
programs of the `Machine*.cfg` that end in a violation.

Toolchain: with four bits every sum and product of two inputs can wrap, and
comparisons meet both signs. The sources have every operator on arguments,
fields, constants and literals, one and two nested operations, tests of every
comparison, `if`, `for` and `while`, and constants before, between and behind
jumps. No loop runs more than `Fuel` times. The inputs of `Generic` mix
integers and doubles where no type is known to the assembler.

Parser: two operators are what precedence is about; three without brackets are
the subject of `parser_precedence`. Leaving out one token, at any place, reaches
the error path of every expectation. Blocks are nested three deep, which is what
numbering of slots needs.

Classes: three files give chains of two superclasses and cycles of three
references. `y` and `z` are declared behind the function that loads others, so
a class is seen half laid out.

Temporaries: six objects and three operands.

### Fairness

`Heap!FairSpec` is weak fairness of `Runtime`: a collection and the rest of
`allocateObject` are straight-line C++ in the one thread there is. The script
is not fair: it may stop. `Machine!FairSpec` is weak fairness of `Next`: the
interpreter loop does not wait for anything. Which way a branch goes is left
open. For the same reason `Optimiser`, `Toolchain`, `Parser` and `Classes` have
weak fairness of the step of the loops they model. `Enter` in `Toolchain` and
the order of requests in `Classes` are choices of the program; `Ask` is fair
because `LoadsEnd` is about programs that go on.

### Programs left out

The inputs of the passing runs leave out what is known not to work, so that the
properties say what does hold for the rest. A configuration that shows what
happens is named with it:

* heap: nothing. `gcMarkObject` does not ask whether an object is marked
  (`runtime.cpp:709`), so a collection of a cycle, and of a list longer than the C
  stack allows, recurses until that is used up (phase `overflow`);
  `RequestAnswered` says that it happens in no other case.
* machine: programs that do not meet `Verified` (`MachineStatement.cfg`,
  `MachineInherited.cfg`, `MachineOperand.cfg`, `MachineConstructor.cfg`).
* statements that are values: `new C(a);` (`tests/b0rk/tests/GCStress.bs:34`) leaves
  its object on the stack, and so do other expressions without an effect; the
  function's `RETURN` then fails (`MachineStatement.cfg`).
* references that begin with a call of a method of one's own, as `x = m().q`: the
  method's name is pushed and `CALL_NAMED` takes what lies below it for the
  object (`HeightsReference.cfg`).
* a field decremented as a statement, `g--;`: `1 - g` is stored
  (`ToolchainDecrement.cfg`).
* arithmetic: folding `&&` of two constants is bitwise; `y = x + 1.0` becomes an
  increment of `x` (`assembler.cpp:1752`); operands of mixed type where a type
  was inferred are read as bits; the difference of two far integers overflows in
  a comparison; strings are compared the other way round than numbers.
* parser: `a * b / c` is read as `a * (b / c)`, by the order of `OpType`; `!!a`;
  an error behind `return` or inside a function value is swallowed, and the parser
  goes on where it happened, so that `return Foo.x;` with a class that cannot be
  found is accepted as `return;`; `SlotsDistinct` is about the blocks of `if`, `else`, `for`
  and `while`, because those of `try` and `catch` are in no `m_childBlocks`, and the
  variable of a `catch` is variable 0 (`ParserCatch.cfg`).
* classes: a subclass loaded from within the body of its superclass takes its
  field count half way and their slots overlap; two classes that extend each
  other load each other without end (`Layered` leaves both out, so neither
  `FieldsApart` nor `LoadsEnd` says anything of them); a class whose
  parse failed stays registered after it was deleted; a native class whose
  uninitialised state happens to be `PARSING` does not get its script; a static
  field that is inherited is read through the wrong class.

## Proofs

TLC checks an instance; the theorems hold for every value of the constants that
meets the assumptions named with them. Each inductive invariant was first
checked with TLC on the instance of the run named in its section.

### The heap

`HeapProofs` proves, for every arena size, header and value size, set of
classes, field counts, roots and recursion limit that meet `HeapAssumption`:

| theorem | statement |
|---|---|
| `TilingTheorem` | `Spec => []Tiling` |
| `FreeListTheorem` | `Spec => []FreeListExact` |
| `NoAdjacentTheorem` | `Spec => []NoAdjacentFree` |
| `TypeTheorem` | `Spec => []TypeOK` |
| `NoDanglingTheorem` | `Spec => []NoDangling` |
| `AccountingTheorem` | `Spec => []Accounting` |

`Layout` speaks of headers only: types of the layout variables, `Tiling`,
`FreeListExact`, and where the cursor is (`pos` is a header or the end of the
arena while sweeping). It is inductive by itself: `LayoutAllocate` and
`LayoutCoalesce` carry the arithmetic of a split and of a merge (`SplitTiling`,
`MergeTiling`), `LayoutCollect` and `LayoutSort` the free list's. `Tiling` alone
is not inductive: a merge keeps it only because the list has no block twice,
and a split only because the block taken is a header of sufficient size.

`Merged` adds what makes one pass of merging enough. `NoAdjacentFree` says
nothing during a collection, so it is not inductive: a sweep may make
neighbours free, and the merge that follows is complete only because it goes
through a list in the order of the addresses. `Merged` is: no free neighbours
except between the first block freed and the end of the merge, and an ascending
list during the merge. At its end, neighbouring blocks would be neighbours in
the list (`SortedApart`). Afterwards a split keeps blocks apart because what
remains of the block lies behind the new object (`MergedAllocate`).

`Graph` and `Marking` speak of references. `NoDangling` is not inductive: that a
sweep frees nothing reachable depends on marks made long before. `Marking`
says, while marking, that every root is pending, on the recursion's way or
covered, where an object is covered when it is marked or external and so are,
below every activation of `gcMarkObject`, all the slots the activation has
passed (`Frames`, `MarksCover`); when the recursion is empty this gives that
the survivors are closed under references (`SurvivorsClosed`), and during the
sweep that what is left to free is not among them. `IInv` is the conjunction of
`Layout`, `Graph` and `Marking`, `InitIInv` and `IInvStep` are the two proof
obligations, with a lemma for every group of actions.

`Counted` says of `m_currentBytes` what `Accounting` says, and during a sweep
that it is the sum over the objects the cursor has passed (`Passed`). A sum over
a set is a recursive definition; `Sums` gives the two facts the proof needs of
it, that it does not depend on the order of the elements and that one element
more adds its value (`TotalAdd`). They rest on `Sums!Induction`, induction over
the natural numbers for the members of a set, which the provers can use
where a theorem with an operator for a parameter is of no use to them.

`MemoryProofs` proves `RefinementTheorem`, `Spec => MemorySpec`: under the
mapping at the end of `Heap`, every step of the heap is a step of `Memory` or
changes nothing there. `SetRoot` is `Load`, `SetValue` is `Store`, `Allocate` is
`Create` and the `Collect` of an object is its `Reclaim`; everything else is
hidden (`HiddenSteps`), the merge of free blocks, which moves headers,
included. `CollectReclaims` is where marking earns its keep: `Memory` lets an
object go only if some set closed under references holds every root and not
the object, and the set is that of the survivors. `AllocateCreates` shows that
the memory of the new object is nobody's, with the remainder it may absorb.

`IInv` and `Merged` were checked on `heap_safety`, `IInv` also on
`heap_liveness`, `Counted` on `heap_safety`.

### The machine

`MachineProofs` proves of every program that is `Verified`, of any length and
depth of calls, with any natives, and any constructors that do not throw, where
a class that is made with arguments has a constructor of its own:

| theorem | statement: `ASSUME Verified PROVE` |
|---|---|
| `TypeTheorem` | `Spec => []TypeOK`: no path leaves the code of its function |
| `HandlersTheorem` | `Spec => []HandlersAsCompiled` |
| `FramesTheorem` | `Spec => []FramesMatch` |
| `OperandsTheorem` | `Spec => []OperandsAsCompiled` |
| `ReturnTheorem` | `Spec => []ReturnFindsFrame` |
| `NeverCorruptTheorem` | `Spec => []NeverCorrupt` |
| `CleanEndTheorem` | `Spec => []CleanEnd` |
| `BoundsTheorem` | `Spec => []StackInBounds` |

So the conditions of a verifier, each of which looks at one function at a time,
are enough for what the interpreter needs at run time, with exceptions that
unwind any number of activations and calls out of expressions, constructors
and natives. None of the properties is inductive, and no two of them together
are: what a `RETURN` finds depends on where the frames of all callers are.
`MInv` says it of the whole of both stacks:

* `Typed`, `Chain`: every activation is by itself as its function's map says
  (`RunOK`, `NewOK`), and every caller is ready for what it called: it has a
  place for the result, and a handler on the right height if the callee may
  throw (`MayCall`);
* `Shape`: there is a function from activations to positions on the value stack
  that places each one's marker (or result) where the depths in the maps of all
  the activations below it say, and there are no other markers;
* `Filled`, `Answered`: the place for the result of what just returned is taken,
  or an exception is pending that the caller can take; while a constructor is
  still to be called, its arguments are there.

`Bounded` adds the margin: an opcode begins with at most the limit on the stack
and pushes at most two values, `newObject` begins behind the check of its own
opcode. `ExecuteOK`, `EndOpcodeOK`, `UnwoundOK` and the `Leave` lemmas follow
`Function::execute`, the tail of the loop and `handleException`; there is a lemma
for every opcode and every way `newObject` goes on. Both invariants were checked
on the instance of `machine`, whose programs meet `Verified` (`MCVerified`).

### The optimiser

`OptimiserProofs` proves, for all code that the assembler may hand over
(`InputAssumption`: it could be written out as it is and ends in `RETURN`), any
number of variables and arguments, and any width of integers:

| theorem | statement |
|---|---|
| `TypeTheorem` | `Spec => []TypeOK`: no removal is asked for outside the code |
| `JumpsTheorem` | `Spec => []JumpsKept` |
| `EncodableTheorem` | `Spec => []Encodable` |

The theorems are about `Optimiser!Spec`, whose actions are the ones `Toolchain`
composes. None of the three is inductive. `OInv` is: the code is `Complete` at
every step; jumps were jumps when they were assembled and lead where they led
(`TargetsKept`); positions to remove are inside the code and never the last
instruction, which a jump may lead to (`Marked`); while folding, an operand that
is remembered is behind the cursor (`Remembered`). `RewriteCode` and
`RemoveCode` carry the argument for a rewritten and for a removed instruction,
and there is a lemma for each action.

### Classes

`ClassesProofs` proves, for every set of files, every list of classes written
in C++ and every order of requests:

| theorem | statement |
|---|---|
| `TypeTheorem` | `Spec => []TypeOK` |
| `FieldsTheorem` | `ASSUME Sorted PROVE Spec => []FieldsApart` |
| `WholeTheorem` | `ASSUME Once PROVE Spec => []ScriptsWhole` |

Types: `TInv` says what one load may rely on when the loads above it return. A
load has come to a class of its file (`FrameOK`), which is registered once its
members are being read; every load but the first is one that the class below it
asked for, and what a class that is still at its head found is its superclass
(`Stacked`); every registered class has its superclass registered, too
(`ClassesOK`). A native class is made by a recursive function over its members:
`MakingExists` shows by induction that there is such a function and `MakingOK`
that what holds of a class and is kept by `AddTo` holds of its result.

Slots: `FieldsApart` speaks of all the classes below a class, and a field that is
added to one of them moves its end only, so it is not inductive. `LInv` is `TInv`
and

* `Slots`: the fields of each class lie between the end of its base, as it is
  now, and its own end;
* `Unextended`: nobody extends a class that may still get members, which is one
  that a load has come to the members of, or one written in C++ whose script is
  being loaded. This keeps `Slots` when a member is added;
* `Deep`: whatever is loaded on top of a class is of no higher level. This keeps
  `Unextended` when a class is begun: its base is of a lower level than every
  class below it on the stack, and so is none of them.

`Sorted` is `Layered` for every world, and needed: without it a class is extended
half way and the slots do overlap. `LInvFields` follows the bases down by
induction on the number of slots, which falls from a class to its base.

Members: `ScriptsWhole` speaks of the moments at which nothing is loaded only.
`WInv` is `TInv` and what holds in between:

* `Filled`: a class whose members are being read has those that its file
  declares before the one that the load has come to, and no other;
* `OneLoad`: no two loads are among the members of the same class, so that a load
  finds its class as it left it, whatever was loaded on top of it meanwhile;
* `Settled`: any other class is complete and has all that its file declares, or
  was deleted.

Classes written in C++ are left out of the first and the third, because a script
adds to what their constructors have made. A load can fail at any depth:
`WholeEnded` covers the end of a class and of a file, and the failure that
deletes the class. `WholeTop` covers the next member and the first, and
`WholeKept` whatever is done on top of a class without touching it. `Once` is
`DeclaredOnce` for every world: no class of a script is declared in two places of
the class path, and the script of a class written in C++ is about that class.

`TInv`, `LInv` and `WInv` were checked with TLC on the worlds of `classes` in
which A does not name itself.

### Parser

`ParserProofs` and `BracketProofs` prove, for every set of sources, well formed
or not, and any classes and imports:

| theorem | statement |
|---|---|
| `TypeTheorem` | `Spec => []TypeOK` |
| `SlotsTheorem` | `Spec => []SlotsDistinct` |
| `BalancedTheorem` | `ASSUME ClassesEnd PROVE Spec /\ []MembersNamed /\ [][~Swallow]_vars => []Balanced` |

Types: `TypeOK` is inductive. Its part `Stacked` says who calls whom: every
activation is called by one that waits for what it returns (`Calls`, `Waits`), so
that a value, or the NULL of an error that is swallowed at any depth, comes to
an activation that has a place for it; a statement is at an item of its form; an
expression counts just the brackets among its operators, so that `Close` always
finds one. There is a lemma for each action; `WhoseItem` finds the form that an
item is of.

Slots: `SlotsDistinct`, which is about the blocks that `CodeBlock::setStartId`
reaches, those of `if`, `else`, `for` and `while`, speaks of the finished tree, which the recursive descent
puts together from below, so it says nothing on the way. `Contents` does: there
is a set of blocks that holds with each block the blocks in it which are numbered
(`Sound`), and whatever an activation has collected is made of them (`Filled`,
`Fits`). A block that ends joins the set. At the end the body of the function is
in it, and then `NumberedPlaced` goes down the blocks, by induction on their
depth: what is taken around a block is below where its own slots start
(`Placed`). What `buildTree` makes of a queue is a recursive function over its
length: `TreesAtIs` unfolds it, and `TreesPlain` shows by induction that no tree
has a block in it but that of a function value.

Brackets: `Balanced` speaks of what was accepted, and is no more inductive.
`Ledger` says it of every prefix: for each kind of bracket, what is open behind
the tokens that were read (`Depth`) is the sum of what the activations hold
(`Level`), and was never negative. What an activation holds follows from where it
is (`Holds`): a statement between the brackets of its form one, in front of a
block its brace, which the block then closes; an expression as many as it
counts; a list, an index and the block of an `else` the one they began with.
`Shifts` goes through the forms: each item changes what is held by just its own
token. Trees are built only when no bracket is left among the operators
(`NoTrees`, `AllClosed`), so an expression returns holding none.

The hypotheses are needed, for the code does accept sources without them:

* `ClassesEnd`: the braces of a source are closed, which they are because a class
  goes on behind its function. A block ends with the tokens when there is no
  brace (`BlockEnd`).
* `~Swallow`: behind `return` and in a function value the parser goes on after
  an error, and the brackets of the calls it was in stay open
  (`parser.cpp:844`).
* `MembersNamed`: where an expression reads a name, what `Qualified` passes over
  are names. The token behind a class and a dot is not looked at
  (`parser.cpp:1370`), so that a bracket can be a name.

In the run `parser` TLC evaluates `ClassesEnd`; `TypeOK` is one of its
invariants. That `MembersNamed` and `~Swallow` hold of all its sources that are
written in full, and that `Ledger` holds of it under these hypotheses, was checked
with TLC, too.

### Assumptions

`HeapAssumption` (positive sizes, natural field counts, `Null` is neither an
address nor a class); `MachineAssumption` (the types of code, maps, natives and
constructors, a stack larger than its margin); `OptimiserAssumption`,
`InputAssumption` and `BoundAssumption`; `WorldAssumption` (files are sequences
of classes of the kinds of members there are, no file is empty, and no script
writes `Object`, of which the repository has none); `WrittenAssumption` (the tokens
of a source are a sequence). TLC evaluates the first in
the runs of `MCHeap`, the second in `machine`, the next in those of
`MCToolchain`, where `Input` is what `Assembler` really produces, `WorldAssumption`
in `classes`, with `SoundWorlds`, the hypotheses of `FieldsTheorem` and
`WholeTheorem`, and `WrittenAssumption` in `parser`, with `ClassesEnd`. `Verified` is a hypothesis of the theorems about `Machine` and
not an assumption of the module, because there are programs that do not meet it;
`MCVerified` has TLC evaluate it for the sixteen functions of `machine`.

### Only model-checked

* `RoundTrip` of `Parser`: what a source means and how it is written are
  RECURSIVE operators over trees (`MCParser`), and that parsing undoes writing is
  an induction over them.
* `OneResult` and `NoUnderflow` of `Heights`, and `MeansTheSame` and
  `StackEmptied` of `Toolchain`: they rest on `assembleExpression` and on the
  evaluator of trees, which are declared RECURSIVE. In their presence the provers
  that do arithmetic are not available, and induction over trees is out of their
  reach.
* `FoundWhenSound` of `Classes` rests on `Needs`, a closure over files that may
  name each other in circles.
* Liveness (`RequestAnswered`, `Terminates`, `OptimiserTerminates`,
  `CallReturns`, `ParserTerminates`, `LoadsEnd`) is out of the prover's reach.

## Not modelled

* The lexer: text to tokens, character by character. `Parser` starts from
  tokens.
* `utf8.h` (third-party) and `utils.cpp`; the text output of the disassembler;
  `Maths`, `Time`, `RuntimeClass`, `File` (wrappers of libc without state of
  the runtime); option parsing; text functions of `String`.
* Operators of objects, which call a function inside an opcode; rounding of
  doubles and the tolerance of their comparison.
* File I/O and the class path; `<staticinit>`, which no class of the repository
  has; values of static fields.

## Plan

What would come next:

* `FoundWhenSound`, with `Needs` as the least set that is closed under what a
  class needs, in the way `Bases` is written.
* Termination of the parser as a safety property: a measure of the tokens left
  and of the activations that falls with each step, which the provers could
  handle where they cannot handle `ParserTerminates`.
* The lexer, whose comments (`lexer.cpp:199`) are among the hazards that no
  property covers, and operators of objects inside an opcode.
