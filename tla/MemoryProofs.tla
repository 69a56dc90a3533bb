----------------------------- MODULE MemoryProofs -----------------------------
(***************************************************************************)
(* The heap implements Memory: every step of Heap creates an object,       *)
(* reclaims one that nothing reaches, stores or loads a reference, or does *)
(* nothing that a script could see.                                        *)
(***************************************************************************)
EXTENDS HeapProofs

USE HeapAssumption DEF HeapAssumption

(* A quotient is not larger than what is divided. *)
LEMMA Quotient ==
    ASSUME NEW n \in Nat, NEW d \in Nat \ {0}
    PROVE  n \div d \in 0 .. n
  OBVIOUS

LEMMA Initial == Init => Mem!Init
  <1> SUFFICES ASSUME Init PROVE Mem!Init
    OBVIOUS
  <1>1. Objects = {} /\ external = {} /\ root = [r \in Roots |-> Null]
    BY DEF Init, Objects, Headers
  <1> QED BY <1>1 DEF Mem!Init

(* A step that neither changes the objects nor what refers to them. *)
LEMMA Hidden ==
    ASSUME Objects' = Objects, UNCHANGED <<root, external>>,
           \A a \in Objects : size'[a] = size[a] /\ values'[a] = values[a]
    PROVE  UNCHANGED Mem!vars
  BY DEF Mem!vars

LEMMA SetRootLoads ==
    ASSUME IInv, NEW r \in Roots, NEW v \in Visible, SetRoot(r, v)
    PROVE  Mem!Next
  <1>1. /\ phase = "idle" /\ root' = [root EXCEPT ![r] = v]
        /\ UNCHANGED <<size, class, values, external>>
    BY DEF SetRoot, blocks, marks
  <1>2. v \in Objects \cup {Null}
    BY <1>1, VisibleObjects DEF IInv
  <1>3. Objects' = Objects
    BY <1>1 DEF Objects, Headers
  <1>4. Mem!Live = Objects
    BY DEF Mem!Live
  <1>5. Mem!Load(r, v)
    BY <1>1, <1>2, <1>3, <1>4 DEF Mem!Load
  <1> QED BY <1>2, <1>4, <1>5 DEF Mem!Next

LEMMA SetValueStores ==
    ASSUME IInv, NEW a \in Rooted, NEW v \in Visible, NEW i \in DOMAIN values[a],
           SetValue(a, i, v)
    PROVE  Mem!Next
  <1>1. /\ phase = "idle" /\ values' = [values EXCEPT ![a][i] = v]
        /\ UNCHANGED <<size, class, external, root>>
    BY DEF SetValue, marks
  <1>2. v \in Objects \cup {Null} /\ a \in Objects
    BY <1>1, VisibleObjects DEF IInv, Graph, NoDangling
  <1>3. Objects' = Objects
    BY <1>1 DEF Objects, Headers
  <1>4. Mem!Live = Objects /\ Mem!Held = Rooted
    BY DEF Mem!Live, Mem!Held, Rooted
  <1>5. /\ values'[a] = [values[a] EXCEPT ![i] = v]
        /\ \A b \in Objects \ {a} : values'[b] = values[b]
    BY <1>1, <1>2, ObjectsAddr DEF IInv, Layout
  <1>6. [b \in Objects |-> values[b]]' = [[b \in Objects |-> values[b]] EXCEPT ![a][i] = v]
    BY <1>2, <1>3, <1>5
  <1>7. Mem!Store(a, i, v)
    BY <1>1, <1>2, <1>3, <1>4, <1>6 DEF Mem!Store
  <1> QED BY <1>2, <1>4, <1>7 DEF Mem!Next

(* What a sweep frees is outside the survivors, which are closed under
   references and hold every root. *)
LEMMA CollectReclaims == IInv /\ Collect => Mem!Next
  <1> SUFFICES ASSUME IInv, Collect PROVE Mem!Next
    OBVIOUS
  <1>1. /\ phase = "sweep" /\ pos \in Objects /\ ~Survives(pos)
        /\ class' = [class EXCEPT ![pos] = Null]
        /\ values' = [values EXCEPT ![pos] = <<>>]
        /\ UNCHANGED <<size, external, root>>
    BY DEF Collect, marks
  <1>2. Objects' = Objects \ {pos} /\ \A b \in Objects' : values'[b] = values[b]
    <2>1. class'[pos] = Null /\ \A b \in Headers \ {pos} : class'[b] = class[b]
      BY <1>1, ObjectsAddr DEF IInv, Layout
    <2>2. Objects' = Objects \ {pos}
      BY <1>1, <2>1 DEF Objects, Headers
    <2> QED BY <1>1, <2>2, ObjectsAddr DEF IInv, Layout
  <1>3. /\ Mem!Live = Objects /\ Mem!Held = Rooted
        /\ \A b \in Objects : Mem!Refs(b) = Children(b)
    BY DEF Mem!Live, Mem!Held, Mem!Refs, Rooted, Children
  <1>4. Mem!Unreachable(pos)
    <2> DEFINE S == marked \cup external
    <2>1. S \subseteq Objects /\ pos \notin S
      BY <1>1 DEF IInv, Graph, Marking, Survives
    <2>2. Rooted \subseteq S
      BY <1>1 DEF IInv, Marking, SurvivorsClosed
    <2>3. \A b \in S : Children(b) \subseteq S
      BY <1>1, <2>1, SurvivorsChildren DEF Survives
    <2> HIDE DEF S
    <2> QED BY <1>3, <2>1, <2>2, <2>3 DEF Mem!Unreachable, Mem!Closed
  <1>5. PICK a \in Objects : a = pos
    BY <1>1
  <1>6. Mem!Reclaim(a)
    <2>1. a \notin external /\ Mem!Unreachable(a)
      BY <1>1, <1>4, <1>5 DEF Survives
    <2> QED BY <1>1, <1>2, <1>3, <1>5, <2>1 DEF Mem!Reclaim
  <1> QED BY <1>3, <1>6 DEF Mem!Next

(* The block an object is made of belongs to no other object, and its slots
   are clear. *)
LEMMA AllocateCreates == IInv /\ Allocate => Mem!Next
  <1> SUFFICES ASSUME IInv, Allocate PROVE Mem!Next
    OBVIOUS
  <1>1. request \in Requests /\ ObjSize(request) \in Nat \ {0}
    BY ObjSizePositive DEF Allocate, IInv, Layout
  <1>2. PICK a \in FreeBlocks, len \in Nat :
            /\ ObjSize(request) <= len /\ len <= size[a]
            /\ Objects' = Objects \cup {a}
            /\ size'[a] = len
            /\ values'[a] = [s \in Slots(len) |-> Null]
            /\ \A h \in Objects : size'[h] = size[h] /\ values'[h] = values[h]
            /\ root' = [root EXCEPT ![request.dest] = a]
            /\ external' = IF request.pin THEN external \cup {a} ELSE external
    BY AllocateEffect DEF IInv
  <1>3. /\ a \in Headers /\ a \in Addr /\ a \notin Objects
        /\ size[a] \in 1 .. ArenaSize /\ a + size[a] <= ArenaSize
    <2>1. a \in Headers /\ a \in Addr /\ a \notin Objects /\ size[a] \in 1 .. ArenaSize
      BY DEF FreeBlocks, IInv, Layout
    <2>2. a + size[a] \in Headers \cup {ArenaSize}
      BY <2>1 DEF IInv, Layout, Tiling
    <2> QED BY <2>1, <2>2 DEF IInv, Layout, Addr
  <1>4. Mem!Live = Objects
    BY DEF Mem!Live
  <1>5. PICK end \in a + 1 .. ArenaSize : end = a + len
    BY <1>1, <1>2, <1>3 DEF Addr
  <1>6. ASSUME NEW b \in Objects PROVE b + size[b] <= a \/ end <= b
    <2>1. b \in Headers /\ b \in Addr /\ b # a
      BY <1>3, ObjectsAddr DEF IInv
    <2>2. b < a => b + size[b] <= a
      BY <1>3, <2>1 DEF IInv, Layout, Tiling
    <2>3. a < b => a + size[a] <= b
      BY <1>3, <2>1 DEF IInv, Layout, Tiling
    <2> QED BY <1>2, <1>3, <1>5, <2>1, <2>2, <2>3 DEF Addr
  <1>7. PICK n \in 0 .. ArenaSize : Slots(len) = 0 .. n - 1
    <2>1. HeaderSize <= len
      <3>1. FieldCount[request.class] \in Nat /\ request.extra \in Nat
        BY <1>1 DEF Requests
      <3>2. (FieldCount[request.class] + request.extra) * ValueSize \in Nat
        BY <3>1
      <3> QED BY <1>2, <3>2 DEF ObjSize
    <2>2. (len - HeaderSize) \div ValueSize \in 0 .. (len - HeaderSize)
      <3>1. len - HeaderSize \in Nat
        BY <2>1
      <3> QED BY <3>1, Quotient
    <2>3. (len - HeaderSize) \div ValueSize \in 0 .. ArenaSize
      BY <1>2, <1>3, <2>1, <2>2
    <2> QED BY <2>3 DEF Slots
  <1>8. /\ [b \in Objects |-> b + size[b]]' =
              [b \in Objects \cup {a} |-> IF b = a THEN end ELSE b + size[b]]
        /\ [b \in Objects |-> values[b]]' =
              [b \in Objects \cup {a} |-> IF b = a THEN [s \in 0 .. n - 1 |-> Null] ELSE values[b]]
    BY <1>2, <1>3, <1>5, <1>7
  <1>9. Mem!Create(a)
    <2>1. request.dest \in Roots /\ external' \in {external, external \cup {a}}
      BY <1>1, <1>2 DEF Requests
    <2>2. /\ a \notin Mem!Live
          /\ DOMAIN [b \in Objects |-> b + size[b]]' = Mem!Live \cup {a}
      BY <1>2, <1>3, <1>4
    <2>3. \E e \in a + 1 .. ArenaSize :
            /\ \A b \in Mem!Live : [h \in Objects |-> h + size[h]][b] <= a \/ e <= b
            /\ [b \in Objects |-> b + size[b]]' =
                  [b \in Mem!Live \cup {a} |->
                      IF b = a THEN e ELSE [h \in Objects |-> h + size[h]][b]]
      BY <1>3, <1>4, <1>5, <1>6, <1>8
    <2>4. \E m \in 0 .. ArenaSize :
            [b \in Objects |-> values[b]]' =
                [b \in Mem!Live \cup {a} |->
                    IF b = a THEN [s \in 0 .. m - 1 |-> Null] ELSE [h \in Objects |-> values[h]][b]]
      BY <1>3, <1>4, <1>7, <1>8
    <2>5. \E r \in Roots : root' = [root EXCEPT ![r] = a]
      BY <1>2, <2>1
    <2> QED BY <2>1, <2>2, <2>3, <2>4, <2>5 DEF Mem!Create
  <1> QED BY <1>3, <1>9 DEF Mem!Next, Addr

(* Steps without effect on the objects: marking, the rest of the sweep,
   merging, and what only the runtime sees of a request. *)
LEMMA HiddenSteps ==
    ASSUME IInv,
           \/ \E q \in Requests : Request(q)
           \/ Shutdown \/ Mark \/ Keep \/ NothingFreed \/ SortFreeList
           \/ Merge \/ NoSpace \/ Ended \/ UNCHANGED vars
    PROVE  UNCHANGED Mem!vars
  <1>1. CASE Coalesce
    BY <1>1, CoalesceEffect, Hidden DEF Coalesce, IInv, marks
  <1>2. CASE UNCHANGED <<size, class, values, root, external>>
    BY <1>2, Hidden DEF Objects, Headers
  <1>3. CASE (\E q \in Requests : Request(q)) \/ Shutdown
    BY <1>2, <1>3 DEF Request, Shutdown, blocks
  <1>4. CASE Mark
    BY <1>2, <1>4 DEF Mark, MarkRoot, MarkValue, MarkReturn, StartSweep, blocks, marks
  <1>5. CASE Keep \/ NothingFreed \/ SortFreeList \/ Coalesced
    BY <1>2, <1>5 DEF Keep, NothingFreed, SortFreeList, Coalesced, blocks, marks
  <1>6. CASE NoSpace \/ Ended \/ UNCHANGED vars
    BY <1>2, <1>6 DEF NoSpace, Ended, vars, blocks, marks
  <1> QED BY <1>1, <1>3, <1>4, <1>5, <1>6 DEF Merge

LEMMA StepSimulation == IInv /\ [Next]_vars => [Mem!Next]_(Mem!vars)
  <1> SUFFICES ASSUME IInv, [Next]_vars PROVE Mem!Next \/ UNCHANGED Mem!vars
    OBVIOUS
  <1>1. CASE Script
    BY <1>1, SetRootLoads, SetValueStores, HiddenSteps DEF Script
  <1>2. CASE Collect
    BY <1>2, CollectReclaims
  <1>3. CASE Allocate
    BY <1>3, AllocateCreates
  <1>4. CASE Mark \/ Keep \/ NothingFreed \/ SortFreeList \/ Merge \/ NoSpace
                  \/ Ended \/ UNCHANGED vars
    BY <1>4, HiddenSteps
  <1> QED BY <1>1, <1>2, <1>3, <1>4 DEF Next, Runtime, Sweep

(* Splitting, marking, sweeping, sorting and merging stay behind the promises
   of Memory, for every arena, every set of classes and every script: an object
   is created in memory of its own with clear slots, changes only when it is
   stored into, and goes only when it is neither pinned nor reachable. *)
THEOREM RefinementTheorem == Spec => MemorySpec
  <1>1. Init => Mem!Init
    BY Initial
  <1>2. IInv /\ [Next]_vars => [Mem!Next]_(Mem!vars)
    BY StepSimulation
  <1> QED BY <1>1, <1>2, InitIInv, IInvStep, PTL DEF Spec, MemorySpec, Mem!Spec
=============================================================================
