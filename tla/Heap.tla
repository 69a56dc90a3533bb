-------------------------------- MODULE Heap --------------------------------
(***************************************************************************)
(* The object heap of the runtime: Runtime::allocateObject, gc, gcArena    *)
(* and gcMarkObject (runtime.cpp).                                         *)
(*                                                                         *)
(* One arena is tiled by blocks.  Every block starts with an Object header *)
(* whose m_size says where the next one starts; m_class is NULL in a free  *)
(* block.  allocateObject takes the first block of m_freeList that is      *)
(* large enough and splits it; when three quarters of the arena are in use *)
(* it first runs a mark and sweep collection.                              *)
(*                                                                         *)
(* Addresses are offsets into the arena, in any unit that divides the      *)
(* sizes of the code (8 bytes makes sizeof(Object) 3 and sizeof(Value) 2). *)
(* The runtime has one thread: a collection runs inside allocateObject, so *)
(* no script step is enabled between a request and its answer.             *)
(***************************************************************************)
EXTENDS Integers, FiniteSets, Sequences, SequencesExt

CONSTANTS
    ArenaSize,     \* m_arena.m_size
    HeaderSize,    \* sizeof(Object)
    ValueSize,     \* sizeof(Value)
    Classes,       \* the classes objects are made of
    FieldCount,    \* Class::getFieldCount()
    StringClass,   \* the class whose objects can be made external
    ExtraValues,   \* the extraValues callers ask for (ArrayData's elements)
    Roots,         \* stack slots, frame locals and static fields
    CStack,        \* how deep gcMarkObject may recurse before the C stack ends
    CyclesAllowed, \* whether scripts link objects into cycles
    Null           \* NULL

ASSUME HeapAssumption ==
    /\ ArenaSize \in Nat \ {0}
    /\ HeaderSize \in Nat \ {0}
    /\ ValueSize \in Nat \ {0}
    /\ FieldCount \in [Classes -> Nat]
    /\ StringClass \in Classes
    /\ ExtraValues \subseteq Nat
    /\ CStack \in Nat
    /\ CyclesAllowed \in BOOLEAN
    /\ Null \notin Nat \cup Classes

VARIABLES
    size,          \* m_size of every header; its domain is where headers are
    class,         \* m_class of every header
    values,        \* the object references in m_values
    marked,        \* objects with m_gcMark = now
    external,      \* objects with m_gcMark = B0RK_GC_EXTERNAL
    freeList,      \* m_arena.m_freeList
    root,          \* the object each root refers to
    currentBytes,  \* m_currentBytes
    request,       \* the arguments of the allocateObject call in progress
    phase,         \* where that call is
    pending,       \* roots gc still has to mark from
    frames,        \* the recursion of gcMarkObject: an object and its next slot
    pos,           \* gcArena's cursor
    freed          \* gcArena's freed > 0

blocks == <<size, class, values>>
marks == <<marked, external>>
vars == <<size, class, values, marked, external, freeList, root, currentBytes,
          request, phase, pending, frames, pos, freed>>

-----------------------------------------------------------------------------
Addr == 0 .. ArenaSize - 1
Headers == DOMAIN size
Objects == {a \in Headers : class[a] # Null}
FreeBlocks == Headers \ Objects
Slots(n) == 0 .. ((n - HeaderSize) \div ValueSize) - 1
Children(a) == {values[a][i] : i \in DOMAIN values[a]} \ {Null}
Rooted == {root[r] : r \in Roots} \ {Null}

(* Only a string is made external (pin), when a literal or newString asks. *)
Requests ==
    {q \in [class : Classes, extra : ExtraValues, dest : Roots, pin : BOOLEAN] :
        q.pin => q.class = StringClass}
Phases == {"idle", "mark", "sweep", "coalesce", "alloc",
           "exit", "overflow", "down"}

(* What a script can get at: what it has, one field further, and literals. *)
Visible == {Null} \cup Rooted \cup external \cup UNION {Children(a) : a \in Rooted}

(* Everything that can be reached from the set S, S included. *)
Reach(S) ==
    LET closure[n \in 0 .. Cardinality(Objects)] ==
            IF n = 0 THEN S
            ELSE closure[n - 1] \cup UNION {Children(a) : a \in closure[n - 1]}
    IN  closure[Cardinality(Objects)]

Acyclic == \A a \in Objects : a \notin Reach(Children(a))

-----------------------------------------------------------------------------
Init ==
    /\ size = [a \in {0} |-> ArenaSize]
    /\ class = [a \in {0} |-> Null]
    /\ values = [a \in {0} |-> <<>>]
    /\ marked = {}
    /\ external = {}
    /\ freeList = <<0>>
    /\ root = [r \in Roots |-> Null]
    /\ currentBytes = 0
    /\ request = Null
    /\ phase = "idle"
    /\ pending = {}
    /\ frames = <<>>
    /\ pos = 0
    /\ freed = FALSE

(***************************************************************************)
(* The script.  It runs only while no allocation is in progress.           *)
(***************************************************************************)
(* A stack slot, local or static field gets a value the script has. *)
SetRoot(r, v) ==
    /\ phase = "idle"
    /\ v \in Visible
    /\ v # root[r]
    /\ root' = [root EXCEPT ![r] = v]
    /\ UNCHANGED <<blocks, marks, freeList, currentBytes, request, phase,
                   pending, frames, pos, freed>>

(* Object::setValue: STORE_FIELD and STORE_ARRAY. *)
SetValue(a, i, v) ==
    /\ phase = "idle"
    /\ a \in Rooted
    /\ class[a] # StringClass
    /\ i \in DOMAIN values[a]
    /\ v \in Visible \ {values[a][i]}
    /\ (v # Null /\ a \in Reach({v})) => CyclesAllowed
    /\ values' = [values EXCEPT ![a][i] = v]
    /\ UNCHANGED <<size, class, marks, freeList, root, currentBytes, request,
                   phase, pending, frames, pos, freed>>

(* gc(true): the static fields and the stacks are what it marks from. *)
StartMark ==
    /\ phase' = "mark"
    /\ pending' = Rooted
    /\ marked' = {}

(* allocateObject is called; its first test decides on a collection. *)
Request(q) ==
    /\ phase = "idle"
    /\ request' = q
    /\ IF currentBytes >= (ArenaSize \div 4) * 3
         THEN StartMark
         ELSE phase' = "alloc" /\ UNCHANGED <<pending, marked>>
    /\ UNCHANGED <<blocks, external, freeList, root, currentBytes, frames,
                   pos, freed>>

(* The runtime is deleted: ~Runtime collects for the last time. *)
Shutdown ==
    /\ phase = "idle"
    /\ StartMark
    /\ UNCHANGED <<blocks, external, freeList, root, currentBytes, request,
                   frames, pos, freed>>

-----------------------------------------------------------------------------
(***************************************************************************)
(* gcMarkObject.  It marks the object, then calls itself on every object   *)
(* the object refers to; it does not ask whether that one is marked.       *)
(***************************************************************************)
VisitShallow(a, callers) ==  \* a mistake: the object's own references are forgotten
    /\ marked' = marked \cup {a}
    /\ frames' = callers
    /\ UNCHANGED phase

Visit(a, callers) ==
    IF Len(callers) = CStack
      THEN phase' = "overflow" /\ UNCHANGED <<marked, frames>>
      ELSE /\ marked' = IF a \in external THEN marked ELSE marked \cup {a}
           /\ frames' = Append(callers, [obj |-> a, next |-> 0])
           /\ UNCHANGED phase

MarkRoot ==
    /\ phase = "mark"
    /\ frames = <<>>
    /\ \E a \in pending : Visit(a, <<>>) /\ pending' = pending \ {a}
    /\ UNCHANGED <<blocks, external, freeList, root, currentBytes, request,
                   pos, freed>>

AdvanceForgotten(f) == f  \* a mistake: no i++

Advance(f) == [f EXCEPT !.next = @ + 1]

MarkValue ==
    /\ phase = "mark"
    /\ frames # <<>>
    /\ LET top == Last(frames)
           callers == Append(Front(frames), Advance(top))
           v == values[top.obj][top.next]
       IN  /\ top.next \in DOMAIN values[top.obj]
           /\ IF v = Null THEN frames' = callers /\ UNCHANGED <<marked, phase>>
                          ELSE Visit(v, callers)
    /\ UNCHANGED <<blocks, external, freeList, root, currentBytes, request,
                   pending, pos, freed>>

MarkReturn ==
    /\ phase = "mark"
    /\ frames # <<>>
    /\ Last(frames).next \notin DOMAIN values[Last(frames).obj]
    /\ frames' = Front(frames)
    /\ UNCHANGED <<blocks, marks, freeList, root, currentBytes, request, phase,
                   pending, pos, freed>>

(* gcArena is past the roots and starts to count what is in use afresh. *)
StartSweep ==
    /\ phase = "mark"
    /\ frames = <<>>
    /\ pending = {}
    /\ phase' = "sweep"
    /\ pos' = 0
    /\ freed' = FALSE
    /\ currentBytes' = 0
    /\ UNCHANGED <<blocks, marks, freeList, root, request, pending, frames>>

UnlinkForgotten(i) == freeList  \* a mistake: the block stays in the list

(* list::erase *)
Unlink(i) == RemoveAt(freeList, i)

(***************************************************************************)
(* gcArena's walk over the arena, from header to header.                   *)
(***************************************************************************)
SurvivesMarked(a) == a \in marked  \* a mistake: external objects are collected

Survives(a) == a \in marked \cup external

InUseAll(a) == size[a]  \* a mistake: free blocks are counted too

InUse(a) == IF a \in Objects THEN size[a] ELSE 0

Keep ==
    /\ phase = "sweep"
    /\ pos < ArenaSize
    /\ pos \in Objects => Survives(pos)
    /\ currentBytes' = currentBytes + InUse(pos)
    /\ pos' = pos + size[pos]
    /\ UNCHANGED <<blocks, marks, freeList, root, request, phase, pending,
                   frames, freed>>

Collect ==
    /\ phase = "sweep"
    /\ pos < ArenaSize
    /\ pos \in Objects
    /\ ~Survives(pos)
    /\ class' = [class EXCEPT ![pos] = Null]
    /\ values' = [values EXCEPT ![pos] = <<>>]
    /\ freeList' = Append(freeList, pos)
    /\ freed' = TRUE
    /\ pos' = pos + size[pos]
    /\ UNCHANGED <<size, marks, root, currentBytes, request, phase, pending,
                   frames>>

(* gc returns to allocateObject, or to the destructor; its locals are gone,
   and no later collection uses the same time stamp for its marks. *)
Resume ==
    /\ phase' = IF request = Null THEN "down" ELSE "alloc"
    /\ marked' = {}
    /\ pos' = 0
    /\ freed' = FALSE

NothingFreed ==
    /\ phase = "sweep"
    /\ pos = ArenaSize
    /\ ~freed
    /\ Resume
    /\ UNCHANGED <<blocks, external, freeList, root, currentBytes,
                   request, pending, frames>>

AscendingNot(s) == TRUE  \* a mistake: the list is not sorted

(* list::sort orders the list by address. *)
Ascending(s) == \A i, j \in DOMAIN s : i < j => s[i] < s[j]

SortFreeList ==
    /\ phase = "sweep"
    /\ pos = ArenaSize
    /\ freed
    /\ \E s \in [1 .. Len(freeList) -> ToSet(freeList)] :
          /\ Ascending(s)
          /\ ToSet(s) = ToSet(freeList)
          /\ freeList' = s
    /\ phase' = "coalesce"
    /\ UNCHANGED <<blocks, marks, root, currentBytes, request, pending, frames,
                   pos, freed>>

(* The i-th free block starts where the one before it in the list ends. *)
Adjacent(i) ==
    /\ i \in 2 .. Len(freeList)
    /\ freeList[i] = freeList[i - 1] + size[freeList[i - 1]]

Coalesce ==
    /\ phase = "coalesce"
    /\ \E i \in DOMAIN freeList :
          LET a == freeList[i - 1]
              b == freeList[i]
          IN  /\ Adjacent(i)
              /\ \A j \in 1 .. i - 1 : ~Adjacent(j)
              /\ size' = [h \in Headers \ {b} |->
                             IF h = a THEN size[a] + size[b] ELSE size[h]]
              /\ class' = [h \in Headers \ {b} |-> class[h]]
              /\ values' = [h \in Headers \ {b} |-> values[h]]
              /\ freeList' = Unlink(i)
    /\ UNCHANGED <<marks, root, currentBytes, request, phase, pending, frames,
                   pos, freed>>

Coalesced ==
    /\ phase = "coalesce"
    /\ \A i \in DOMAIN freeList : ~Adjacent(i)
    /\ Resume
    /\ UNCHANGED <<blocks, external, freeList, root, currentBytes,
                   request, pending, frames>>

-----------------------------------------------------------------------------
(***************************************************************************)
(* The rest of allocateObject: first fit, split, clear, hand out.          *)
(***************************************************************************)
ObjSize(q) == HeaderSize + (FieldCount[q.class] + q.extra) * ValueSize

SplitsAlways(rest) == TRUE  \* a mistake: even an empty remainder gets a header

(* A remainder is worth a block only when it is larger than a header. *)
Splits(rest) == rest > HeaderSize

BlockLenRequested(n, avail) == n  \* a mistake: a small remainder is lost

(* Otherwise the remainder becomes padding of the object. *)
BlockLen(n, avail) == IF Splits(avail - n) THEN n ELSE avail

FirstFit(i, n) ==
    /\ i \in DOMAIN freeList
    /\ size[freeList[i]] >= n
    /\ \A j \in 1 .. i - 1 : size[freeList[j]] < n

(* The split-off remainder of a block goes to the end of the free list. *)
Carve(i, c, n) ==
    LET a == freeList[i]
        rest == size[a] - n
        split == Splits(rest)
        len == BlockLen(n, size[a])
        hs == IF split THEN Headers \cup {a + n} ELSE Headers
        others == Unlink(i)
    IN  /\ size' = [h \in hs |-> IF h = a THEN len
                                 ELSE IF h \in Headers THEN size[h] ELSE rest]
        /\ class' = [h \in hs |-> IF h = a THEN c
                                  ELSE IF h \in Headers THEN class[h] ELSE Null]
        /\ values' = [h \in hs |->
                        IF h = a THEN [s \in Slots(len) |-> Null]
                        ELSE IF h \in Headers THEN values[h] ELSE <<>>]
        /\ freeList' = IF split THEN Append(others, a + n) ELSE others
        /\ currentBytes' = currentBytes + len

(* The caller puts what it gets into a stack slot, a local or a field, dest,
   before it allocates again.  newString and the assembler's literals make the
   new string external. *)
Allocate ==
    /\ phase = "alloc"
    /\ \E i \in DOMAIN freeList :
          /\ FirstFit(i, ObjSize(request))
          /\ Carve(i, request.class, ObjSize(request))
          /\ root' = [root EXCEPT ![request.dest] = freeList[i]]
          /\ external' = IF request.pin THEN external \cup {freeList[i]}
                                        ELSE external
    /\ request' = Null
    /\ phase' = "idle"
    /\ UNCHANGED <<marked, pending, frames, pos, freed>>

(* exit(-1) *)
NoSpace ==
    /\ phase = "alloc"
    /\ \A i \in DOMAIN freeList : size[freeList[i]] < ObjSize(request)
    /\ phase' = "exit"
    /\ UNCHANGED <<blocks, marks, freeList, root, currentBytes, request,
                   pending, frames, pos, freed>>

-----------------------------------------------------------------------------
Script ==
    \/ \E r \in Roots, v \in Visible : SetRoot(r, v)
    \/ \E a \in Rooted, v \in Visible :
          \E i \in DOMAIN values[a] : SetValue(a, i, v)
    \/ \E q \in Requests : Request(q)
    \/ Shutdown

Mark == MarkRoot \/ MarkValue \/ MarkReturn \/ StartSweep
Sweep == Keep \/ Collect \/ NothingFreed \/ SortFreeList
Merge == Coalesce \/ Coalesced

Runtime == Mark \/ Sweep \/ Merge \/ Allocate \/ NoSpace

(* The process is gone. *)
Ended == phase \in {"exit", "overflow", "down"} /\ UNCHANGED vars

Next == Script \/ Runtime \/ Ended

Spec == Init /\ [][Next]_vars

(* The code of allocateObject runs to its end: nothing can keep it waiting. *)
FairSpec == Spec /\ WF_vars(Runtime)

-----------------------------------------------------------------------------
(***************************************************************************)
(* Properties                                                              *)
(***************************************************************************)
TypeOK ==
    /\ Headers \subseteq Addr
    /\ size \in [Headers -> 1 .. ArenaSize]
    /\ class \in [Headers -> Classes \cup {Null}]
    /\ DOMAIN values = Headers
    /\ \A a \in Objects : values[a] \in [Slots(size[a]) -> Addr \cup {Null}]
    /\ marked \subseteq Addr
    /\ external \subseteq Addr
    /\ freeList \in Seq(Addr)
    /\ root \in [Roots -> Addr \cup {Null}]
    /\ currentBytes \in Nat
    /\ request \in Requests \cup {Null}
    /\ phase \in Phases
    /\ pending \subseteq Addr
    /\ frames \in Seq([obj : Addr, next : Nat])
    /\ pos \in 0 .. ArenaSize
    /\ freed \in BOOLEAN

(* Header by header the blocks cover the arena without gap or overlap: every
   walk of gcArena from m_start ends exactly at the arena's end, whatever was
   split, absorbed and merged before. *)
Tiling ==
    /\ 0 \in Headers
    /\ \A a \in Headers : a + size[a] \in Headers \cup {ArenaSize}
    /\ \A a, b \in Headers : a < b => a + size[a] <= b

(* m_freeList holds every block without a class, once, and nothing else:
   no memory is lost to the allocator and none is handed out twice. *)
FreeListExact ==
    /\ ToSet(freeList) = FreeBlocks
    /\ IsInjective(freeList)

(* While a script runs no two free blocks touch: the sort and the merge of
   gcArena leave no fragmentation behind that a larger block would cure, and
   neither does splitting a block afterwards. *)
NoAdjacentFree ==
    phase \in {"idle", "alloc"} =>
        \A a, b \in FreeBlocks : a + size[a] # b

(* m_currentBytes, which decides on the next collection, is what the objects
   occupy, padding included. *)
Accounting ==
    phase \in {"idle", "alloc"} =>
        currentBytes = MapThenSumSet(LAMBDA a : size[a], Objects)

(* Nothing a script can get at was freed: whatever a root or an object in use
   refers to is an object.  (During a sweep garbage may refer to garbage that
   is already free.) *)
NoDangling ==
    /\ Rooted \cup external \subseteq Objects
    /\ \A a \in Objects :
          (phase = "sweep" => Survives(a)) => Children(a) \subseteq Objects

(* A root is the first of more than CStack objects, each of which refers to the
   next one: a long list, or a cycle, gone round often enough. *)
LongChain ==
    LET nth[n \in 0 .. CStack] ==
            IF n = 0 THEN Rooted ELSE UNION {Children(a) : a \in nth[n - 1]}
    IN  nth[CStack] # {}

(* allocateObject comes back, or the process ends in exit(-1): a collection
   never spins, not even on a cycle.  It ends the C stack only if a chain of
   objects is longer than that, which a list can be and every cycle is. *)
RequestAnswered ==
    phase # "idle" ~> \/ phase \in {"idle", "exit", "down"}
                      \/ phase = "overflow" /\ LongChain

(* exit(-1) is the last resort: the objects that cannot be collected leave no
   room for the request anywhere in the arena.  The code does not keep this:
   below the threshold it gives up without a collection. *)
ExitOnlyWhenFull ==
    phase = "exit" =>
        LET kept == Objects \cap (Reach(Rooted) \cup external)
            n == ObjSize(request)
        IN  \A a \in 0 .. ArenaSize - n :
              \E b \in kept : b < a + n /\ a < b + size[b]

(* The heap keeps the promises of Memory. *)
Mem == INSTANCE Memory WITH
    Size <- ArenaSize,
    extent <- [a \in Objects |-> a + size[a]],
    field <- [a \in Objects |-> values[a]],
    ref <- root,
    pinned <- external

MemorySpec == Mem!Spec
=============================================================================
