----------------------------- MODULE HeapProofs ------------------------------
(***************************************************************************)
(* Theorems about Heap, for every arena, every set of classes and roots.   *)
(***************************************************************************)
EXTENDS Heap, Sums, SequenceTheorems, TLAPS

-----------------------------------------------------------------------------
(***************************************************************************)
(* Lemmas about the operators of the model                                 *)
(***************************************************************************)
(* What list::erase leaves behind: one element fewer, the others in order. *)
LEMMA RemoveAtProperties ==
    ASSUME NEW S, NEW s \in Seq(S), NEW i \in 1 .. Len(s)
    PROVE  /\ RemoveAt(s, i) \in Seq(S)
           /\ Len(RemoveAt(s, i)) = Len(s) - 1
           /\ \A j \in 1 .. Len(s) - 1 :
                 RemoveAt(s, i)[j] = IF j < i THEN s[j] ELSE s[j + 1]
  <1> DEFINE a == SubSeq(s, 1, i - 1)
             b == SubSeq(s, i + 1, Len(s))
  <1>1. /\ a \in Seq(S)
        /\ Len(a) = i - 1
        /\ \A j \in 1 .. i - 1 : a[j] = s[j]
    OBVIOUS
  <1>2. /\ b \in Seq(S)
        /\ Len(b) = Len(s) - i
        /\ \A j \in 1 .. Len(s) - i : b[j] = s[j + i]
    OBVIOUS
  <1> HIDE DEF a, b
  <1>3. /\ a \o b \in Seq(S)
        /\ Len(a \o b) = Len(a) + Len(b)
        /\ \A j \in 1 .. Len(a) + Len(b) :
              (a \o b)[j] = IF j <= Len(a) THEN a[j] ELSE b[j - Len(a)]
    BY <1>1, <1>2, ConcatProperties, Zenon
  <1>4. Len(s) \in Nat /\ i \in Nat /\ 1 <= i /\ i <= Len(s)
    OBVIOUS
  <1>5. ASSUME NEW j \in 1 .. Len(s) - 1
        PROVE  (a \o b)[j] = IF j < i THEN s[j] ELSE s[j + 1]
    <2>1. j \in 1 .. Len(a) + Len(b)
      BY <1>1, <1>2, <1>4
    <2>2. CASE j < i
      <3>1. (a \o b)[j] = a[j] /\ j \in 1 .. i - 1
        BY <1>1, <1>3, <1>4, <2>1, <2>2
      <3> QED BY <1>1, <2>2, <3>1
    <2>3. CASE ~(j < i)
      <3>1. (a \o b)[j] = b[j - (i - 1)] /\ j - (i - 1) \in 1 .. Len(s) - i
        BY <1>1, <1>3, <1>4, <2>1, <2>3
      <3>2. (j - (i - 1)) + i = j + 1
        BY <1>4
      <3> QED BY <1>2, <2>3, <3>1, <3>2
    <2> QED BY <2>2, <2>3
  <1>6. Len(a \o b) = Len(s) - 1
    BY <1>1, <1>2, <1>3, <1>4
  <1> HIDE DEF a, b
  <1>7. RemoveAt(s, i) = a \o b
    BY DEF RemoveAt, a, b
  <1> QED BY <1>3, <1>5, <1>6, <1>7

(* Removing an element of a list without repetitions removes it from the
   list's set, and leaves the list without repetitions. *)
LEMMA RemoveAtInjective ==
    ASSUME NEW S, NEW s \in Seq(S), IsInjective(s), NEW i \in DOMAIN s
    PROVE  /\ RemoveAt(s, i) \in Seq(S)
           /\ IsInjective(RemoveAt(s, i))
           /\ ToSet(RemoveAt(s, i)) = ToSet(s) \ {s[i]}
  <1> DEFINE r == RemoveAt(s, i)
  <1>1. i \in 1 .. Len(s)
    OBVIOUS
  <1>2. /\ r \in Seq(S)
        /\ Len(r) = Len(s) - 1
        /\ \A j \in 1 .. Len(s) - 1 : r[j] = IF j < i THEN s[j] ELSE s[j + 1]
    BY <1>1, RemoveAtProperties
  <1>3. IsInjective(r)
    <2> HIDE DEF r
    <2> QED BY <1>1, <1>2 DEF IsInjective
  <1>4. ToSet(r) = ToSet(s) \ {s[i]}
    <2> HIDE DEF r
    <2>1. ASSUME NEW j \in DOMAIN r PROVE r[j] \in ToSet(s) \ {s[i]}
      BY <1>1, <1>2, <2>1 DEF IsInjective, ToSet
    <2>2. ASSUME NEW k \in DOMAIN s, s[k] # s[i] PROVE \E j \in DOMAIN r : r[j] = s[k]
      <3>1. CASE k < i
        BY <1>1, <1>2, <2>2, <3>1
      <3>2. CASE k > i
        <4>1. k - 1 \in DOMAIN r /\ r[k - 1] = s[k]
          BY <1>1, <1>2, <2>2, <3>2
        <4> QED BY <4>1
      <3> QED BY <1>1, <2>2, <3>1, <3>2
    <2> QED BY <2>1, <2>2 DEF ToSet
  <1> QED BY <1>2, <1>3, <1>4

(* Appending a new element to a list without repetitions. *)
LEMMA AppendNew ==
    ASSUME NEW S, NEW s \in Seq(S), IsInjective(s), NEW e \in S, e \notin ToSet(s)
    PROVE  /\ Append(s, e) \in Seq(S)
           /\ IsInjective(Append(s, e))
           /\ ToSet(Append(s, e)) = ToSet(s) \cup {e}
  <1> DEFINE r == Append(s, e)
  <1>1. /\ r \in Seq(S)
        /\ Len(r) = Len(s) + 1
        /\ r[Len(s) + 1] = e
        /\ \A j \in 1 .. Len(s) : r[j] = s[j]
    OBVIOUS
  <1>2. \A j \in 1 .. Len(s) : s[j] \in ToSet(s)
    BY DEF ToSet
  <1> HIDE DEF r
  <1>3. IsInjective(r)
    BY <1>1, <1>2 DEF IsInjective
  <1>4. ToSet(r) = ToSet(s) \cup {e}
    <2>1. ToSet(r) \subseteq ToSet(s) \cup {e}
      BY <1>1, <1>2 DEF ToSet
    <2>2. ToSet(s) \subseteq ToSet(r)
      BY <1>1 DEF ToSet
    <2>3. e \in ToSet(r)
      BY <1>1 DEF ToSet
    <2> QED BY <2>1, <2>2, <2>3
  <1> QED BY <1>1, <1>3, <1>4 DEF r

(* A stack without its top. *)
LEMMA FrontProperties ==
    ASSUME NEW S, NEW s \in Seq(S), s # <<>>
    PROVE  /\ Front(s) \in Seq(S)
           /\ Len(Front(s)) = Len(s) - 1
           /\ \A k \in 1 .. Len(s) - 1 : Front(s)[k] = s[k]
  <1>1. Len(s) \in Nat /\ Len(s) # 0
    BY EmptySeq
  <1>2. \A k \in 1 .. Len(s) - 1 : s[k] \in S
    OBVIOUS
  <1>3. PICK i \in 1 .. Len(s) : i = Len(s)
    BY <1>1
  <1>4. /\ SubSeq(s, 1, i - 1) \in Seq(S)
        /\ Len(SubSeq(s, 1, i - 1)) = i - 1
        /\ \A k \in 1 .. i - 1 : SubSeq(s, 1, i - 1)[k] = s[k]
    OBVIOUS
  <1> QED BY <1>3, <1>4 DEF Front

(* What an object takes is more than nothing. *)
LEMMA ObjSizePositive == ASSUME NEW q \in Requests PROVE ObjSize(q) \in Nat \ {0}
  <1>1. FieldCount[q.class] \in Nat /\ q.extra \in Nat
    BY HeapAssumption DEF Requests
  <1>2. (FieldCount[q.class] + q.extra) * ValueSize \in Nat
    BY <1>1, HeapAssumption
  <1> QED BY <1>2, HeapAssumption DEF ObjSize

-----------------------------------------------------------------------------
(***************************************************************************)
(* The layout of the arena: Tiling and FreeListExact, with the types they  *)
(* need and the place of gcArena's cursor.                                 *)
(***************************************************************************)
Layout ==
    /\ Headers \subseteq Addr
    /\ size \in [Headers -> 1 .. ArenaSize]
    /\ class \in [Headers -> Classes \cup {Null}]
    /\ DOMAIN values = Headers
    /\ freeList \in Seq(Addr)
    /\ request \in Requests \cup {Null}
    /\ phase = "alloc" => request \in Requests
    /\ pos \in 0 .. ArenaSize
    /\ phase = "sweep" => pos \in Headers \cup {ArenaSize}
    /\ Tiling
    /\ FreeListExact

USE HeapAssumption DEF HeapAssumption

LEMMA InitLayout == Init => Layout
  <1> SUFFICES ASSUME Init PROVE Layout
    OBVIOUS
  <1> USE DEF Init
  <1>1. Headers = {0} /\ FreeBlocks = {0} /\ 0 \in Addr
    BY DEF Headers, FreeBlocks, Objects, Addr
  <1>2. /\ freeList \in Seq(Addr)
        /\ ToSet(freeList) = {0}
        /\ IsInjective(freeList)
    BY <1>1 DEF ToSet, IsInjective
  <1>3. Tiling
    BY <1>1 DEF Tiling, Headers
  <1> QED BY <1>1, <1>2, <1>3 DEF Layout, FreeListExact, Headers

(* Nothing of the layout changes but the request. *)
LEMMA LayoutKept ==
    ASSUME Layout, UNCHANGED <<size, class, freeList, pos>>, DOMAIN values' = DOMAIN values,
           phase' = "sweep" => phase = "sweep",
           request' \in Requests \cup {Null}, phase' = "alloc" => request' \in Requests
    PROVE  Layout'
  BY DEF Layout, Headers, Objects, FreeBlocks, Tiling, FreeListExact

(* gcArena's cursor moves from a header to the next or to the end. *)
LEMMA NextHeader ==
    ASSUME Layout, phase = "sweep", pos < ArenaSize
    PROVE  pos \in Headers /\ pos + size[pos] \in (Headers \cup {ArenaSize}) \cap (0 .. ArenaSize)
  <1>1. pos \in Headers
    BY DEF Layout
  <1>2. pos + size[pos] \in Headers \cup {ArenaSize}
    BY <1>1 DEF Layout, Tiling
  <1> QED BY <1>1, <1>2 DEF Layout, Addr

LEMMA LayoutCollect == Layout /\ Collect => Layout'
  <1> SUFFICES ASSUME Layout, Collect PROVE Layout'
    OBVIOUS
  <1>1. /\ pos \in Headers /\ pos \in Addr
        /\ pos' \in (Headers \cup {ArenaSize}) \cap (0 .. ArenaSize)
    BY NextHeader DEF Collect, Layout
  <1>2. /\ Headers' = Headers /\ UNCHANGED <<size, request, phase>>
        /\ DOMAIN values' = Headers
        /\ class' \in [Headers -> Classes \cup {Null}]
    BY DEF Collect, blocks, Headers, Layout
  <1>3. FreeBlocks' = FreeBlocks \cup {pos} /\ pos \notin FreeBlocks
    BY <1>1, <1>2 DEF Collect, FreeBlocks, Objects, Layout
  <1>4. freeList' \in Seq(Addr) /\ FreeListExact'
    BY <1>1, <1>3, AppendNew DEF Collect, Layout, FreeListExact
  <1>5. Tiling'
    BY <1>2 DEF Tiling, Layout
  <1> QED BY <1>1, <1>2, <1>4, <1>5 DEF Layout

LEMMA LayoutSort == Layout /\ SortFreeList => Layout'
  <1> SUFFICES ASSUME Layout, SortFreeList PROVE Layout'
    OBVIOUS
  <1>1. /\ UNCHANGED <<size, class, values, request, pos>>
        /\ phase' = "coalesce"
    BY DEF SortFreeList, blocks
  <1>2. PICK s \in [1 .. Len(freeList) -> ToSet(freeList)] :
            Ascending(s) /\ ToSet(s) = ToSet(freeList) /\ freeList' = s
    BY DEF SortFreeList
  <1>3. ToSet(freeList) \subseteq Addr
    BY DEF Layout, ToSet
  <1>4. s \in Seq(Addr)
    <2>1. Len(freeList) \in Nat
      BY DEF Layout
    <2>2. s \in [1 .. Len(freeList) -> Addr]
      BY <1>3
    <2> QED BY <2>1, <2>2, SeqDef
  <1>5. IsInjective(s)
    <2>1. ASSUME NEW j \in DOMAIN s, NEW k \in DOMAIN s, j < k PROVE s[j] # s[k]
      BY <1>2, <1>4, <2>1 DEF Ascending, Addr
    <2>2. DOMAIN s \subseteq Nat
      BY <1>4
    <2>3. \A j, k \in DOMAIN s : j < k \/ k < j \/ j = k
      BY <2>2
    <2> QED BY <2>1, <2>3 DEF IsInjective
  <1>6. Headers' = Headers /\ FreeBlocks' = FreeBlocks
    BY <1>1 DEF Headers, Objects, FreeBlocks
  <1>7. Tiling'
    BY <1>1, <1>6 DEF Layout, Tiling
  <1>8. FreeListExact'
    BY <1>2, <1>5, <1>6 DEF Layout, FreeListExact
  <1> QED BY <1>1, <1>2, <1>4, <1>6, <1>7, <1>8 DEF Layout

(* Merging a free block with the one that follows it in memory: the headers
   still tile the arena. *)
LEMMA MergeTiling ==
    ASSUME Layout, NEW a \in Headers, NEW b \in Headers, b = a + size[a],
           size' = [h \in Headers \ {b} |-> IF h = a THEN size[a] + size[b] ELSE size[h]]
    PROVE  /\ Headers' = Headers \ {b}
           /\ size' \in [Headers' -> 1 .. ArenaSize]
           /\ Tiling'
  <1>1. /\ a \in Addr /\ b \in Addr
        /\ size[a] \in 1 .. ArenaSize /\ size[b] \in 1 .. ArenaSize
        /\ a < b
    BY DEF Layout, Addr
  <1>2. Headers' = Headers \ {b} /\ a \in Headers'
    <2>1. DOMAIN (size') = Headers \ {b}
      OBVIOUS
    <2>2. Headers' = DOMAIN (size')
      BY DEF Headers
    <2> QED BY <1>1, <2>1, <2>2 DEF Addr
  <1>3. b + size[b] \in Headers \cup {ArenaSize}
    BY DEF Layout, Tiling
  <1>4. b + size[b] <= ArenaSize
    BY <1>1, <1>3 DEF Layout, Addr
  <1>5. size' \in [Headers' -> 1 .. ArenaSize]
    <2>1. size[a] + size[b] \in 1 .. ArenaSize
      BY <1>1, <1>4 DEF Addr
    <2> QED BY <1>2, <2>1 DEF Layout
  <1>6. 0 \in Headers'
    BY <1>1, <1>2 DEF Layout, Tiling, Addr
  <1>7. ASSUME NEW h \in Headers' PROVE h + size'[h] \in Headers' \cup {ArenaSize}
    <2>1. CASE h = a
      <3>1. h + size'[h] = b + size[b]
        BY <1>1, <1>2, <2>1 DEF Addr
      <3>2. b + size[b] # b
        BY <1>1 DEF Addr
      <3> QED BY <1>2, <1>3, <3>1, <3>2
    <2>2. CASE h # a
      <3>1. /\ size'[h] = size[h] /\ h \in Headers /\ h \in Addr
            /\ size[h] \in 1 .. ArenaSize
        BY <1>2, <2>2 DEF Layout
      <3>2. h + size[h] \in Headers \cup {ArenaSize}
        BY <3>1 DEF Layout, Tiling
      <3>3. h < a => h + size[h] <= a
        BY <3>1 DEF Layout, Tiling
      <3>4. a < h => b <= h
        BY <3>1 DEF Layout, Tiling
      <3>5. h + size[h] # b
        BY <1>1, <2>2, <3>1, <3>3, <3>4 DEF Addr
      <3> QED BY <1>2, <3>1, <3>2, <3>5
    <2> QED BY <2>1, <2>2
  <1>8. ASSUME NEW x \in Headers', NEW y \in Headers', x < y PROVE x + size'[x] <= y
    <2>1. x \in Headers /\ y \in Headers /\ y # b /\ y \in Addr /\ x \in Addr
      BY <1>2 DEF Layout
    <2>2. x + size[x] <= y
      BY <1>8, <2>1 DEF Layout, Tiling
    <2>3. CASE x = a
      <3>1. b < y
        BY <1>1, <2>1, <2>2, <2>3 DEF Addr
      <3>2. b + size[b] <= y
        BY <2>1, <3>1 DEF Layout, Tiling
      <3> QED BY <1>1, <1>2, <2>1, <2>3, <3>2 DEF Addr
    <2>4. CASE x # a
      BY <1>2, <2>2, <2>4
    <2> QED BY <2>3, <2>4
  <1> QED BY <1>2, <1>5, <1>6, <1>7, <1>8 DEF Tiling

LEMMA LayoutCoalesce == Layout /\ Coalesce => Layout'
  <1> SUFFICES ASSUME Layout, Coalesce PROVE Layout'
    OBVIOUS
  <1>1. PICK i \in DOMAIN freeList :
            /\ Adjacent(i)
            /\ size' = [h \in Headers \ {freeList[i]} |->
                          IF h = freeList[i - 1]
                            THEN size[freeList[i - 1]] + size[freeList[i]] ELSE size[h]]
            /\ class' = [h \in Headers \ {freeList[i]} |-> class[h]]
            /\ values' = [h \in Headers \ {freeList[i]} |-> values[h]]
            /\ freeList' = Unlink(i)
    BY DEF Coalesce
  <1>2. UNCHANGED <<request, phase, pos>> /\ phase = "coalesce"
    BY DEF Coalesce
  <1> DEFINE a == freeList[i - 1]
             b == freeList[i]
  <1>3. i - 1 \in DOMAIN freeList /\ b = a + size[a]
    BY <1>1 DEF Adjacent, Layout
  <1>4. a \in FreeBlocks /\ b \in FreeBlocks
    BY <1>1, <1>3 DEF Layout, FreeListExact, ToSet
  <1>5. a \in Headers /\ b \in Headers
    BY <1>4 DEF FreeBlocks
  <1>6. Headers' = Headers \ {b} /\ size' \in [Headers' -> 1 .. ArenaSize] /\ Tiling'
    BY <1>1, <1>3, <1>5, MergeTiling
  <1>7. FreeBlocks' = FreeBlocks \ {b}
    BY <1>1, <1>5, <1>6 DEF FreeBlocks, Objects
  <1>8. freeList' \in Seq(Addr) /\ FreeListExact'
    BY <1>1, <1>7, RemoveAtInjective DEF Unlink, Layout, FreeListExact
  <1> QED BY <1>1, <1>2, <1>6, <1>8 DEF Layout

(* Splitting a block puts one new header into its middle: the headers still
   tile the arena. *)
LEMMA SplitTiling ==
    ASSUME Layout, NEW a \in Headers, NEW n \in Nat \ {0}, n < size[a],
           size' = [h \in Headers \cup {a + n} |->
                      IF h = a THEN n ELSE IF h \in Headers THEN size[h] ELSE size[a] - n]
    PROVE  /\ a + n \in Addr \ Headers
           /\ Headers' = Headers \cup {a + n}
           /\ size' \in [Headers' -> 1 .. ArenaSize]
           /\ Tiling'
  <1> DEFINE b == a + n
  <1>1. /\ a \in Nat /\ a < ArenaSize /\ a \in Addr
        /\ size[a] \in 1 .. ArenaSize /\ n \in Nat /\ 0 < n
    BY DEF Layout, Addr
  <1>2. a + size[a] \in Headers \cup {ArenaSize} /\ a + size[a] <= ArenaSize
    <2>1. a + size[a] \in Headers \cup {ArenaSize}
      BY DEF Layout, Tiling
    <2> QED BY <2>1 DEF Layout, Addr
  <1>3. b \in Nat /\ a < b /\ b < a + size[a] /\ b \in Addr
    BY <1>1, <1>2 DEF Addr
  <1>4. b \notin Headers
    <2> SUFFICES ASSUME b \in Headers PROVE FALSE
      OBVIOUS
    <2>1. a + size[a] <= b
      BY <1>3 DEF Layout, Tiling
    <2> QED BY <1>1, <1>3, <2>1
  <1>5. Headers' = Headers \cup {b}
    <2>1. DOMAIN (size') = Headers \cup {b}
      OBVIOUS
    <2> QED BY <2>1 DEF Headers
  <1>6. /\ size'[a] = n
        /\ size'[b] = size[a] - n
        /\ \A h \in Headers \ {a} : size'[h] = size[h]
    BY <1>3, <1>4
  <1> HIDE DEF b
  <1>7. size' \in [Headers' -> 1 .. ArenaSize]
    <2>1. n \in 1 .. ArenaSize /\ size[a] - n \in 1 .. ArenaSize
      BY <1>1
    <2> QED BY <1>5, <2>1 DEF Layout, b
  <1>8. 0 \in Headers'
    BY <1>5 DEF Layout, Tiling
  <1>9. ASSUME NEW h \in Headers' PROVE h + size'[h] \in Headers' \cup {ArenaSize}
    <2>1. CASE h = a
      BY <1>5, <1>6, <2>1 DEF b
    <2>2. CASE h = b
      <3>1. b + (size[a] - n) = a + size[a]
        BY <1>1 DEF b
      <3> QED BY <1>2, <1>5, <1>6, <2>2, <3>1
    <2>3. CASE h \in Headers \ {a}
      BY <1>5, <1>6, <2>3 DEF Layout, Tiling
    <2> QED BY <1>5, <2>1, <2>2, <2>3
  <1>10. ASSUME NEW x \in Headers', NEW y \in Headers', x < y PROVE x + size'[x] <= y
    <2>1. \A h \in Headers : h \in Nat /\ size[h] \in Nat /\ h + size[h] \in Nat
      BY DEF Layout, Addr
    <2>2. \A h, k \in Headers : h < k => h + size[h] <= k
      BY DEF Layout, Tiling
    <2>3. CASE x = a /\ y = b
      BY <1>1, <1>6, <2>3 DEF b
    <2>4. CASE x = a /\ y \in Headers \ {a}
      <3>1. a + size[a] <= y
        BY <1>10, <2>2, <2>4
      <3> QED BY <1>1, <1>6, <2>1, <2>4, <3>1
    <2>5. CASE x = b /\ y \in Headers
      <3>1. a < y
        BY <1>1, <1>3, <1>10, <2>1, <2>5
      <3>2. a + size[a] <= y
        BY <2>2, <2>5, <3>1
      <3>3. b + (size[a] - n) = a + size[a]
        BY <1>1 DEF b
      <3> QED BY <1>6, <2>5, <3>2, <3>3
    <2>6. CASE x \in Headers \ {a} /\ y = b
      <3>1. x < a
        <4> SUFFICES ASSUME a < x PROVE FALSE
          BY <1>1, <2>1, <2>6
        <4>1. a + size[a] <= x
          BY <2>2, <2>6
        <4> QED BY <1>1, <1>3, <1>10, <2>1, <2>6, <4>1
      <3>2. x + size[x] <= a
        BY <2>2, <2>6, <3>1
      <3> QED BY <1>1, <1>3, <1>6, <2>1, <2>6, <3>2
    <2>7. CASE x \in Headers \ {a} /\ y \in Headers
      BY <1>6, <1>10, <2>2, <2>7
    <2> QED BY <1>5, <1>10, <2>3, <2>4, <2>5, <2>6, <2>7, <1>1, <2>1, <1>3
  <1> QED BY <1>3, <1>4, <1>5, <1>7, <1>8, <1>9, <1>10 DEF Tiling, b

LEMMA LayoutAllocate == Layout /\ Allocate => Layout'
  <1> SUFFICES ASSUME Layout, Allocate PROVE Layout'
    OBVIOUS
  <1>1. phase = "alloc" /\ request \in Requests /\ ObjSize(request) \in Nat \ {0}
    BY ObjSizePositive DEF Allocate, Layout
  <1>2. UNCHANGED pos /\ request' = Null /\ phase' = "idle"
    BY DEF Allocate
  <1>3. PICK i \in DOMAIN freeList :
            FirstFit(i, ObjSize(request)) /\ Carve(i, request.class, ObjSize(request))
    BY DEF Allocate
  <1> DEFINE a == freeList[i]
             n == ObjSize(request)
             c == request.class
             b == a + n
             rest == size[a] - n
  <1>4. a \in FreeBlocks /\ a \in Headers /\ a \in Addr
    BY DEF Layout, FreeListExact, FreeBlocks, ToSet
  <1>5. size[a] \in 1 .. ArenaSize /\ n <= size[a] /\ rest \in Nat
    BY <1>1, <1>3, <1>4 DEF Layout, FirstFit
  <1>6. c \in Classes /\ c # Null
    BY <1>1 DEF Requests
  <1>7. /\ RemoveAt(freeList, i) \in Seq(Addr)
        /\ IsInjective(RemoveAt(freeList, i))
        /\ ToSet(RemoveAt(freeList, i)) = FreeBlocks \ {a}
    BY RemoveAtInjective DEF Layout, FreeListExact
  <1>8. CASE Splits(rest)
    <2>1. /\ size' = [h \in Headers \cup {b} |->
                        IF h = a THEN n ELSE IF h \in Headers THEN size[h] ELSE size[a] - n]
          /\ class' = [h \in Headers \cup {b} |->
                        IF h = a THEN c ELSE IF h \in Headers THEN class[h] ELSE Null]
          /\ DOMAIN values' = Headers \cup {b}
          /\ freeList' = Append(RemoveAt(freeList, i), b)
      BY <1>3, <1>8 DEF Carve, BlockLen, Unlink
    <2>2. n < size[a] /\ n \in Nat \ {0}
      BY <1>1, <1>5, <1>8 DEF Splits
    <2>3. /\ b \in Addr \ Headers /\ Headers' = Headers \cup {b}
          /\ size' \in [Headers' -> 1 .. ArenaSize] /\ Tiling'
      <3> HIDE DEF a, n
      <3> QED BY <1>4, <2>1, <2>2, SplitTiling
    <2>4. FreeBlocks' = (FreeBlocks \ {a}) \cup {b}
      <3> HIDE DEF a, b, n, c
      <3>1. /\ class'[a] = c
            /\ class'[b] = Null
            /\ \A h \in Headers \ {a} : class'[h] = class[h]
        BY <1>4, <2>1, <2>3
      <3>2. \A h \in Headers' : h \in FreeBlocks' <=> class'[h] = Null
        BY DEF FreeBlocks, Objects
      <3> QED BY <1>4, <1>6, <2>3, <3>1, <3>2 DEF FreeBlocks, Objects
    <2>5. freeList' \in Seq(Addr) /\ FreeListExact'
      <3>1. b \notin ToSet(RemoveAt(freeList, i)) /\ b \in Addr
        BY <1>7, <2>3 DEF FreeBlocks
      <3> QED BY <1>7, <2>1, <2>4, <3>1, AppendNew DEF FreeListExact
    <2>6. class' \in [Headers' -> Classes \cup {Null}]
      BY <1>6, <2>1, <2>3 DEF Layout
    <2> QED BY <1>2, <2>1, <2>3, <2>5, <2>6 DEF Layout
  <1>9. CASE ~Splits(rest)
    <2>1. /\ size' = [h \in Headers |-> IF h = a THEN size[a] ELSE size[h]]
          /\ class' = [h \in Headers |-> IF h = a THEN c ELSE class[h]]
          /\ DOMAIN values' = Headers
          /\ freeList' = RemoveAt(freeList, i)
      BY <1>3, <1>9 DEF Carve, BlockLen, Unlink
    <2>2. size' = size /\ Headers' = Headers
      BY <1>4, <2>1 DEF Layout, Headers
    <2>3. FreeBlocks' = FreeBlocks \ {a}
      BY <1>4, <1>6, <2>1, <2>2 DEF FreeBlocks, Objects
    <2>4. freeList' \in Seq(Addr) /\ FreeListExact'
      BY <1>7, <2>1, <2>3 DEF FreeListExact
    <2>5. class' \in [Headers' -> Classes \cup {Null}]
      BY <1>6, <2>1, <2>2 DEF Layout
    <2> QED BY <1>2, <2>1, <2>2, <2>4, <2>5 DEF Layout, Tiling
  <1> QED BY <1>8, <1>9

(* The script and the marking leave the arena alone. *)
LEMMA LayoutScript == Layout /\ Script => Layout'
  <1> SUFFICES ASSUME Layout, Script PROVE Layout'
    OBVIOUS
  <1>1. ASSUME NEW r \in Roots, NEW v \in Visible, SetRoot(r, v) PROVE Layout'
    BY <1>1, LayoutKept DEF SetRoot, blocks, Layout
  <1>2. ASSUME NEW a \in Rooted, NEW v \in Visible, NEW i \in DOMAIN values[a],
               SetValue(a, i, v)
        PROVE  Layout'
    <2>1. DOMAIN values' = DOMAIN values
      BY <1>2 DEF SetValue
    <2> QED BY <1>2, <2>1, LayoutKept DEF SetValue, Layout
  <1>3. ASSUME NEW q \in Requests, Request(q) PROVE Layout'
    BY <1>3, LayoutKept DEF Request, StartMark, blocks
  <1>4. CASE Shutdown
    BY <1>4, LayoutKept DEF Shutdown, StartMark, blocks, Layout
  <1> QED BY <1>1, <1>2, <1>3, <1>4 DEF Script

LEMMA LayoutMark == Layout /\ Mark => Layout'
  <1> SUFFICES ASSUME Layout, Mark PROVE Layout'
    OBVIOUS
  <1>1. CASE MarkRoot
    BY <1>1, LayoutKept DEF MarkRoot, Visit, blocks, Layout
  <1>2. CASE MarkValue
    BY <1>2, LayoutKept DEF MarkValue, Visit, blocks, Layout
  <1>3. CASE MarkReturn
    BY <1>3, LayoutKept DEF MarkReturn, blocks, Layout
  <1>4. CASE StartSweep
    <2>1. 0 \in Headers /\ 0 \in 0 .. ArenaSize
      BY DEF Layout, Tiling
    <2>2. UNCHANGED <<size, class, values, freeList, request>> /\ pos' = 0 /\ phase' = "sweep"
      BY <1>4 DEF StartSweep, blocks
    <2> QED BY <2>1, <2>2 DEF Layout, Tiling, FreeListExact, Headers, FreeBlocks, Objects
  <1> QED BY <1>1, <1>2, <1>3, <1>4 DEF Mark

(* gcArena returns to allocateObject or to the destructor. *)
LEMMA LayoutResume ==
    ASSUME Layout, UNCHANGED <<size, class, values, freeList, request>>, Resume
    PROVE  Layout'
  BY DEF Resume, Layout, Tiling, FreeListExact, Headers, FreeBlocks, Objects

LEMMA LayoutStep == Layout /\ [Next]_vars => Layout'
  <1> SUFFICES ASSUME Layout, [Next]_vars PROVE Layout'
    OBVIOUS
  <1>1. CASE Script
    BY <1>1, LayoutScript
  <1>2. CASE Mark
    BY <1>2, LayoutMark
  <1>3. CASE Keep
    <2>1. pos' \in (Headers \cup {ArenaSize}) \cap (0 .. ArenaSize)
      BY <1>3, NextHeader DEF Keep
    <2>2. UNCHANGED <<size, class, values, freeList, request, phase>>
      BY <1>3 DEF Keep, blocks
    <2> QED BY <2>1, <2>2 DEF Layout, Tiling, FreeListExact, Headers, FreeBlocks, Objects
  <1>4. CASE Collect
    BY <1>4, LayoutCollect
  <1>5. CASE NothingFreed
    BY <1>5, LayoutResume DEF NothingFreed, blocks
  <1>6. CASE SortFreeList
    BY <1>6, LayoutSort
  <1>7. CASE Coalesce
    BY <1>7, LayoutCoalesce
  <1>8. CASE Coalesced
    BY <1>8, LayoutResume DEF Coalesced, blocks
  <1>9. CASE Allocate
    BY <1>9, LayoutAllocate
  <1>10. CASE NoSpace
    BY <1>10, LayoutKept DEF NoSpace, blocks, Layout
  <1>11. CASE Ended \/ UNCHANGED vars
    BY <1>11, LayoutKept DEF Ended, vars, blocks, Layout
  <1> QED BY <1>1, <1>2, <1>3, <1>4, <1>5, <1>6, <1>7, <1>8, <1>9, <1>10, <1>11
          DEF Next, Runtime, Sweep, Merge

(* Whatever is allocated, split, freed, sorted and merged, in any order: header
   by header the blocks cover the arena without gap or overlap. *)
THEOREM TilingTheorem == Spec => []Tiling
  <1>1. Layout => Tiling
    BY DEF Layout
  <1> QED BY <1>1, InitLayout, LayoutStep, PTL DEF Spec

(* m_freeList holds exactly the free blocks, each once. *)
THEOREM FreeListTheorem == Spec => []FreeListExact
  <1>1. Layout => FreeListExact
    BY DEF Layout
  <1> QED BY <1>1, InitLayout, LayoutStep, PTL DEF Spec

-----------------------------------------------------------------------------
(***************************************************************************)
(* Free blocks: NoAdjacentFree.                                            *)
(***************************************************************************)
Apart == \A a, b \in FreeBlocks : a + size[a] # b

(* Free blocks are apart until a sweep frees something, and then the list is
   sorted until they are apart again. *)
Merged ==
    /\ (phase = "sweep" /\ ~freed) \/ phase \notin {"sweep", "coalesce"} => Apart
    /\ phase = "coalesce" => Ascending(freeList)

LEMMA InitMerged == Init => Merged
  <1> SUFFICES ASSUME Init PROVE Merged
    OBVIOUS
  <1>1. FreeBlocks = {0} /\ size[0] = ArenaSize
    BY DEF Init, FreeBlocks, Objects, Headers
  <1>2. Apart
    BY <1>1 DEF Apart
  <1> QED BY <1>2 DEF Init, Merged

(* A sorted list none of whose neighbours touch: no two free blocks touch. *)
LEMMA SortedApart ==
    ASSUME Layout, Ascending(freeList), \A i \in DOMAIN freeList : ~Adjacent(i)
    PROVE  Apart
  <1> SUFFICES ASSUME NEW a \in FreeBlocks, NEW b \in FreeBlocks, a + size[a] = b
               PROVE  FALSE
    BY DEF Apart
  <1>1. PICK j \in DOMAIN freeList, k \in DOMAIN freeList : freeList[j] = a /\ freeList[k] = b
    BY DEF Layout, FreeListExact, ToSet
  <1>2. /\ a \in Headers /\ b \in Headers /\ a \in Addr /\ b \in Addr
        /\ size[a] \in 1 .. ArenaSize
    BY DEF FreeBlocks, Layout
  <1>3. a < b
    BY <1>2 DEF Addr
  <1>4. DOMAIN freeList = 1 .. Len(freeList) /\ Len(freeList) \in Nat
    BY DEF Layout
  <1>5. j < k
    <2>1. j # k /\ ~(k < j)
      BY <1>1, <1>2, <1>3 DEF Ascending, Addr
    <2> QED BY <1>4, <2>1
  <1>6. CASE k = j + 1
    <2>1. k \in 2 .. Len(freeList) /\ k - 1 = j
      BY <1>4, <1>6
    <2>2. Adjacent(k)
      BY <1>1, <2>1 DEF Adjacent
    <2> QED BY <2>2
  <1>7. CASE k # j + 1
    <2>1. PICK l \in DOMAIN freeList : j < l /\ l < k
      <3>1. j + 1 \in DOMAIN freeList /\ j < j + 1 /\ j + 1 < k
        BY <1>4, <1>5, <1>7
      <3> QED BY <3>1
    <2>2. a < freeList[l] /\ freeList[l] < b
      BY <1>1, <2>1 DEF Ascending
    <2>3. freeList[l] \in Headers /\ freeList[l] \in Addr
      BY DEF Layout, FreeListExact, ToSet, FreeBlocks
    <2>4. a + size[a] <= freeList[l]
      BY <1>2, <2>2, <2>3 DEF Layout, Tiling
    <2> QED BY <1>2, <2>2, <2>3, <2>4 DEF Addr
  <1> QED BY <1>6, <1>7

(* A step that leaves the blocks alone. *)
LEMMA MergedKept ==
    ASSUME Merged, UNCHANGED <<size, class>>,
           phase \notin {"sweep", "coalesce"} \/ (phase = "sweep" /\ ~freed),
           phase' # "coalesce"
    PROVE  Merged'
  BY DEF Merged, Apart, FreeBlocks, Objects, Headers

(* list::erase leaves a sorted list sorted. *)
LEMMA RemoveAtAscending ==
    ASSUME NEW s \in Seq(Addr), Ascending(s), NEW i \in DOMAIN s
    PROVE  Ascending(RemoveAt(s, i))
  <1>1. /\ i \in 1 .. Len(s) /\ Len(s) \in Nat
        /\ DOMAIN s = 1 .. Len(s)
    OBVIOUS
  <1>2. PICK r : r = RemoveAt(s, i)
    OBVIOUS
  <1>3. /\ DOMAIN r = 1 .. Len(s) - 1
        /\ \A j \in 1 .. Len(s) - 1 : r[j] = IF j < i THEN s[j] ELSE s[j + 1]
    <2>1. r \in Seq(Addr) /\ Len(r) = Len(s) - 1
      BY <1>1, <1>2, RemoveAtProperties
    <2>2. DOMAIN r = 1 .. Len(r)
      BY <2>1
    <2> QED BY <1>1, <1>2, <2>1, <2>2, RemoveAtProperties
  <1>4. ASSUME NEW j \in DOMAIN r, NEW k \in DOMAIN r, j < k PROVE r[j] < r[k]
    <2>1. PICK p \in DOMAIN s : r[j] = s[p] /\ p = IF j < i THEN j ELSE j + 1
      BY <1>1, <1>3
    <2>2. PICK q \in DOMAIN s : r[k] = s[q] /\ q = IF k < i THEN k ELSE k + 1
      BY <1>1, <1>3
    <2>3. p < q
      BY <1>1, <1>3, <1>4, <2>1, <2>2
    <2> QED BY <2>1, <2>2, <2>3 DEF Ascending
  <1> QED BY <1>2, <1>4 DEF Ascending

(* What is split off a free block ends where the block ended, and begins in
   the middle of it: it touches no other free block. *)
LEMMA MergedAllocate == Layout /\ Merged /\ Allocate => Merged'
  <1> SUFFICES ASSUME Layout, Merged, Allocate PROVE Merged'
    OBVIOUS
  <1>1. /\ phase = "alloc" /\ phase' = "idle" /\ Apart
        /\ request \in Requests /\ ObjSize(request) \in Nat \ {0}
    BY ObjSizePositive DEF Allocate, Layout, Merged
  <1>2. PICK i \in DOMAIN freeList :
            FirstFit(i, ObjSize(request)) /\ Carve(i, request.class, ObjSize(request))
    BY DEF Allocate
  <1>3. PICK a \in FreeBlocks : a = freeList[i]
    BY DEF Layout, FreeListExact, ToSet
  <1>4. PICK n \in Nat \ {0} : n = ObjSize(request)
    BY <1>1
  <1>5. PICK c \in Classes : c = request.class /\ c # Null
    BY <1>1 DEF Requests
  <1>6. /\ a \in Headers /\ a \in Addr /\ size[a] \in 1 .. ArenaSize /\ n <= size[a]
    BY <1>2, <1>3, <1>4 DEF FreeBlocks, Layout, FirstFit
  <1>7. CASE Splits(size[a] - n)
    <2>1. /\ size' = [h \in Headers \cup {a + n} |->
                        IF h = a THEN n ELSE IF h \in Headers THEN size[h] ELSE size[a] - n]
          /\ class' = [h \in Headers \cup {a + n} |->
                        IF h = a THEN c ELSE IF h \in Headers THEN class[h] ELSE Null]
      BY <1>2, <1>3, <1>4, <1>5, <1>7 DEF Carve, BlockLen
    <2>2. n < size[a]
      BY <1>6, <1>7 DEF Splits
    <2>3. a + n \in Addr \ Headers /\ Headers' = Headers \cup {a + n}
      BY <1>6, <2>1, <2>2, SplitTiling
    <2>4. /\ FreeBlocks' \subseteq (FreeBlocks \ {a}) \cup {a + n}
          /\ size'[a + n] = size[a] - n
          /\ \A h \in FreeBlocks \ {a} : size'[h] = size[h]
      BY <1>5, <1>6, <2>1, <2>3 DEF FreeBlocks, Objects
    <2>5. ASSUME NEW x \in FreeBlocks', NEW y \in FreeBlocks' PROVE x + size'[x] # y
      <3>1. CASE x # a + n /\ y # a + n
        BY <1>1, <2>4, <3>1 DEF Apart
      <3>2. CASE x = a + n
        <4>1. x + size'[x] = a + size[a]
          BY <1>6, <2>2, <2>4, <3>2 DEF Addr
        <4>2. y # a + n => y \in FreeBlocks
          BY <2>4
        <4>3. y = a + n => a + size[a] # y
          BY <1>6, <2>2 DEF Addr
        <4> QED BY <1>1, <4>1, <4>2, <4>3 DEF Apart
      <3>3. CASE x # a + n /\ y = a + n
        <4>1. x \in Headers /\ x # a /\ x \in Addr /\ size[x] \in 1 .. ArenaSize
              /\ size'[x] = size[x]
          BY <2>4, <3>3 DEF FreeBlocks, Layout
        <4>2. x < a => x + size[x] <= a
          BY <1>6, <4>1 DEF Layout, Tiling
        <4>3. a < x => a + size[a] <= x
          BY <1>6, <4>1 DEF Layout, Tiling
        <4> QED BY <1>6, <2>2, <3>3, <4>1, <4>2, <4>3 DEF Addr
      <3> QED BY <3>1, <3>2, <3>3
    <2> QED BY <1>1, <2>5 DEF Merged, Apart
  <1>8. CASE ~Splits(size[a] - n)
    <2>1. /\ size' = [h \in Headers |-> IF h = a THEN size[a] ELSE size[h]]
          /\ class' = [h \in Headers |-> IF h = a THEN c ELSE class[h]]
      BY <1>2, <1>3, <1>4, <1>5, <1>8 DEF Carve, BlockLen
    <2>2. size' = size /\ Headers' = Headers
      BY <2>1 DEF Layout, Headers
    <2>3. FreeBlocks' \subseteq FreeBlocks
      BY <1>5, <1>6, <2>1, <2>2 DEF FreeBlocks, Objects
    <2> QED BY <1>1, <2>2, <2>3 DEF Merged, Apart
  <1> QED BY <1>7, <1>8

LEMMA MergedStep == Layout /\ Merged /\ [Next]_vars => Merged'
  <1> SUFFICES ASSUME Layout, Merged, [Next]_vars PROVE Merged'
    OBVIOUS
  <1>1. CASE Script
    BY <1>1, MergedKept DEF Script, SetRoot, SetValue, Request, Shutdown, StartMark, blocks
  <1>2. CASE Mark
    BY <1>2, MergedKept DEF Mark, MarkRoot, MarkValue, MarkReturn, StartSweep, Visit, blocks
  <1>3. CASE Keep
    BY <1>3 DEF Keep, blocks, Merged, Apart, FreeBlocks, Objects, Headers
  <1>4. CASE Collect
    BY <1>4 DEF Collect, Merged
  <1>5. CASE NothingFreed
    BY <1>5, MergedKept DEF NothingFreed, Resume, blocks
  <1>6. CASE SortFreeList
    BY <1>6 DEF SortFreeList, Merged
  <1>7. CASE Coalesce
    BY <1>7, RemoveAtAscending DEF Coalesce, Unlink, Merged, Layout
  <1>8. CASE Coalesced
    <2>1. Apart
      BY <1>8, SortedApart DEF Coalesced, Merged
    <2>2. UNCHANGED <<size, class>> /\ phase' \in {"down", "alloc"}
      BY <1>8 DEF Coalesced, Resume, blocks
    <2> QED BY <2>1, <2>2 DEF Merged, Apart, FreeBlocks, Objects, Headers
  <1>9. CASE Allocate
    BY <1>9, MergedAllocate
  <1>10. CASE NoSpace
    BY <1>10, MergedKept DEF NoSpace, blocks
  <1>11. CASE Ended \/ UNCHANGED vars
    BY <1>11 DEF Ended, vars, blocks, Merged, Apart, FreeBlocks, Objects, Headers
  <1> QED BY <1>1, <1>2, <1>3, <1>4, <1>5, <1>6, <1>7, <1>8, <1>9, <1>10, <1>11
          DEF Next, Runtime, Sweep, Merge

(* While scripts run no two free blocks touch, whatever was split, absorbed
   and swept: gcArena's one pass over the sorted list finds every pair. *)
THEOREM NoAdjacentTheorem == Spec => []NoAdjacentFree
  <1>1. Merged => NoAdjacentFree
    BY DEF Merged, Apart, NoAdjacentFree
  <1> QED BY <1>1, InitLayout, LayoutStep, InitMerged, MergedStep, PTL DEF Spec

-----------------------------------------------------------------------------
(***************************************************************************)
(* The graph of the objects: NoDangling and TypeOK.                        *)
(***************************************************************************)
(* Roots and objects in use refer to objects; external ones refer to nothing. *)
Graph ==
    /\ \A a \in Objects : values[a] \in [Slots(size[a]) -> Addr \cup {Null}]
    /\ root \in [Roots -> Addr \cup {Null}]
    /\ \A a \in external : a \in Objects /\ class[a] = StringClass
    /\ \A a \in Objects : class[a] = StringClass => Children(a) = {}
    /\ NoDangling

(* While it marks: what a marked object refers to is marked, or the recursion
   has still to come to it. *)
Covered(a, i) ==
    \/ values[a][i] \in {Null} \cup marked \cup external
    \/ \E k \in DOMAIN frames : frames[k].obj = a /\ frames[k].next <= i

MarksCover ==
    /\ Rooted \subseteq pending \cup marked \cup external
    /\ \A a \in marked : \A i \in DOMAIN values[a] : Covered(a, i)

(* While it sweeps: the survivors are closed under reference, and what has
   been passed has survived. *)
SurvivorsClosed ==
    /\ Rooted \subseteq marked \cup external
    /\ \A a \in marked : Children(a) \subseteq marked \cup external
    /\ \A a \in Objects : a < pos => Survives(a)

Marking ==
    /\ marked \subseteq Objects
    /\ pending \subseteq Objects
    /\ frames \in Seq([obj : Objects, next : Nat])
    /\ phase \notin {"mark", "overflow"} => pending = {} /\ frames = <<>>
    /\ phase = "mark" => MarksCover
    /\ phase = "sweep" => SurvivorsClosed
    /\ phase \in Phases
    /\ currentBytes \in Nat
    /\ freed \in BOOLEAN

IInv == Layout /\ Graph /\ Marking

LEMMA InitIInv == Init => IInv
  <1> SUFFICES ASSUME Init PROVE IInv
    OBVIOUS
  <1>1. Layout
    BY InitLayout
  <1>2. Objects = {} /\ Rooted = {} /\ external = {}
    BY DEF Init, Objects, Headers, Rooted
  <1>3. Graph
    BY <1>2 DEF Init, Graph, NoDangling
  <1>4. Marking
    <2>1. frames = <<>> /\ frames \in Seq([obj : Objects, next : Nat])
      BY DEF Init
    <2>2. phase = "idle" /\ marked = {} /\ pending = {} /\ currentBytes = 0 /\ freed = FALSE
      BY DEF Init
    <2> QED BY <2>1, <2>2 DEF Marking, Phases
  <1> QED BY <1>1, <1>3, <1>4 DEF IInv

(* Objects are headers, and NULL is none of them. *)
LEMMA ObjectsAddr ==
    ASSUME Layout
    PROVE  Objects \subseteq Headers /\ Objects \subseteq Addr /\ Null \notin Objects
  <1>1. Objects \subseteq Headers
    BY DEF Objects
  <1>2. Headers \subseteq Addr /\ Null \notin Addr
    BY DEF Layout, Addr
  <1> QED BY <1>1, <1>2

(* What a script can get at is an object. *)
LEMMA VisibleObjects ==
    ASSUME Graph, phase # "sweep"
    PROVE  Visible \subseteq Objects \cup {Null}
  BY DEF Graph, NoDangling, Visible

(* Neither the objects nor what refers to them changes. *)
LEMMA GraphKept ==
    ASSUME Graph, UNCHANGED <<size, class, values, external, root>>,
           phase = "sweep" => UNCHANGED <<phase, marked>>
    PROVE  Graph'
  <1>1. Headers' = Headers /\ Objects' = Objects /\ Rooted' = Rooted
    BY DEF Headers, Objects, Rooted
  <1>2. \A a : Children(a)' = Children(a)
    BY DEF Children
  <1>3. NoDangling'
    <2>1. Rooted' \cup external' \subseteq Objects'
      BY <1>1 DEF Graph, NoDangling
    <2>2. ASSUME NEW a \in Objects', (phase = "sweep" => Survives(a))'
          PROVE  Children(a)' \subseteq Objects'
      <3>1. phase = "sweep" => Survives(a)
        BY <2>2 DEF Survives
      <3> QED BY <1>1, <1>2, <3>1 DEF Graph, NoDangling
    <2> QED BY <2>1, <2>2 DEF NoDangling
  <1> QED BY <1>1, <1>2, <1>3 DEF Graph

LEMMA SetRootIInv ==
    ASSUME IInv, NEW r \in Roots, NEW v \in Visible, SetRoot(r, v)
    PROVE  Graph' /\ Marking'
  <1>1. /\ phase = "idle" /\ root' = [root EXCEPT ![r] = v]
        /\ UNCHANGED <<size, class, values, marked, external, currentBytes, phase, pending,
                       frames, freed>>
    BY DEF SetRoot, blocks, marks
  <1>2. v \in Objects \cup {Null}
    BY <1>1, VisibleObjects DEF IInv
  <1>3. Headers' = Headers /\ Objects' = Objects /\ \A a : Children(a)' = Children(a)
    BY <1>1 DEF Headers, Objects, Children
  <1>4. root' \in [Roots -> Addr \cup {Null}]
    BY <1>1, <1>2, ObjectsAddr DEF IInv, Graph
  <1>5. Rooted' \subseteq Objects
    BY <1>1, <1>2 DEF Rooted, IInv, Graph, NoDangling
  <1>6. NoDangling'
    BY <1>1, <1>3, <1>5 DEF NoDangling, IInv, Graph
  <1>7. Graph'
    BY <1>1, <1>3, <1>4, <1>6 DEF Graph, IInv
  <1>8. Marking'
    BY <1>1, <1>3 DEF Marking, IInv
  <1> QED BY <1>7, <1>8

LEMMA SetValueIInv ==
    ASSUME IInv, NEW a \in Rooted, NEW v \in Visible, NEW i \in DOMAIN values[a],
           SetValue(a, i, v)
    PROVE  Graph' /\ Marking'
  <1>1. /\ phase = "idle" /\ class[a] # StringClass
        /\ values' = [values EXCEPT ![a][i] = v]
        /\ UNCHANGED <<size, class, marked, external, root, currentBytes, phase, pending,
                       frames, freed>>
    BY DEF SetValue, marks
  <1>2. v \in Objects \cup {Null} /\ a \in Objects
    BY <1>1, VisibleObjects DEF IInv, Graph, NoDangling
  <1>3. Headers' = Headers /\ Objects' = Objects /\ Rooted' = Rooted
    BY <1>1 DEF Headers, Objects, Rooted
  <1>4. /\ values'[a] = [values[a] EXCEPT ![i] = v]
        /\ \A b \in Objects \ {a} : values'[b] = values[b]
    BY <1>1, <1>2, ObjectsAddr DEF IInv, Layout
  <1>5. \A b \in Objects \ {a} : Children(b)' = Children(b)
    BY <1>4 DEF Children
  <1>6. Children(a)' \subseteq Children(a) \cup (Objects \cap {v})
    BY <1>2, <1>4 DEF Children
  <1>7. \A b \in Objects' : values'[b] \in [Slots(size[b]) -> Addr \cup {Null}]
    <2>1. v \in Addr \cup {Null}
      BY <1>2, ObjectsAddr DEF IInv
    <2>2. values'[a] \in [Slots(size[a]) -> Addr \cup {Null}]
      BY <1>2, <1>4, <2>1 DEF IInv, Graph
    <2> QED BY <1>3, <1>4, <2>2 DEF IInv, Graph
  <1>8. NoDangling'
    BY <1>1, <1>2, <1>3, <1>5, <1>6 DEF NoDangling, IInv, Graph
  <1>9. Graph'
    BY <1>1, <1>3, <1>5, <1>7, <1>8 DEF Graph, IInv
  <1>10. Marking'
    BY <1>1, <1>3 DEF Marking, IInv
  <1> QED BY <1>9, <1>10

(* A collection starts from the roots, with nothing marked. *)
LEMMA StartMarkIInv ==
    ASSUME IInv, phase = "idle", StartMark,
           UNCHANGED <<size, class, values, external, root, currentBytes, frames, freed>>
    PROVE  Graph' /\ Marking'
  <1>1. Graph'
    BY GraphKept DEF IInv
  <1>2. phase' = "mark" /\ pending' = Rooted /\ marked' = {} /\ frames' = <<>>
    BY DEF StartMark, IInv, Marking
  <1>3. Rooted' = Rooted /\ Rooted' \subseteq Objects' /\ Objects' = Objects
    BY <1>1 DEF Rooted, Graph, NoDangling, Objects, Headers
  <1>4. MarksCover'
    BY <1>2, <1>3 DEF MarksCover
  <1> QED BY <1>1, <1>2, <1>3, <1>4 DEF Marking, IInv, Phases

LEMMA ScriptIInv == IInv /\ Script => Graph' /\ Marking'
  <1> SUFFICES ASSUME IInv, Script PROVE Graph' /\ Marking'
    OBVIOUS
  <1>1. ASSUME NEW q \in Requests, Request(q) PROVE Graph' /\ Marking'
    <2>1. CASE currentBytes >= (ArenaSize \div 4) * 3
      BY <1>1, <2>1, StartMarkIInv DEF Request, blocks
    <2>2. CASE ~(currentBytes >= (ArenaSize \div 4) * 3)
      <3>1. /\ phase = "idle" /\ phase' = "alloc"
            /\ UNCHANGED <<size, class, values, marked, external, root, currentBytes,
                           pending, frames, freed>>
        BY <1>1, <2>2 DEF Request, blocks
      <3>2. Objects' = Objects
        BY <3>1 DEF Objects, Headers
      <3>3. Graph'
        BY <3>1, GraphKept DEF IInv
      <3> QED BY <3>1, <3>2, <3>3 DEF IInv, Marking, Phases
    <2> QED BY <2>1, <2>2
  <1>2. CASE Shutdown
    BY <1>2, StartMarkIInv DEF Shutdown, blocks
  <1> QED BY <1>1, <1>2, SetRootIInv, SetValueIInv DEF Script

Frames == [obj : Objects, next : Nat]

(* The indices of an object's values. *)
LEMMA SlotsNat == ASSUME NEW n, NEW i \in Slots(n) PROVE i \in Int /\ 0 <= i
  BY DEF Slots

LEMMA ValuesOf ==
    ASSUME Graph, NEW a \in Objects, NEW i \in DOMAIN values[a]
    PROVE  /\ i \in Nat
           /\ values[a][i] \in {Null} \cup Children(a)
  <1>1. DOMAIN values[a] = Slots(size[a])
    BY DEF Graph
  <1>2. i \in Int /\ 0 <= i
    BY <1>1, SlotsNat
  <1> QED BY <1>2 DEF Children

(* gcMarkObject marks its argument and puts it on top of the recursion. *)
LEMMA VisitEffect ==
    ASSUME Marking, phase = "mark", NEW a \in Objects, NEW callers \in Seq(Frames),
           Visit(a, callers)
    PROVE  /\ phase' \in {"mark", "overflow"}
           /\ marked \subseteq marked' /\ marked' \subseteq marked \cup {a}
           /\ frames' \in Seq(Frames)
           /\ phase' = "mark" => /\ a \in marked' \cup external
                                 /\ frames' = Append(callers, [obj |-> a, next |-> 0])
  <1>1. CASE Len(callers) = CStack
    BY <1>1 DEF Visit, Marking, Frames
  <1>2. CASE Len(callers) # CStack
    <2>1. /\ marked' = (IF a \in external THEN marked ELSE marked \cup {a})
          /\ frames' = Append(callers, [obj |-> a, next |-> 0])
          /\ phase' = "mark"
      BY <1>2 DEF Visit
    <2>2. [obj |-> a, next |-> 0] \in Frames
      BY DEF Frames
    <2> QED BY <2>1, <2>2
  <1> QED BY <1>1, <1>2

(* After a visit everything is covered again, if only the argument was not. *)
LEMMA VisitCovers ==
    ASSUME IInv, phase = "mark", NEW a \in Objects, NEW callers \in Seq(Frames),
           Visit(a, callers), UNCHANGED <<size, class, values, external, root>>,
           pending' \subseteq pending, pending \subseteq pending' \cup {a},
           \A b \in marked : \A i \in DOMAIN values[b] :
               \/ values[b][i] \in {Null, a} \cup marked \cup external
               \/ \E k \in DOMAIN callers : callers[k].obj = b /\ callers[k].next <= i
    PROVE  phase' = "mark" => MarksCover'
  <1> SUFFICES ASSUME phase' = "mark" PROVE MarksCover'
    OBVIOUS
  <1> DEFINE f == [obj |-> a, next |-> 0]
  <1>1. /\ marked \subseteq marked' /\ marked' \subseteq marked \cup {a}
        /\ a \in marked' \cup external
        /\ frames' = Append(callers, f)
    BY VisitEffect DEF IInv
  <1>2. /\ DOMAIN frames' = 1 .. Len(callers) + 1 /\ DOMAIN callers = 1 .. Len(callers)
        /\ Len(callers) \in Nat
        /\ \A k \in DOMAIN callers : frames'[k] = callers[k]
        /\ frames'[Len(callers) + 1] = f
    BY <1>1
  <1>3. Rooted' \subseteq pending' \cup marked' \cup external'
    BY <1>1 DEF IInv, Marking, MarksCover, Rooted
  <1>4. ASSUME NEW b \in marked', NEW i \in DOMAIN values'[b] PROVE Covered(b, i)'
    <2>1. CASE b \in marked
      <3>1. CASE values[b][i] \in {Null, a} \cup marked \cup external
        BY <1>1, <3>1 DEF Covered
      <3>2. CASE \E k \in DOMAIN callers : callers[k].obj = b /\ callers[k].next <= i
        BY <1>2, <3>2 DEF Covered
      <3> QED BY <1>4, <2>1, <3>1, <3>2
    <2>2. CASE b = a
      <3>1. i \in Nat
        BY <1>4, <2>2, ValuesOf DEF IInv
      <3>2. Len(callers) + 1 \in DOMAIN frames' /\ frames'[Len(callers) + 1].obj = b
            /\ frames'[Len(callers) + 1].next <= i
        BY <1>2, <2>2, <3>1
      <3> QED BY <3>2 DEF Covered
    <2> QED BY <1>1, <2>1, <2>2
  <1> QED BY <1>3, <1>4 DEF MarksCover

LEMMA MarkRootIInv == IInv /\ MarkRoot => Graph' /\ Marking'
  <1> SUFFICES ASSUME IInv, MarkRoot PROVE Graph' /\ Marking'
    OBVIOUS
  <1>1. /\ phase = "mark" /\ frames = <<>>
        /\ UNCHANGED <<size, class, values, external, root, currentBytes, freed>>
    BY DEF MarkRoot, blocks
  <1>2. PICK a \in pending : Visit(a, <<>>) /\ pending' = pending \ {a}
    BY DEF MarkRoot
  <1>3. a \in Objects /\ <<>> \in Seq(Frames) /\ Objects' = Objects
    BY <1>1 DEF IInv, Marking, Objects, Headers
  <1>4. /\ phase' \in {"mark", "overflow"}
        /\ marked' \subseteq marked \cup {a}
        /\ frames' \in Seq(Frames)
    BY <1>1, <1>2, <1>3, VisitEffect DEF IInv
  <1>5. phase' = "mark" => MarksCover'
    <2>1. \A b \in marked : \A i \in DOMAIN values[b] : values[b][i] \in {Null} \cup marked \cup external
      BY <1>1 DEF IInv, Marking, MarksCover, Covered
    <2> QED BY <1>1, <1>2, <1>3, <2>1, VisitCovers
  <1>6. Graph'
    BY <1>1, GraphKept DEF IInv
  <1>7. Marking'
    BY <1>1, <1>2, <1>3, <1>4, <1>5 DEF IInv, Marking, Phases, Frames
  <1> QED BY <1>6, <1>7

(* The topmost activation of gcMarkObject: its object and the ones below it. *)
LEMMA TopFrame ==
    ASSUME Marking, frames # <<>>
    PROVE  /\ Len(frames) \in Nat \ {0}
           /\ Last(frames) = frames[Len(frames)]
           /\ Last(frames) \in Frames
           /\ Front(frames) \in Seq(Frames)
           /\ Len(Front(frames)) = Len(frames) - 1
           /\ \A k \in 1 .. Len(frames) - 1 : Front(frames)[k] = frames[k]
  <1>1. frames \in Seq(Frames)
    BY DEF Marking, Frames
  <1>2. Len(frames) \in Nat \ {0} /\ \A k \in 1 .. Len(frames) : frames[k] \in Frames
    BY <1>1
  <1> QED BY <1>1, <1>2, FrontProperties DEF Last

LEMMA MarkValueIInv == IInv /\ MarkValue => Graph' /\ Marking'
  <1> SUFFICES ASSUME IInv, MarkValue PROVE Graph' /\ Marking'
    OBVIOUS
  <1> DEFINE top == Last(frames)
             callers == Append(Front(frames), Advance(top))
             v == values[top.obj][top.next]
             n == Len(frames)
  <1>1. /\ phase = "mark" /\ frames # <<>> /\ top.next \in DOMAIN values[top.obj]
        /\ v = Null => frames' = callers /\ UNCHANGED <<marked, phase>>
        /\ v # Null => Visit(v, callers)
        /\ UNCHANGED <<size, class, values, external, root, currentBytes, pending, freed>>
    BY DEF MarkValue, blocks
  <1>2. /\ n \in Nat \ {0} /\ top = frames[n] /\ top \in Frames
        /\ Front(frames) \in Seq(Frames) /\ Len(Front(frames)) = n - 1
        /\ \A k \in 1 .. n - 1 : Front(frames)[k] = frames[k]
    BY <1>1, TopFrame DEF IInv
  <1>3. /\ Advance(top) \in Frames
        /\ Advance(top).obj = top.obj /\ Advance(top).next = top.next + 1
    <2>1. top = [obj |-> top.obj, next |-> top.next] /\ top.obj \in Objects /\ top.next \in Nat
      BY <1>2 DEF Frames
    <2>2. Advance(top) = [obj |-> top.obj, next |-> top.next + 1]
      BY <1>2 DEF Advance, Frames
    <2> HIDE DEF top
    <2> QED BY <2>1, <2>2 DEF Frames
  <1>4. /\ callers \in Seq(Frames) /\ DOMAIN callers = 1 .. n
        /\ callers[n] = Advance(top)
        /\ \A k \in 1 .. n - 1 : callers[k] = frames[k]
    BY <1>2, <1>3
  <1>5. DOMAIN frames = 1 .. n
    BY DEF IInv, Marking
  <1> HIDE DEF callers, n, top, v
  <1>6. ASSUME NEW b \in marked, NEW i \in DOMAIN values[b]
        PROVE  \/ values[b][i] \in {Null, v} \cup marked \cup external
               \/ \E k \in DOMAIN callers : callers[k].obj = b /\ callers[k].next <= i
    <2>1. Covered(b, i)
      BY <1>1 DEF IInv, Marking, MarksCover
    <2>2. ASSUME NEW k \in DOMAIN frames, frames[k].obj = b, frames[k].next <= i
          PROVE  \/ values[b][i] = v
                 \/ \E l \in DOMAIN callers : callers[l].obj = b /\ callers[l].next <= i
      <3>1. CASE k \in 1 .. n - 1
        BY <1>2, <1>4, <2>2, <3>1
      <3>2. CASE k = n
        <4>1. i \in Nat /\ top.next \in Nat /\ n \in DOMAIN callers
          BY <1>2, <1>4, ValuesOf DEF IInv, Marking, Frames
        <4>2. CASE i = top.next
          BY <1>2, <2>2, <3>2, <4>2 DEF v
        <4>3. CASE i # top.next
          BY <1>2, <1>3, <1>4, <2>2, <3>2, <4>1, <4>3
        <4> QED BY <4>2, <4>3
      <3> QED BY <1>2, <1>5, <2>2, <3>1, <3>2
    <2> QED BY <2>1, <2>2 DEF Covered
  <1>7. Graph'
    BY <1>1, GraphKept DEF IInv
  <1>8. Objects' = Objects
    BY <1>1 DEF Objects, Headers
  <1>9. CASE v = Null
    <2>1. frames' = callers /\ UNCHANGED <<marked, phase>>
      BY <1>1, <1>9
    <2>2. MarksCover'
      <3>1. Rooted' \subseteq pending' \cup marked' \cup external'
        BY <1>1, <2>1 DEF IInv, Marking, MarksCover, Rooted
      <3>2. ASSUME NEW b \in marked', NEW i \in DOMAIN values'[b] PROVE Covered(b, i)'
        BY <1>1, <1>6, <1>9, <2>1, <3>2 DEF Covered
      <3> QED BY <3>1, <3>2 DEF MarksCover
    <2> QED BY <1>1, <1>4, <1>7, <1>8, <2>1, <2>2 DEF IInv, Marking, Frames
  <1>10. CASE v # Null
    <2>1. v \in Objects
      <3>1. top.obj \in Objects
        BY <1>2 DEF Frames
      <3>2. v \in Children(top.obj)
        BY <1>1, <1>10 DEF Children, v
      <3> QED BY <1>1, <3>1, <3>2 DEF IInv, Graph, NoDangling
    <2>2. Visit(v, callers)
      BY <1>1, <1>10
    <2>3. /\ phase' \in {"mark", "overflow"}
          /\ marked' \subseteq marked \cup {v}
          /\ frames' \in Seq(Frames)
      BY <1>1, <1>4, <2>1, <2>2, VisitEffect DEF IInv
    <2>4. phase' = "mark" => MarksCover'
      <3>1. PICK w \in Objects : w = v
        BY <2>1
      <3>2. PICK s \in Seq(Frames) : s = callers
        BY <1>4
      <3>3. \A b \in marked : \A i \in DOMAIN values[b] :
               \/ values[b][i] \in {Null, w} \cup marked \cup external
               \/ \E k \in DOMAIN s : s[k].obj = b /\ s[k].next <= i
        BY <1>6, <3>1, <3>2
      <3>4. Visit(w, s)
        BY <2>2, <3>1, <3>2
      <3> QED BY <1>1, <3>3, <3>4, VisitCovers
    <2> QED BY <1>1, <1>7, <1>8, <2>1, <2>3, <2>4 DEF IInv, Marking, Phases, Frames
  <1> QED BY <1>9, <1>10

LEMMA MarkReturnIInv == IInv /\ MarkReturn => Graph' /\ Marking'
  <1> SUFFICES ASSUME IInv, MarkReturn PROVE Graph' /\ Marking'
    OBVIOUS
  <1> DEFINE n == Len(frames)
  <1>1. /\ phase = "mark" /\ frames # <<>> /\ frames' = Front(frames)
        /\ Last(frames).next \notin DOMAIN values[Last(frames).obj]
        /\ UNCHANGED <<size, class, values, marked, external, root, currentBytes, phase,
                       pending, freed>>
    BY DEF MarkReturn, blocks, marks
  <1>2. /\ n \in Nat \ {0} /\ Last(frames) = frames[n] /\ frames[n] \in Frames
        /\ frames' \in Seq(Frames) /\ DOMAIN frames' = 1 .. n - 1
        /\ \A k \in 1 .. n - 1 : frames'[k] = frames[k]
    BY <1>1, TopFrame DEF IInv
  <1>3. DOMAIN frames = 1 .. n
    BY DEF IInv, Marking
  <1>4. ASSUME NEW b \in marked, NEW i \in DOMAIN values[b] PROVE Covered(b, i)'
    <2>1. Covered(b, i)
      BY <1>1 DEF IInv, Marking, MarksCover
    <2>2. ASSUME NEW k \in DOMAIN frames, frames[k].obj = b, frames[k].next <= i
          PROVE  k \in DOMAIN frames' /\ frames'[k] = frames[k]
      <3>1. CASE k = n
        <4>1. b \in Objects /\ DOMAIN values[b] = Slots(size[b])
          BY DEF IInv, Graph, Marking
        <4>2. /\ i \in Int /\ i <= ((size[b] - HeaderSize) \div ValueSize) - 1
              /\ frames[n].next \in Nat
          BY <1>2, <4>1 DEF Slots, Frames
        <4>3. size[b] \in Int /\ ((size[b] - HeaderSize) \div ValueSize) \in Int
          BY <4>1, ObjectsAddr DEF IInv, Layout
        <4>4. frames[n].next \in Slots(size[b])
          BY <2>2, <3>1, <4>2, <4>3 DEF Slots
        <4> QED BY <1>1, <1>2, <2>2, <3>1, <4>1, <4>4
      <3>2. CASE k # n
        BY <1>2, <1>3, <2>2, <3>2
      <3> QED BY <3>1, <3>2
    <2> QED BY <1>1, <2>1, <2>2 DEF Covered
  <1>5. MarksCover'
    BY <1>1, <1>4 DEF IInv, Marking, MarksCover, Rooted
  <1>6. Graph' /\ Objects' = Objects
    BY <1>1, GraphKept DEF IInv, Objects, Headers
  <1> QED BY <1>1, <1>2, <1>5, <1>6 DEF IInv, Marking, Frames

(* Once gcMarkObject has returned to gc for the last root, what is marked is
   closed under reference. *)
LEMMA StartSweepIInv == IInv /\ StartSweep => Graph' /\ Marking'
  <1> SUFFICES ASSUME IInv, StartSweep PROVE Graph' /\ Marking'
    OBVIOUS
  <1>1. /\ phase = "mark" /\ frames = <<>> /\ pending = {}
        /\ phase' = "sweep" /\ pos' = 0 /\ freed' = FALSE /\ currentBytes' = 0
        /\ UNCHANGED <<size, class, values, marked, external, root, pending, frames>>
    BY DEF StartSweep, blocks, marks
  <1>2. Graph' /\ Objects' = Objects /\ Rooted' = Rooted
    BY <1>1, GraphKept DEF IInv, Objects, Headers, Rooted
  <1>3. SurvivorsClosed'
    <2>1. Rooted' \subseteq marked' \cup external'
      BY <1>1, <1>2 DEF IInv, Marking, MarksCover
    <2>2. ASSUME NEW b \in marked PROVE Children(b) \subseteq marked \cup external
      <3>1. \A i \in DOMAIN values[b] : values[b][i] \in {Null} \cup marked \cup external
        BY <1>1 DEF IInv, Marking, MarksCover, Covered
      <3> QED BY <3>1 DEF Children
    <2>3. \A b : Children(b)' = Children(b)
      BY <1>1 DEF Children
    <2>4. \A b \in Objects' : ~(b < pos')
      BY <1>1, <1>2, ObjectsAddr DEF IInv, Addr
    <2> QED BY <1>1, <2>1, <2>2, <2>3, <2>4 DEF SurvivorsClosed
  <1> QED BY <1>1, <1>2, <1>3 DEF IInv, Marking, Phases

(* A survivor refers to survivors only. *)
LEMMA SurvivorsChildren ==
    ASSUME IInv, phase = "sweep", NEW a \in Objects, Survives(a)
    PROVE  Children(a) \subseteq marked \cup external
  <1>1. CASE a \in marked
    BY <1>1 DEF IInv, Marking, SurvivorsClosed
  <1>2. CASE a \in external
    BY <1>2 DEF IInv, Graph
  <1> QED BY <1>1, <1>2 DEF Survives

LEMMA KeepIInv == IInv /\ Keep => Graph' /\ Marking'
  <1> SUFFICES ASSUME IInv, Keep PROVE Graph' /\ Marking'
    OBVIOUS
  <1>1. /\ phase = "sweep" /\ pos < ArenaSize
        /\ pos \in Objects => Survives(pos)
        /\ currentBytes' = currentBytes + InUse(pos)
        /\ pos' = pos + size[pos]
        /\ UNCHANGED <<size, class, values, marked, external, root, phase, pending, frames,
                       freed>>
    BY DEF Keep, blocks, marks
  <1>2. Graph' /\ Objects' = Objects /\ Rooted' = Rooted
    BY <1>1, GraphKept DEF IInv, Objects, Headers, Rooted
  <1>3. pos \in Headers /\ size[pos] \in Nat
    BY <1>1, NextHeader DEF IInv, Layout
  <1>4. currentBytes' \in Nat
    BY <1>1, <1>3 DEF InUse, IInv, Marking
  <1>5. ASSUME NEW a \in Objects, a < pos' PROVE Survives(a)
    <2>1. CASE a < pos
      BY <1>1, <2>1 DEF IInv, Marking, SurvivorsClosed
    <2>2. CASE a = pos
      BY <1>1, <2>2
    <2>3. CASE pos < a
      <3>1. pos + size[pos] <= a
        BY <1>3, <2>3, ObjectsAddr DEF IInv, Layout, Tiling
      <3>2. a \in Nat /\ pos \in Nat
        BY ObjectsAddr DEF IInv, Layout, Addr
      <3> QED BY <1>1, <1>3, <1>5, <3>1, <3>2
    <2>4. a \in Nat /\ pos \in Nat
      BY ObjectsAddr DEF IInv, Layout, Addr
    <2> QED BY <2>1, <2>2, <2>3, <2>4
  <1>6. \A b : Children(b)' = Children(b) /\ Survives(b)' = Survives(b)
    BY <1>1 DEF Children, Survives
  <1>7. SurvivorsClosed'
    BY <1>1, <1>2, <1>5, <1>6 DEF IInv, Marking, SurvivorsClosed
  <1> QED BY <1>1, <1>2, <1>4, <1>7 DEF IInv, Marking

LEMMA CollectIInv == IInv /\ Collect => Graph' /\ Marking'
  <1> SUFFICES ASSUME IInv, Collect PROVE Graph' /\ Marking'
    OBVIOUS
  <1>1. /\ phase = "sweep" /\ pos < ArenaSize /\ pos \in Objects /\ ~Survives(pos)
        /\ class' = [class EXCEPT ![pos] = Null]
        /\ values' = [values EXCEPT ![pos] = <<>>]
        /\ freed' = TRUE /\ pos' = pos + size[pos]
        /\ UNCHANGED <<size, marked, external, root, currentBytes, phase, pending, frames>>
    BY DEF Collect, marks
  <1>2. Headers' = Headers /\ Rooted' = Rooted
    BY <1>1 DEF Headers, Rooted
  <1>3. /\ Objects' = Objects \ {pos}
        /\ \A a \in Objects' : class'[a] = class[a] /\ values'[a] = values[a]
    <2>1. class'[pos] = Null /\ \A a \in Headers \ {pos} : class'[a] = class[a]
      BY <1>1, ObjectsAddr DEF IInv, Layout
    <2>2. Objects' = Objects \ {pos}
      BY <1>2, <2>1 DEF Objects
    <2>3. \A a \in Headers \ {pos} : values'[a] = values[a]
      BY <1>1 DEF IInv, Layout
    <2> QED BY <2>1, <2>2, <2>3, ObjectsAddr DEF IInv
  <1>4. \A a \in Objects' : Children(a)' = Children(a)
    BY <1>3 DEF Children
  <1>5. marked \cup external \subseteq Objects'
    BY <1>1, <1>3 DEF IInv, Graph, Marking, Survives
  <1>6. Rooted \subseteq marked \cup external
    BY <1>1 DEF IInv, Marking, SurvivorsClosed
  <1>7. \A a \in Objects : Survives(a) => Children(a) \subseteq marked \cup external
    BY <1>1, SurvivorsChildren
  <1>8. NoDangling'
    <2>1. ASSUME NEW a \in Objects', Survives(a)' PROVE Children(a)' \subseteq Objects'
      BY <1>1, <1>3, <1>4, <1>5, <1>7, <2>1 DEF Survives
    <2> QED BY <1>1, <1>2, <1>5, <1>6, <2>1 DEF NoDangling
  <1>9. Graph'
    BY <1>1, <1>3, <1>4, <1>5, <1>8 DEF IInv, Graph
  <1>10. ASSUME NEW a \in Objects', a < pos' PROVE Survives(a)'
    <2>1. a < pos
      <3> SUFFICES ASSUME pos < a PROVE FALSE
        BY <1>3, ObjectsAddr DEF IInv, Layout, Addr
      <3>1. pos + size[pos] <= a
        BY <1>1, <1>3, ObjectsAddr DEF IInv, Layout, Tiling
      <3>2. a \in Nat /\ pos \in Nat /\ size[pos] \in Nat
        BY <1>1, <1>3, ObjectsAddr DEF IInv, Layout, Addr
      <3> QED BY <1>1, <1>10, <3>1, <3>2
    <2> QED BY <1>1, <1>3, <2>1 DEF IInv, Marking, SurvivorsClosed, Survives
  <1>11. SurvivorsClosed'
    <2>1. ASSUME NEW a \in marked PROVE Children(a)' \subseteq marked \cup external
      BY <1>1, <1>4, <1>5 DEF IInv, Marking, SurvivorsClosed
    <2> QED BY <1>1, <1>2, <1>6, <1>10, <2>1 DEF SurvivorsClosed
  <1> QED BY <1>1, <1>5, <1>9, <1>11 DEF IInv, Marking, Phases

(* At the end of the sweep no object refers to anything that is gone. *)
LEMMA Swept ==
    ASSUME IInv, phase = "sweep", pos = ArenaSize
    PROVE  \A a \in Objects : Children(a) \subseteq Objects
  <1> SUFFICES ASSUME NEW a \in Objects PROVE Children(a) \subseteq Objects
    OBVIOUS
  <1>1. a < pos
    BY ObjectsAddr DEF IInv, Addr
  <1>2. Survives(a)
    BY <1>1 DEF IInv, Marking, SurvivorsClosed
  <1>3. Children(a) \subseteq marked \cup external
    BY <1>2, SurvivorsChildren
  <1> QED BY <1>3 DEF IInv, Graph, Marking

LEMMA SweptGraph ==
    ASSUME IInv, \A a \in Objects : Children(a) \subseteq Objects,
           UNCHANGED <<size, class, values, external, root>>
    PROVE  Graph' /\ Objects' = Objects
  <1>1. Headers' = Headers /\ Objects' = Objects /\ Rooted' = Rooted
    BY DEF Headers, Objects, Rooted
  <1>2. \A a : Children(a)' = Children(a)
    BY DEF Children
  <1>3. NoDangling'
    BY <1>1, <1>2 DEF NoDangling, IInv, Graph
  <1> QED BY <1>1, <1>2, <1>3 DEF Graph, IInv

(* Resume ends the collection with nothing marked. *)
LEMMA ResumeIInv ==
    ASSUME IInv, phase \in {"sweep", "coalesce"}, Resume,
           \A a \in Objects : Children(a) \subseteq Objects,
           UNCHANGED <<size, class, values, external, root, currentBytes, pending, frames>>
    PROVE  Graph' /\ Marking'
  <1>1. Graph' /\ Objects' = Objects
    BY SweptGraph
  <1>2. /\ phase' \in {"down", "alloc"} /\ marked' = {} /\ freed' = FALSE
        /\ pending' = {} /\ frames' = <<>>
    BY DEF Resume, IInv, Marking
  <1> QED BY <1>1, <1>2 DEF IInv, Marking, Phases

LEMMA SweepIInv == IInv /\ Sweep => Graph' /\ Marking'
  <1> SUFFICES ASSUME IInv, Sweep PROVE Graph' /\ Marking'
    OBVIOUS
  <1>1. CASE NothingFreed
    BY <1>1, Swept, ResumeIInv DEF NothingFreed, blocks
  <1>2. CASE SortFreeList
    <2>1. /\ phase = "sweep" /\ pos = ArenaSize /\ phase' = "coalesce"
          /\ UNCHANGED <<size, class, values, marked, external, root, currentBytes, pending,
                         frames, freed>>
      BY <1>2 DEF SortFreeList, blocks, marks
    <2>2. Graph' /\ Objects' = Objects
      BY <2>1, Swept, SweptGraph
    <2> QED BY <2>1, <2>2 DEF IInv, Marking, Phases
  <1> QED BY <1>1, <1>2, KeepIInv, CollectIInv DEF Sweep

(* Merging free blocks leaves the objects as they are. *)
LEMMA CoalesceEffect ==
    ASSUME Layout, Coalesce
    PROVE  /\ Objects' = Objects
           /\ \A h \in Objects :
                 size'[h] = size[h] /\ class'[h] = class[h] /\ values'[h] = values[h]
  <1>1. PICK i \in DOMAIN freeList :
            /\ Adjacent(i)
            /\ size' = [h \in Headers \ {freeList[i]} |->
                          IF h = freeList[i - 1]
                            THEN size[freeList[i - 1]] + size[freeList[i]] ELSE size[h]]
            /\ class' = [h \in Headers \ {freeList[i]} |-> class[h]]
            /\ values' = [h \in Headers \ {freeList[i]} |-> values[h]]
    BY DEF Coalesce
  <1> DEFINE a == freeList[i - 1]
             b == freeList[i]
  <1>2. a \in FreeBlocks /\ b \in FreeBlocks
    <2>1. i - 1 \in DOMAIN freeList
      BY <1>1 DEF Adjacent, Layout
    <2> QED BY <2>1 DEF Layout, FreeListExact, ToSet
  <1>3. a \notin Objects /\ b \notin Objects
    BY <1>2 DEF FreeBlocks
  <1> HIDE DEF a, b
  <1>4. /\ size' = [h \in Headers \ {b} |-> IF h = a THEN size[a] + size[b] ELSE size[h]]
        /\ class' = [h \in Headers \ {b} |-> class[h]]
        /\ values' = [h \in Headers \ {b} |-> values[h]]
    BY <1>1 DEF a, b
  <1>5. Headers' = Headers \ {b}
    <2>1. DOMAIN (size') = Headers \ {b}
      BY <1>4
    <2> QED BY <2>1 DEF Headers
  <1>6. Objects' = Objects
    BY <1>3, <1>4, <1>5 DEF Objects
  <1>7. \A h \in Objects : size'[h] = size[h] /\ class'[h] = class[h] /\ values'[h] = values[h]
    BY <1>3, <1>4, ObjectsAddr
  <1> QED BY <1>6, <1>7

LEMMA CoalesceIInv == IInv /\ Coalesce => Graph' /\ Marking'
  <1> SUFFICES ASSUME IInv, Coalesce PROVE Graph' /\ Marking'
    OBVIOUS
  <1>1. /\ phase = "coalesce"
        /\ UNCHANGED <<root, marked, external, currentBytes, phase, pending, frames, freed>>
    BY DEF Coalesce, marks
  <1>2. /\ Objects' = Objects /\ Rooted' = Rooted
        /\ \A h \in Objects :
              size'[h] = size[h] /\ class'[h] = class[h] /\ values'[h] = values[h]
    BY <1>1, CoalesceEffect DEF IInv, Rooted
  <1>3. \A h \in Objects : Children(h)' = Children(h)
    BY <1>2 DEF Children
  <1>4. NoDangling'
    BY <1>1, <1>2, <1>3 DEF IInv, Graph, NoDangling
  <1>5. Graph'
    BY <1>1, <1>2, <1>3, <1>4 DEF IInv, Graph
  <1> QED BY <1>1, <1>2, <1>5 DEF IInv, Marking

(* Allocate makes an object of a free block, or of the part of it that was
   asked for, and leaves the other objects as they are. *)
LEMMA AllocateEffect ==
    ASSUME Layout, Allocate
    PROVE  \E a \in FreeBlocks, len \in Nat :
              /\ ObjSize(request) <= len /\ len <= size[a]
              /\ Objects' = Objects \cup {a}
              /\ size'[a] = len
              /\ class'[a] = request.class
              /\ values'[a] = [s \in Slots(len) |-> Null]
              /\ \A h \in Objects :
                    size'[h] = size[h] /\ class'[h] = class[h] /\ values'[h] = values[h]
              /\ root' = [root EXCEPT ![request.dest] = a]
              /\ external' = IF request.pin THEN external \cup {a} ELSE external
              /\ currentBytes' = currentBytes + len
  <1>1. request \in Requests /\ ObjSize(request) \in Nat \ {0}
    BY ObjSizePositive DEF Allocate, Layout
  <1>2. PICK i \in DOMAIN freeList :
            /\ FirstFit(i, ObjSize(request))
            /\ Carve(i, request.class, ObjSize(request))
            /\ root' = [root EXCEPT ![request.dest] = freeList[i]]
            /\ external' = IF request.pin THEN external \cup {freeList[i]} ELSE external
    BY DEF Allocate
  <1>3. PICK a \in Addr : a = freeList[i]
    BY DEF Layout
  <1> DEFINE n == ObjSize(request)
             c == request.class
             len == BlockLen(n, size[a])
             hs == IF Splits(size[a] - n) THEN Headers \cup {a + n} ELSE Headers
  <1>4. a \in FreeBlocks /\ a \in Headers /\ a \notin Objects
    BY <1>3 DEF Layout, FreeListExact, FreeBlocks, ToSet
  <1>5. c \in Classes /\ c # Null
    BY <1>1 DEF Requests
  <1>6. /\ size' = [h \in hs |-> IF h = a THEN len
                                 ELSE IF h \in Headers THEN size[h] ELSE size[a] - n]
        /\ class' = [h \in hs |-> IF h = a THEN c
                                  ELSE IF h \in Headers THEN class[h] ELSE Null]
        /\ values' = [h \in hs |-> IF h = a THEN [s \in Slots(len) |-> Null]
                                   ELSE IF h \in Headers THEN values[h] ELSE <<>>]
        /\ currentBytes' = currentBytes + len
    BY <1>2, <1>3 DEF Carve
  <1>7. len \in Nat /\ n <= len /\ len <= size[a]
    BY <1>1, <1>2, <1>3, <1>4 DEF Layout, BlockLen, FirstFit
  <1>8. Headers \subseteq hs
    OBVIOUS
  <1> HIDE DEF n, c, len, hs
  <1>9. Headers' = hs
    <2>1. DOMAIN (size') = hs
      BY <1>6
    <2> QED BY <2>1 DEF Headers
  <1>10. /\ size'[a] = len
         /\ class'[a] = c
         /\ values'[a] = [s \in Slots(len) |-> Null]
    BY <1>4, <1>6, <1>8
  <1>11. \A h \in Objects :
             size'[h] = size[h] /\ class'[h] = class[h] /\ values'[h] = values[h]
    <2>1. \A h \in Objects : h \in Headers /\ h # a
      BY <1>4, ObjectsAddr
    <2> QED BY <1>6, <1>8, <2>1
  <1>12. \A h \in (hs \ Headers) \cup (FreeBlocks \ {a}) : class'[h] = Null
    <2>1. \A h \in FreeBlocks : h \in Headers /\ class[h] = Null
      BY DEF FreeBlocks, Objects
    <2> QED BY <1>4, <1>6, <1>8, <2>1
  <1>13. Objects' = Objects \cup {a}
    <2>1. \A h \in Objects : h \in hs /\ class'[h] # Null
      BY <1>8, <1>11 DEF Objects
    <2>2. class'[a] # Null /\ a \in hs
      BY <1>4, <1>5, <1>8, <1>10
    <2>3. \A h \in hs : h \in Objects' <=> class'[h] # Null
      BY <1>9 DEF Objects
    <2>4. Objects' \subseteq hs
      BY <1>9 DEF Objects
    <2>5. hs \subseteq Objects \cup {a} \cup (hs \ Headers) \cup (FreeBlocks \ {a})
      BY DEF FreeBlocks
    <2> QED BY <1>12, <2>1, <2>2, <2>3, <2>4, <2>5
  <1>14. /\ root' = [root EXCEPT ![request.dest] = a]
         /\ external' = IF request.pin THEN external \cup {a} ELSE external
    BY <1>2, <1>3
  <1> QED BY <1>4, <1>6, <1>7, <1>10, <1>11, <1>13, <1>14 DEF n, c

(* A new object refers to nothing, and everything else is as it was. *)
LEMMA AllocateIInv == IInv /\ Allocate => Graph' /\ Marking'
  <1> SUFFICES ASSUME IInv, Allocate PROVE Graph' /\ Marking'
    OBVIOUS
  <1>1. /\ phase = "alloc" /\ phase' = "idle" /\ request \in Requests
        /\ UNCHANGED <<marked, pending, frames, freed>>
    BY DEF Allocate, IInv, Layout
  <1>2. PICK a \in FreeBlocks, len \in Nat :
            /\ Objects' = Objects \cup {a}
            /\ size'[a] = len
            /\ class'[a] = request.class
            /\ values'[a] = [s \in Slots(len) |-> Null]
            /\ \A h \in Objects :
                  size'[h] = size[h] /\ class'[h] = class[h] /\ values'[h] = values[h]
            /\ root' = [root EXCEPT ![request.dest] = a]
            /\ external' = IF request.pin THEN external \cup {a} ELSE external
            /\ currentBytes' = currentBytes + len
    BY AllocateEffect DEF IInv
  <1>3. a \in Addr /\ a \notin Objects /\ a \notin external
    BY DEF FreeBlocks, IInv, Layout, Graph
  <1>4. Children(a)' = {} /\ \A h \in Objects : Children(h)' = Children(h)
    <2>1. Children(a)' = {}
      <3>1. DOMAIN values'[a] = Slots(len) /\ \A s \in Slots(len) : values'[a][s] = Null
        BY <1>2
      <3> QED BY <3>1 DEF Children
    <2>2. \A h \in Objects : Children(h)' = Children(h)
      BY <1>2 DEF Children
    <2> QED BY <2>1, <2>2
  <1>5. root' \in [Roots -> Addr \cup {Null}] /\ Rooted' \subseteq Rooted \cup {a}
    BY <1>1, <1>2, <1>3 DEF IInv, Graph, Rooted, Requests
  <1>6. external' \subseteq external \cup {a} /\ (a \in external' => class'[a] = StringClass)
    BY <1>1, <1>2, <1>3 DEF Requests
  <1>7. NoDangling'
    BY <1>1, <1>2, <1>4, <1>5, <1>6 DEF IInv, Graph, NoDangling
  <1>8. Graph'
    BY <1>2, <1>4, <1>5, <1>6, <1>7 DEF IInv, Graph
  <1> QED BY <1>1, <1>2, <1>8 DEF IInv, Marking, Phases

(* Before and after a merge no object refers to anything that is gone. *)
LEMMA CoalescedIInv == IInv /\ Coalesced => Graph' /\ Marking'
  <1> SUFFICES ASSUME IInv, Coalesced PROVE Graph' /\ Marking'
    OBVIOUS
  <1>1. phase = "coalesce" => \A a \in Objects : Children(a) \subseteq Objects
    BY DEF IInv, Graph, NoDangling
  <1> QED BY <1>1, ResumeIInv DEF Coalesced, blocks

LEMMA NoSpaceIInv == IInv /\ NoSpace => Graph' /\ Marking'
  <1> SUFFICES ASSUME IInv, NoSpace PROVE Graph' /\ Marking'
    OBVIOUS
  <1>1. /\ phase = "alloc" /\ phase' = "exit"
        /\ UNCHANGED <<size, class, values, marked, external, root, currentBytes, pending,
                       frames, freed>>
    BY DEF NoSpace, blocks, marks
  <1>2. Graph' /\ Objects' = Objects
    BY <1>1, GraphKept DEF IInv, Objects, Headers
  <1> QED BY <1>1, <1>2 DEF IInv, Marking, Phases

LEMMA StutterIInv == IInv /\ UNCHANGED vars => Graph' /\ Marking'
  <1> SUFFICES ASSUME IInv, UNCHANGED vars PROVE Graph' /\ Marking'
    OBVIOUS
  <1>1. UNCHANGED <<size, class, values, marked, external, root, currentBytes, phase, pending,
                    frames, pos, freed>>
    BY DEF vars, blocks, marks
  <1>2. /\ Graph' /\ Objects' = Objects /\ Rooted' = Rooted
        /\ \A a : Children(a)' = Children(a)
    BY <1>1, GraphKept DEF IInv, Objects, Headers, Rooted, Children
  <1>3. MarksCover => MarksCover'
    BY <1>1, <1>2 DEF MarksCover, Covered
  <1>4. SurvivorsClosed => SurvivorsClosed'
    BY <1>1, <1>2 DEF SurvivorsClosed, Survives
  <1> QED BY <1>1, <1>2, <1>3, <1>4 DEF IInv, Marking

LEMMA IInvStep == IInv /\ [Next]_vars => IInv'
  <1> SUFFICES ASSUME IInv, [Next]_vars PROVE IInv'
    OBVIOUS
  <1>1. Layout'
    BY LayoutStep DEF IInv
  <1>2. Graph' /\ Marking'
    <2>1. CASE Script
      BY <2>1, ScriptIInv
    <2>2. CASE Mark
      BY <2>2, MarkRootIInv, MarkValueIInv, MarkReturnIInv, StartSweepIInv DEF Mark
    <2>3. CASE Sweep
      BY <2>3, SweepIInv
    <2>4. CASE Merge
      BY <2>4, CoalesceIInv, CoalescedIInv DEF Merge
    <2>5. CASE Allocate
      BY <2>5, AllocateIInv
    <2>6. CASE NoSpace
      BY <2>6, NoSpaceIInv
    <2>7. CASE Ended \/ UNCHANGED vars
      BY <2>7, StutterIInv DEF Ended
    <2> QED BY <2>1, <2>2, <2>3, <2>4, <2>5, <2>6, <2>7 DEF Next, Runtime
  <1> QED BY <1>1, <1>2 DEF IInv

LEMMA IInvTypeOK == IInv => TypeOK
  <1> SUFFICES ASSUME IInv PROVE TypeOK
    OBVIOUS
  <1>1. Objects \subseteq Addr
    BY ObjectsAddr DEF IInv
  <1>2. marked \subseteq Addr /\ pending \subseteq Addr /\ external \subseteq Addr
    BY <1>1 DEF IInv, Graph, Marking
  <1>3. frames \in Seq([obj : Addr, next : Nat])
    <2>1. [obj : Objects, next : Nat] \subseteq [obj : Addr, next : Nat]
      BY <1>1
    <2>2. \A S, T : S \subseteq T => Seq(S) \subseteq Seq(T)
      BY SeqMonotonic
    <2> QED BY <2>1, <2>2 DEF IInv, Marking
  <1> QED BY <1>2, <1>3 DEF IInv, Layout, Graph, Marking, TypeOK

(* Every variable of the heap keeps its type; in particular every value slot
   lies inside its block and holds an address or NULL. *)
THEOREM TypeTheorem == Spec => []TypeOK
  <1> QED BY InitIInv, IInvStep, IInvTypeOK, PTL DEF Spec

(* No collection frees anything a root, an external object or an object in use
   refers to, however the script has linked its objects. *)
THEOREM NoDanglingTheorem == Spec => []NoDangling
  <1>1. IInv => NoDangling
    BY DEF IInv, Graph
  <1> QED BY <1>1, InitIInv, IInvStep, PTL DEF Spec
-----------------------------------------------------------------------------
(***************************************************************************)
(* The bytes in use: Accounting.                                           *)
(***************************************************************************)
(* The objects gcArena's cursor has passed. *)
Passed == {a \in Objects : a < pos}

(* A sweep counts what it passes; then objects are added one by one. *)
Counted ==
    /\ phase \in {"idle", "alloc", "coalesce"} => currentBytes = Total(size, Objects)
    /\ phase = "sweep" => currentBytes = Total(size, Passed)

(* There are finitely many objects, and all have a size. *)
LEMMA ObjectsFinite ==
    ASSUME Layout, NEW S, S \subseteq Objects
    PROVE  IsFiniteSet(S) /\ \A a \in S : size[a] \in Nat
  <1>1. Objects \subseteq Headers /\ Objects \subseteq Addr
    BY ObjectsAddr
  <1>2. IsFiniteSet(Addr)
    BY FS_Interval DEF Addr
  <1>3. IsFiniteSet(S)
    <2>1. S \in SUBSET Addr
      BY <1>1
    <2> QED BY <1>2, <2>1, FS_Subset
  <1>4. \A a \in S : size[a] \in Nat
    BY <1>1 DEF Layout
  <1> QED BY <1>3, <1>4

LEMMA InitCounted == Init => Counted
  <1> SUFFICES ASSUME Init PROVE Counted
    OBVIOUS
  <1>1. Objects = {}
    BY DEF Init, Objects, Headers
  <1> QED BY <1>1, TotalEmpty DEF Init, Counted

(* A step that changes neither objects nor count, and does not begin to sweep. *)
LEMMA CountedKept ==
    ASSUME Counted, UNCHANGED <<size, class, currentBytes>>,
           phase' \in {"idle", "alloc", "coalesce"} => phase \in {"idle", "alloc", "coalesce"},
           phase' # "sweep"
    PROVE  Counted'
  BY DEF Counted, Objects, Headers

(* The cursor passes one block at a time. *)
LEMMA PassesOne ==
    ASSUME Layout, phase = "sweep", pos < ArenaSize
    PROVE  {a \in Objects : a < pos + size[pos]} = Passed \cup ({pos} \cap Objects)
  <1>1. pos \in Headers /\ pos \in Nat /\ size[pos] \in Nat /\ 0 < size[pos]
    BY NextHeader DEF Layout
  <1>2. ASSUME NEW a \in Objects PROVE a < pos + size[pos] <=> a < pos \/ a = pos
    <2>1. a \in Headers /\ a \in Nat
      BY ObjectsAddr DEF Addr
    <2>2. pos < a => pos + size[pos] <= a
      BY <1>1, <2>1 DEF Layout, Tiling
    <2> QED BY <1>1, <2>1, <2>2
  <1> QED BY <1>2 DEF Passed

LEMMA CountedKeep == Layout /\ Counted /\ Keep => Counted'
  <1> SUFFICES ASSUME Layout, Counted, Keep PROVE Counted'
    OBVIOUS
  <1>1. /\ phase = "sweep" /\ pos < ArenaSize /\ currentBytes = Total(size, Passed)
        /\ currentBytes' = currentBytes + InUse(pos) /\ pos' = pos + size[pos]
        /\ UNCHANGED <<size, class, phase>>
    BY DEF Keep, blocks, Counted
  <1>2. Passed' = Passed \cup ({pos} \cap Objects)
    <2>1. Passed' = {a \in Objects : a < pos + size[pos]}
      BY <1>1 DEF Passed, Objects, Headers
    <2> QED BY <1>1, <2>1, PassesOne
  <1>3. IsFiniteSet(Passed) /\ Total(size, Passed) \in Nat
    BY ObjectsFinite, TotalType DEF Passed
  <1>4. currentBytes' = Total(size, Passed')
    <2>1. CASE pos \in Objects
      <3>1. PICK a \in Objects : a = pos
        BY <2>1
      <3>2. a \notin Passed /\ \A b \in Passed \cup {a} : size[b] \in Nat
        <4>1. Passed \cup {a} \subseteq Objects
          BY DEF Passed
        <4>2. a \in Nat
          BY ObjectsAddr DEF Addr
        <4> QED BY <3>1, <4>1, <4>2, ObjectsFinite DEF Passed
      <3>3. Total(size, Passed \cup {a}) = Total(size, Passed) + size[a]
        BY <1>3, <3>2, TotalAdd
      <3>4. Passed' = Passed \cup {a}
        BY <1>2, <3>1
      <3> QED BY <1>1, <2>1, <3>1, <3>3, <3>4 DEF InUse
    <2>2. CASE pos \notin Objects
      <3>1. Passed' = Passed /\ InUse(pos) = 0
        BY <1>2, <2>2 DEF InUse
      <3> QED BY <1>1, <1>3, <3>1
    <2> QED BY <2>1, <2>2
  <1> QED BY <1>1, <1>4 DEF Counted

(* What is freed was not counted. *)
LEMMA CountedCollect == Layout /\ Counted /\ Collect => Counted'
  <1> SUFFICES ASSUME Layout, Counted, Collect PROVE Counted'
    OBVIOUS
  <1>1. /\ phase = "sweep" /\ pos < ArenaSize /\ pos \in Objects
        /\ class' = [class EXCEPT ![pos] = Null]
        /\ pos' = pos + size[pos]
        /\ UNCHANGED <<size, currentBytes, phase>>
    BY DEF Collect
  <1>2. Objects' = Objects \ {pos}
    <2>1. class'[pos] = Null /\ \A b \in Headers \ {pos} : class'[b] = class[b]
      BY <1>1, ObjectsAddr DEF Layout
    <2> QED BY <1>1, <2>1 DEF Objects, Headers
  <1>3. pos \notin Passed
    BY ObjectsAddr, <1>1 DEF Passed, Addr
  <1>4. Passed' = Passed
    <2>1. Passed' = {a \in Objects : a < pos + size[pos]} \ {pos}
      BY <1>1, <1>2 DEF Passed
    <2> QED BY <1>1, <1>3, <2>1, PassesOne
  <1> QED BY <1>1, <1>4 DEF Counted

(* At the end of the arena every object has been passed. *)
LEMMA AllPassed ==
    ASSUME Layout, Counted, phase = "sweep", pos = ArenaSize
    PROVE  currentBytes = Total(size, Objects)
  <1>1. Passed = Objects
    BY ObjectsAddr DEF Passed, Addr
  <1> QED BY <1>1 DEF Counted

LEMMA CountedAllocate == Layout /\ Counted /\ Allocate => Counted'
  <1> SUFFICES ASSUME Layout, Counted, Allocate PROVE Counted'
    OBVIOUS
  <1>1. phase' = "idle" /\ currentBytes = Total(size, Objects)
    BY DEF Allocate, Counted
  <1>2. PICK a \in FreeBlocks, len \in Nat :
            /\ Objects' = Objects \cup {a} /\ size'[a] = len
            /\ \A h \in Objects : size'[h] = size[h]
            /\ currentBytes' = currentBytes + len
    BY AllocateEffect
  <1>3. IsFiniteSet(Objects) /\ \A h \in Objects : size[h] \in Nat
    BY ObjectsFinite
  <1>4. a \notin Objects /\ \A b \in Objects \cup {a} : size'[b] \in Nat
    BY <1>2, <1>3 DEF FreeBlocks
  <1>5. Total(size', Objects \cup {a}) = Total(size', Objects) + size'[a]
    BY <1>3, <1>4, TotalAdd
  <1>6. Total(size', Objects) = Total(size, Objects)
    BY <1>2, <1>3, TotalSame
  <1> QED BY <1>1, <1>2, <1>5, <1>6 DEF Counted

LEMMA CountedStep == Layout /\ Counted /\ [Next]_vars => Counted'
  <1> SUFFICES ASSUME Layout, Counted, [Next]_vars PROVE Counted'
    OBVIOUS
  <1>1. CASE Script
    BY <1>1, CountedKept DEF Script, SetRoot, SetValue, Request, Shutdown, StartMark, blocks
  <1>2. CASE Mark
    <2>1. CASE StartSweep
      <3>1. phase' = "sweep" /\ pos' = 0 /\ currentBytes' = 0 /\ UNCHANGED <<size, class>>
        BY <2>1 DEF StartSweep, blocks
      <3>2. Passed' = {}
        BY <3>1, ObjectsAddr DEF Passed, Objects, Headers, Addr
      <3> QED BY <3>1, <3>2, TotalEmpty DEF Counted
    <2>2. CASE MarkRoot \/ MarkValue \/ MarkReturn
      <3>1. UNCHANGED <<size, class, currentBytes>> /\ phase' \in {"mark", "overflow"}
        BY <2>2 DEF MarkRoot, MarkValue, MarkReturn, Visit, blocks
      <3> QED BY <3>1, CountedKept
    <2> QED BY <1>2, <2>1, <2>2 DEF Mark
  <1>3. CASE NothingFreed \/ SortFreeList
    <2>1. currentBytes = Total(size, Objects)
      BY <1>3, AllPassed DEF NothingFreed, SortFreeList
    <2>2. UNCHANGED <<size, class, currentBytes>> /\ phase' \in {"down", "alloc", "coalesce"}
      BY <1>3 DEF NothingFreed, SortFreeList, Resume, blocks
    <2> QED BY <2>1, <2>2 DEF Counted, Objects, Headers
  <1>4. CASE Coalesce
    <2>1. phase = "coalesce" /\ UNCHANGED <<currentBytes, phase>>
      BY <1>4 DEF Coalesce
    <2>2. Objects' = Objects /\ \A a \in Objects : size'[a] = size[a]
      BY <1>4, CoalesceEffect
    <2>3. Total(size', Objects) = Total(size, Objects)
      BY <2>2, ObjectsFinite, TotalSame
    <2> QED BY <2>1, <2>2, <2>3 DEF Counted
  <1>5. CASE Coalesced
    BY <1>5, CountedKept DEF Coalesced, Resume, blocks
  <1>6. CASE NoSpace
    BY <1>6, CountedKept DEF NoSpace, blocks
  <1>7. CASE Ended \/ UNCHANGED vars
    BY <1>7 DEF Ended, vars, blocks, Counted, Passed, Objects, Headers
  <1> QED BY <1>1, <1>2, <1>3, <1>4, <1>5, <1>6, <1>7, CountedKeep, CountedCollect,
             CountedAllocate
          DEF Next, Runtime, Sweep, Merge

(* m_currentBytes never drifts from what the objects and their padding occupy,
   so the test that starts a collection is always about the true amount. *)
THEOREM AccountingTheorem == Spec => []Accounting
  <1>1. Counted => Accounting
    BY DEF Counted, Accounting, Total
  <1> QED BY <1>1, InitLayout, LayoutStep, InitCounted, CountedStep, PTL DEF Spec
=============================================================================
