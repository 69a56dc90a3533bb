--------------------------- MODULE OptimiserProofs ---------------------------
(***************************************************************************)
(* Proofs about Optimiser for any code that the assembler may give it:     *)
(* the positions the loops use are inside the code, jumps arrive where     *)
(* they were assembled to arrive, and the result can be written out.       *)
(***************************************************************************)
EXTENDS Optimiser, WellFoundedInduction, TLAPS

(***************************************************************************)
(* The inductive invariant.  JumpsKept alone is not inductive: it needs    *)
(* that no rewriting makes a jump of something else, and that a position   *)
(* to remove is always one of the code.  Encodable needs that the last     *)
(* instruction, which a jump may lead to, is never removed.                *)
(***************************************************************************)
Ordinary ==
    /\ phase \in Phases
    /\ i \in 1 .. Len(code) + 1
    /\ phase \in {"remove", "squeeze"} => i = 1
    /\ changed \in BOOLEAN /\ again \in BOOLEAN

TargetsKept ==
    \A k \in DOMAIN code :
      code[k].op \in Jumps =>
        /\ assembled[origin[k]].op = code[k].op
        /\ \A j \in DOMAIN code : j < AddressOf(code[k]) <=> origin[j] < AddressOf(assembled[origin[k]])

Marked ==
    /\ removed \in Nat
    /\ \A r \in removeList : r \in Int /\ r - removed \in 1 .. Len(code) - 1
    /\ phase \in {"infer", "known", "unused", "fold"} => removed = 0

Remembered == phase = "fold" => \A n \in 1 .. 3 : IsPush(prev[n]) => i > n

OInv ==
    /\ Complete(code)
    /\ origin \in Seq(Int) /\ Len(origin) = Len(code)
    /\ Ordinary
    /\ TargetsKept
    /\ Marked
    /\ Remembered

-----------------------------------------------------------------------------
(* The types of a code. *)
LEMMA CompleteTypes ==
    ASSUME NEW c, Complete(c)
    PROVE  /\ Len(c) \in Nat \ {0}
           /\ DOMAIN c = 1 .. Len(c)
  <1>1. c \in Seq({c[k] : k \in DOMAIN c}) /\ c # <<>>
    BY DEF Complete, Finite
  <1> QED BY <1>1

(* A sequence over any set is one over its own elements. *)
LEMMA FiniteSeq == ASSUME NEW S, NEW s \in Seq(S) PROVE Finite(s)
  BY DEF Finite

(* An instruction that has the arguments of its opcode and no address. *)
NoJump(e) == e = Ins(e.op, e.t, e.a) /\ Finite(e.a) /\ Len(e.a) = OpArgs(e.op) /\ e.op \notin Jumps

Rewritten(d, c, n, e) == d = [c EXCEPT ![n] = e]

(* Replacing an instruction other than the last by one that is no jump. *)
LEMMA RewriteCode ==
    ASSUME NEW c, Complete(c), NEW n \in 1 .. Len(c), c[n].op # "RETURN",
           NEW e, NoJump(e), NEW d, Rewritten(d, c, n, e)
    PROVE  /\ Complete(d)
           /\ Len(d) = Len(c)
           /\ \A k \in 1 .. Len(c) : d[k] = IF k = n THEN e ELSE c[k]
  <1> DEFINE S == {c[k] : k \in DOMAIN c} \cup {e}
  <1>1. Len(c) \in Nat \ {0} /\ DOMAIN c = 1 .. Len(c) /\ c \in Seq(S)
    BY CompleteTypes DEF Complete, Finite
  <1>2. /\ d \in Seq(S)
        /\ Len(d) = Len(c)
        /\ DOMAIN d = 1 .. Len(c)
        /\ \A k \in 1 .. Len(c) : d[k] = IF k = n THEN e ELSE c[k]
    BY <1>1 DEF Rewritten
  <1>3. Finite(d)
    BY <1>2, FiniteSeq
  <1>4. n # Len(c)
    BY DEF Complete
  <1>5. d # <<>> /\ d[Len(d)].op = "RETURN"
    <2> HIDE DEF S
    <2>1. Len(d) # 0 /\ Len(c) \in 1 .. Len(c)
      BY <1>1, <1>2
    <2>3. d[Len(d)] = c[Len(c)]
      BY <1>2, <1>4, <2>1
    <2>2. c[Len(c)].op = "RETURN"
      BY DEF Complete
    <2> QED BY <2>1, <2>2, <2>3
  <1>6. ASSUME NEW k \in DOMAIN d
        PROVE  d[k] = Ins(d[k].op, d[k].t, d[k].a) /\ Finite(d[k].a) /\ Encodes(d[k], d)
    <2>1. CASE k = n
      BY <1>2, <2>1 DEF Encodes, NoJump
    <2>2. CASE k # n
      <3>1. d[k] = c[k] /\ k \in DOMAIN c
        BY <1>1, <1>2, <1>6, <2>2
      <3> QED BY <1>1, <1>2, <3>1 DEF Complete, Encodes
    <2> QED BY <2>1, <2>2
  <1>7. Complete(d)
    BY <1>3, <1>5, <1>6 DEF Complete
  <1> QED BY <1>2, <1>7

(* Where the instruction at k was before the one at pos was removed. *)
Before(k, pos) == IF k < pos THEN k ELSE k + 1

(* Without drops one element and keeps the order of the others. *)
LEMMA WithoutProperties ==
    ASSUME NEW S, NEW s \in Seq(S), NEW pos \in 1 .. Len(s)
    PROVE  /\ Without(s, pos) \in Seq(S)
           /\ Len(Without(s, pos)) = Len(s) - 1
           /\ DOMAIN Without(s, pos) = 1 .. Len(s) - 1
           /\ \A k \in 1 .. Len(s) - 1 : Without(s, pos)[k] = IF k < pos THEN s[k] ELSE s[k + 1]
  <1> DEFINE n == Len(s) - 1
             r == [k \in 1 .. n |-> IF k < pos THEN s[k] ELSE s[k + 1]]
  <1>1. n \in Nat /\ \A k \in 1 .. n : r[k] \in S
    OBVIOUS
  <1>2. r \in Seq(S) /\ Len(r) = n /\ DOMAIN r = 1 .. n
    <2> HIDE DEF n
    <2> QED BY <1>1
  <1> QED BY <1>2 DEF Without

(* A jump with its address moved is the same instruction but for the address. *)
LEMMA ReaddressedProperties ==
    ASSUME NEW c, NEW ins, ins = Ins(ins.op, ins.t, ins.a), Finite(ins.a), Encodes(ins, c), Complete(c), NEW pos \in Int
    PROVE  LET new == Readdressed(ins, pos)
           IN  /\ new = Ins(new.op, new.t, new.a)
               /\ new.op = ins.op
               /\ Finite(new.a) /\ Len(new.a) = Len(ins.a)
               /\ ins.op \in Jumps => AddressOf(new) = Moved(AddressOf(ins), pos)
  <1>1. CASE ins.op \notin Jumps
    BY <1>1 DEF Readdressed
  <1>2. CASE ins.op \in Jumps
    <2> DEFINE n == Address(ins)
               m == Moved(ins.a[n], pos)
               b == [ins.a EXCEPT ![n] = m]
               S == {ins.a[k] : k \in DOMAIN ins.a} \cup {m}
               new == Ins(ins.op, ins.t, b)
    <2>1. n \in 1 .. Len(ins.a)
      BY <1>2 DEF Encodes, Address, OpArgs, OneArgument, TwoArguments, Jumps, BranchOps
    <2>2. ins.a \in Seq(S)
      BY DEF Finite
    <2>3. b \in Seq(S) /\ Len(b) = Len(ins.a) /\ DOMAIN b = 1 .. Len(ins.a) /\ b[n] = m
      BY <2>1, <2>2
    <2>4. Finite(b)
      <3> HIDE DEF b, S
      <3> QED BY <2>3, FiniteSeq
    <2>5. Readdressed(ins, pos) = new
      BY <1>2 DEF Readdressed, Ins
    <2>6. new.op = ins.op /\ new.t = ins.t /\ new.a = b
      BY DEF Ins
    <2>7. AddressOf(new) = m
      BY <2>3, <2>6 DEF AddressOf, Address
    <2>8. m = Moved(AddressOf(ins), pos)
      BY DEF AddressOf
    <2>9. new = Ins(new.op, new.t, new.a)
      BY <2>6
    <2> HIDE DEF new, m, b
    <2> QED BY <2>3, <2>4, <2>5, <2>6, <2>7, <2>8, <2>9
  <1> QED BY <1>1, <1>2

(* removeInstruction of an instruction other than the last leaves code that is complete. *)
LEMMA RemoveCode ==
    ASSUME NEW c, Complete(c), NEW pos \in 1 .. Len(c) - 1
    PROVE  /\ Complete(Removed(c, pos))
           /\ Len(Removed(c, pos)) = Len(c) - 1
           /\ \A k \in 1 .. Len(c) - 1 :
                /\ Removed(c, pos)[k].op = c[Before(k, pos)].op
                /\ c[Before(k, pos)].op \in Jumps =>
                     AddressOf(Removed(c, pos)[k]) = Moved(AddressOf(c[Before(k, pos)]), pos)
  <1> DEFINE n == Len(c) - 1
             d == Removed(c, pos)
             Old(k) == c[Before(k, pos)]
             S == {Readdressed(Old(k), pos) : k \in 1 .. n}
  <1>1. Len(c) \in Nat \ {0} /\ DOMAIN c = 1 .. Len(c) /\ c \in Seq({c[k] : k \in DOMAIN c})
    BY CompleteTypes DEF Complete, Finite
  <1>2. \A k \in 1 .. n : Without(c, pos)[k] = Old(k)
    <2> DEFINE T == {c[k] : k \in DOMAIN c}
    <2>1. c \in Seq(T) /\ pos \in 1 .. Len(c)
      BY <1>1
    <2> HIDE DEF T
    <2> QED BY <2>1, WithoutProperties DEF Before
  <1>3. d = [k \in 1 .. n |-> Readdressed(Old(k), pos)]
    BY <1>2 DEF Removed
  <1>4. n \in Nat /\ n >= 1 /\ pos \in 1 .. n /\ Len(c) = n + 1
    BY <1>1
  <1>5. /\ d \in Seq(S)
        /\ Len(d) = n
        /\ DOMAIN d = 1 .. n
        /\ \A k \in 1 .. n : d[k] = Readdressed(Old(k), pos)
    <2> HIDE DEF d, n, Old
    <2> QED BY <1>3, <1>4
  <1> HIDE DEF d, S
  <1>6. ASSUME NEW k \in 1 .. n
        PROVE  /\ d[k] = Ins(d[k].op, d[k].t, d[k].a)
               /\ d[k].op = Old(k).op
               /\ Finite(d[k].a) /\ Len(d[k].a) = OpArgs(d[k].op)
               /\ d[k].op \in Jumps =>
                    AddressOf(d[k]) = Moved(AddressOf(Old(k)), pos) /\ AddressOf(d[k]) \in 1 .. n
    <2>1. PICK old \in DOMAIN c : Old(k) = c[old]
      BY <1>1, <1>4, <1>6 DEF Before
    <2>2. c[old] = Ins(c[old].op, c[old].t, c[old].a) /\ Finite(c[old].a) /\ Encodes(c[old], c)
      BY DEF Complete
    <2> DEFINE new == Readdressed(c[old], pos)
    <2>3. /\ new = Ins(new.op, new.t, new.a)
          /\ new.op = c[old].op
          /\ Finite(new.a) /\ Len(new.a) = Len(c[old].a)
          /\ c[old].op \in Jumps => AddressOf(new) = Moved(AddressOf(c[old]), pos)
      BY <2>2, ReaddressedProperties
    <2>4. d[k] = new
      BY <1>5, <1>6, <2>1
    <2> HIDE DEF new, Old
    <2>5. c[old].op \in Jumps => Moved(AddressOf(c[old]), pos) \in 1 .. n
      <3>1. c[old].op \in Jumps => AddressOf(c[old]) \in 1 .. n + 1
        BY <1>1, <1>4, <2>2 DEF Encodes
      <3> HIDE DEF n
      <3> QED BY <1>4, <3>1 DEF Moved
    <2> QED BY <2>1, <2>2, <2>3, <2>4, <2>5 DEF Encodes
  <1>7. d # <<>> /\ d[Len(d)].op = "RETURN"
    <2>1. n \in 1 .. n /\ Old(n) = c[Len(c)]
      BY <1>4 DEF Before
    <2>2. c[Len(c)].op = "RETURN"
      BY DEF Complete
    <2> HIDE DEF Old, n
    <2>3. Len(d) # 0
      BY <1>4, <1>5
    <2>4. d[Len(d)].op = "RETURN"
      BY <1>5, <1>6, <2>1, <2>2
    <2> QED BY <2>3, <2>4
  <1>8. Complete(d)
    <2> HIDE DEF n, Old
    <2>1. \A k \in DOMAIN d : Encodes(d[k], d)
      BY <1>5, <1>6 DEF Encodes
    <2>2. Finite(d)
      BY <1>5, FiniteSeq
    <2> QED BY <1>5, <1>6, <1>7, <2>1, <2>2 DEF Complete
  <1>9. \A k \in 1 .. n :
          /\ d[k].op = Old(k).op
          /\ Old(k).op \in Jumps => AddressOf(d[k]) = Moved(AddressOf(Old(k)), pos)
    BY <1>6
  <1>10. Len(d) = Len(c) - 1
    BY <1>5
  <1> QED BY <1>8, <1>9, <1>10 DEF d

(* The smallest position of the list, which is one of the list. *)
LEMMA FirstIsLeast ==
    ASSUME NEW S, S # {}, NEW low \in Int, \A r \in S : r \in Int /\ r >= low
    PROVE  First(S) \in S /\ \A q \in S : First(S) <= q
  <1> DEFINE T == {r - low : r \in S}
  <1>1. T \in SUBSET Nat /\ T # {}
    OBVIOUS
  <1>2. PICK n \in T : \A m \in T : n <= m
    <2> DEFINE R == OpToRel(<, Nat)
    <2>1. \A x, y \in Nat : x < y => <<x, y>> \in R
      BY DEF OpToRel
    <2>2. IsWellFoundedOn(R, Nat)
      BY NatLessThanWellFounded
    <2> HIDE DEF T, R
    <2>3. PICK least \in T : \A m \in T : ~(<<m, least>> \in R)
      BY <1>1, <2>2, WFMin
    <2>4. \A m \in T : ~(m < least)
      BY <1>1, <2>1, <2>3, Zenon
    <2>5. \A m \in T : least <= m
      BY <1>1, <2>4
    <2> QED BY <2>5
  <1>3. PICK r \in S : n = r - low
    OBVIOUS
  <1>4. ASSUME NEW q \in S PROVE r <= q
    <2>1. q - low \in T
      OBVIOUS
    <2>2. r - low <= q - low
      BY <1>2, <1>3, <2>1
    <2> QED BY <2>2
  <1> QED BY <1>4 DEF First

-----------------------------------------------------------------------------
(* Before the first pass every instruction is where it was assembled. *)
LEMMA InitInv == Init => OInv
  <1> SUFFICES ASSUME Init PROVE OInv
    OBVIOUS
  <1>1. Complete(code)
    BY InputAssumption DEF Init
  <1>2. Len(code) \in Nat \ {0} /\ DOMAIN code = 1 .. Len(code)
    BY <1>1, CompleteTypes
  <1>3. /\ origin \in Seq(Int) /\ Len(origin) = Len(code)
        /\ \A k \in 1 .. Len(code) : origin[k] = k
    BY <1>2 DEF Init
  <1>4. Ordinary
    <2>1. 1 \in 1 .. Len(code) + 1
      BY <1>2
    <2> QED BY <2>1 DEF Init, Ordinary, Phases
  <1>5. TargetsKept
    BY <1>2, <1>3 DEF Init, TargetsKept
  <1>6. Marked /\ Remembered
    BY DEF Init, Marked, Remembered
  <1> QED BY <1>1, <1>3, <1>4, <1>5, <1>6 DEF OInv

(* What a pass that removes nothing leaves of the invariant. *)
CodeKept ==
    /\ Complete(code') /\ TargetsKept'
    /\ Len(code') = Len(code)
    /\ origin' \in Seq(Int) /\ Len(origin') = Len(code')

(* A step that touches no code keeps what the invariant says of it. *)
LEMMA SameCode == OInv /\ UNCHANGED <<code, origin, assembled>> => CodeKept
  BY DEF OInv, CodeKept, TargetsKept

(* Rewriting one instruction keeps what the invariant says of the code. *)
LEMMA RewriteStep ==
    ASSUME OInv, NEW n \in 1 .. Len(code), code[n].op # "RETURN",
           NEW e, NoJump(e),
           Rewritten(code', code, n, e), UNCHANGED <<origin, assembled>>
    PROVE  CodeKept
  <1>1. /\ Complete(code')
        /\ Len(code') = Len(code)
        /\ \A k \in 1 .. Len(code) : code'[k] = IF k = n THEN e ELSE code[k]
    <2>1. Complete(code)
      BY DEF OInv
    <2> QED BY <2>1, RewriteCode
  <1>2. DOMAIN code = 1 .. Len(code) /\ DOMAIN code' = 1 .. Len(code)
    BY <1>1, CompleteTypes DEF OInv
  <1>3. TargetsKept'
    <2> SUFFICES ASSUME NEW k \in DOMAIN code', code'[k].op \in Jumps
                 PROVE  /\ assembled[origin[k]].op = code'[k].op
                        /\ \A j \in DOMAIN code' :
                             j < AddressOf(code'[k]) <=> origin[j] < AddressOf(assembled[origin[k]])
      BY DEF TargetsKept
    <2>1. k # n /\ code'[k] = code[k]
      BY <1>1, <1>2 DEF NoJump
    <2> QED BY <1>2, <2>1 DEF OInv, TargetsKept
  <1> QED BY <1>1, <1>3 DEF OInv, CodeKept

(* The instructions that the passes write. *)
LEMMA WrittenInstructions ==
    /\ NoJump(Ins("DUP", 0, <<>>))
    /\ \A t, x : NoJump(Ins("PUSH", t, <<x>>))
    /\ \A x, y : NoJump(Ins("INC_VAR", 2, <<x, y>>))
  <1>1. NoJump(Ins("DUP", 0, <<>>))
    <2>1. Finite(<<>>) /\ Len(<<>>) = 0
      BY DEF Finite
    <2> QED BY <2>1 DEF NoJump, Ins, OpArgs, OneArgument, TwoArguments, Jumps, BranchOps
  <1>2. ASSUME NEW t, NEW x PROVE NoJump(Ins("PUSH", t, <<x>>))
    <2>1. <<x>> \in Seq({x}) /\ Len(<<x>>) = 1
      OBVIOUS
    <2>2. Finite(<<x>>)
      BY <2>1, FiniteSeq
    <2> QED BY <2>1, <2>2 DEF NoJump, Ins, OpArgs, OneArgument, TwoArguments, Jumps, BranchOps
  <1>3. ASSUME NEW x, NEW y PROVE NoJump(Ins("INC_VAR", 2, <<x, y>>))
    <2>1. <<x, y>> \in Seq({x, y}) /\ Len(<<x, y>>) = 2
      OBVIOUS
    <2>2. Finite(<<x, y>>)
      BY <2>1, FiniteSeq
    <2> QED BY <2>1, <2>2 DEF NoJump, Ins, OpArgs, OneArgument, TwoArguments, Jumps, BranchOps
  <1> QED BY <1>1, <1>2, <1>3

(* The rest of the invariant when a pass goes on to the next instruction. *)
LEMMA NextInstruction ==
    ASSUME OInv, CodeKept, i <= Len(code), i' = i + 1,
           phase \in {"infer", "known", "unused"}, UNCHANGED <<phase, removed, changed, again>>,
           removeList' \subseteq removeList \cup (IF i > 1 THEN {i - 1, i} ELSE {}),
           removeList' # removeList => i < Len(code)
    PROVE  OInv'
  <1>1. Len(code) \in Nat \ {0} /\ i \in 1 .. Len(code) + 1
    BY CompleteTypes DEF OInv, Ordinary
  <1>2. Ordinary'
    BY <1>1 DEF OInv, CodeKept, Ordinary
  <1>3. Marked'
    <2>1. removed = 0
      BY DEF OInv, Marked
    <2>2. CASE removeList' = removeList
      BY <2>1, <2>2 DEF OInv, Marked, CodeKept
    <2>3. CASE removeList' # removeList
      <3>1. i < Len(code) /\ Len(code') = Len(code) /\ removed' = 0
        BY <2>1, <2>3 DEF CodeKept
      <3>2. ASSUME NEW r \in removeList' PROVE r \in Int /\ r \in 1 .. Len(code) - 1
        <4>1. CASE r \in removeList
          BY <2>1, <4>1 DEF OInv, Marked
        <4>2. CASE r \notin removeList
          BY <1>1, <3>1, <4>2
        <4> QED BY <4>1, <4>2
      <3>3. \A r \in removeList' : r - 0 \in 1 .. Len(code) - 1
        BY <3>2
      <3> QED BY <3>1, <3>2, <3>3 DEF Marked
    <2> QED BY <2>2, <2>3
  <1>4. Remembered'
    BY DEF Remembered
  <1> QED BY <1>2, <1>3, <1>4 DEF OInv, CodeKept

(* Pass 1 rewrites loads and arithmetic only. *)
LEMMA InferStep == OInv /\ Infer => OInv'
  <1> SUFFICES ASSUME OInv, Infer PROVE OInv'
    OBVIOUS
  <1> DEFINE ins == code[i]
  <1>1. Complete(code) /\ Len(code) \in Nat \ {0} /\ DOMAIN code = 1 .. Len(code) /\ i \in 1 .. Len(code)
    <2>1. i <= Len(code)
      BY DEF Infer
    <2> QED BY <2>1, CompleteTypes DEF OInv, Ordinary
  <1>2. UNCHANGED <<origin, assembled>>
    BY DEF Infer
  <1>3. CodeKept
    <2>1. CASE ins.op = "LOAD_VAR"
      <3>1. code' = DoubleLoad(code)
        BY <2>1 DEF Infer
      <3>2. CASE code' = code
        BY <1>2, <3>2, SameCode
      <3>3. CASE code' # code
        <4>1. /\ i + 1 \in 1 .. Len(code)
              /\ code[i + 1].op # "RETURN"
              /\ Rewritten(code', code, i + 1, Ins("DUP", 0, <<>>))
          BY <1>1, <3>1, <3>3 DEF DoubleLoad, Rewritten
        <4> QED BY <1>2, <4>1, RewriteStep, WrittenInstructions
      <3> QED BY <3>2, <3>3
    <2>2. CASE ins.op \in {"STORE_VAR", "INC_VAR"}
      <3>1. code' = code
        BY <2>2 DEF Infer
      <3> QED BY <1>2, <3>1, SameCode
    <2>3. CASE ins.op \notin {"LOAD_VAR", "STORE_VAR", "INC_VAR"}
      <3>1. code' = Retyped(code, ins)
        BY <2>3 DEF Infer
      <3>2. CASE code' = code
        BY <1>2, <3>2, SameCode
      <3>3. CASE code' # code
        <4> DEFINE e == Ins(ins.op, prevType, ins.a)
        <4>1. Rewritten(code', code, i, e) /\ ins.op \in ArithmeticOps
          BY <3>1, <3>3 DEF Retyped, Rewritten
        <4>2. Finite(ins.a) /\ Len(ins.a) = OpArgs(ins.op)
          BY <1>1 DEF Complete, Encodes
        <4>3. NoJump(e) /\ ins.op # "RETURN"
          BY <4>1, <4>2 DEF NoJump, Ins, ArithmeticOps, Jumps, BranchOps
        <4> HIDE DEF e
        <4> QED BY <1>1, <1>2, <4>1, <4>3, RewriteStep
      <3> QED BY <3>2, <3>3
    <2> QED BY <2>1, <2>2, <2>3
  <1> QED BY <1>1, <1>3, NextInstruction DEF Infer

(* Pass 2 rewrites loads only. *)
LEMMA KnownStep == OInv /\ Known => OInv'
  <1> SUFFICES ASSUME OInv, Known PROVE OInv'
    OBVIOUS
  <1>1. Complete(code) /\ Len(code) \in Nat \ {0} /\ i \in 1 .. Len(code)
    BY CompleteTypes DEF OInv, Ordinary, Known
  <1>2. UNCHANGED <<origin, assembled>>
    BY DEF Known
  <1>3. CodeKept
    <2>1. CASE code' = code
      BY <1>2, <2>1, SameCode
    <2>2. CASE code' # code
      <3> DEFINE v == code[i].a[1]
                 e == Ins("PUSH", info[v].type, <<info[v].last.n>>)
      <3>1. Rewritten(code', code, i, e) /\ code[i].op # "RETURN"
        BY <2>2 DEF Known, Rewritten
      <3>2. NoJump(e)
        BY WrittenInstructions
      <3> HIDE DEF e
      <3> QED BY <1>1, <1>2, <3>1, <3>2, RewriteStep
    <2> QED BY <2>1, <2>2
  <1> QED BY <1>1, <1>3, NextInstruction DEF Known

(* Pass 3 marks pairs in front of the last instruction. *)
LEMMA UnusedStep == OInv /\ Unused => OInv'
  <1> SUFFICES ASSUME OInv, Unused PROVE OInv'
    OBVIOUS
  <1>1. CodeKept
    BY SameCode DEF Unused
  <1>2. Len(code) \in Nat \ {0} /\ i \in 1 .. Len(code)
    BY CompleteTypes DEF OInv, Ordinary, Unused
  <1>3. code[Len(code)].op = "RETURN"
    BY DEF OInv, Complete
  <1>4. /\ removeList' \subseteq removeList \cup (IF i > 1 THEN {i - 1, i} ELSE {})
        /\ removeList' # removeList => i # Len(code)
    BY <1>3 DEF Unused
  <1> QED BY <1>1, <1>2, <1>4, NextInstruction DEF Unused

-----------------------------------------------------------------------------
(* The next pass begins at the first instruction, with nothing removed yet. *)
LEMMA BeginStep ==
    ASSUME OInv, UNCHANGED <<code, origin, assembled>>, changed' \in BOOLEAN, again' \in BOOLEAN,
           NEW p \in Phases, Begin(p), removeList = {} \/ removed = 0
    PROVE  OInv'
  <1>1. CodeKept
    BY SameCode
  <1>2. Len(code) \in Nat \ {0}
    BY CompleteTypes DEF OInv
  <1>3. Ordinary'
    BY <1>1, <1>2 DEF Begin, Ordinary, CodeKept
  <1>4. Marked'
    BY <1>1, <1>2 DEF OInv, Begin, Marked, CodeKept
  <1>5. Remembered'
    BY DEF Begin, Remembered, IsPush, Nop, Ins
  <1> QED BY <1>1, <1>3, <1>4, <1>5 DEF OInv, CodeKept

(* removeInstruction at the next position of the list. *)
LEMMA RemoveStep ==
    ASSUME OInv, NEW p \in {"remove", "squeeze"}, RemoveNext(p)
    PROVE  OInv'
  <1> DEFINE first == First(removeList)
             pos == first - removed
  <1>1. Len(code) \in Nat \ {0} /\ DOMAIN code = 1 .. Len(code) /\ Complete(code)
    BY CompleteTypes DEF OInv
  <1>2. removed \in Nat /\ \A r \in removeList : r \in Int /\ r - removed \in 1 .. Len(code) - 1
    BY DEF OInv, Marked
  <1>3. first \in removeList /\ \A q \in removeList : first <= q
    <2>1. removed \in Int /\ \A r \in removeList : r \in Int /\ r >= removed
      BY <1>1, <1>2
    <2>2. removeList # {}
      BY DEF RemoveNext
    <2> QED BY <2>1, <2>2, FirstIsLeast
  <1>4. first \in Int /\ pos \in 1 .. Len(code) - 1
    BY <1>2, <1>3
  <1>5. /\ code' = Removed(code, pos) /\ origin' = Without(origin, pos)
        /\ removeList' = removeList \ {first} /\ removed' = removed + 1
        /\ again' = TRUE /\ UNCHANGED <<phase, i, changed, assembled>> /\ phase = p
    BY DEF RemoveNext, state
  <1> HIDE DEF first, pos
  <1>6. /\ Complete(code')
        /\ Len(code') = Len(code) - 1
        /\ \A k \in 1 .. Len(code) - 1 :
             /\ code'[k].op = code[Before(k, pos)].op
             /\ code[Before(k, pos)].op \in Jumps =>
                  AddressOf(code'[k]) = Moved(AddressOf(code[Before(k, pos)]), pos)
    BY <1>1, <1>4, <1>5, RemoveCode
  <1>7. DOMAIN code' = 1 .. Len(code) - 1 /\ Len(code') \in Nat \ {0}
    BY <1>6, CompleteTypes
  <1>8. /\ origin' \in Seq(Int) /\ Len(origin') = Len(code')
        /\ \A k \in 1 .. Len(code) - 1 : origin'[k] = origin[Before(k, pos)]
    <2>1. origin \in Seq(Int) /\ pos \in 1 .. Len(origin)
      BY <1>1, <1>4 DEF OInv
    <2>2. Len(origin) = Len(code)
      BY DEF OInv
    <2> QED BY <1>5, <1>6, <2>1, <2>2, WithoutProperties DEF Before
  <1>9. TargetsKept'
    <2> SUFFICES ASSUME NEW k \in 1 .. Len(code) - 1, code'[k].op \in Jumps
                 PROVE  /\ assembled[origin'[k]].op = code'[k].op
                        /\ \A j \in 1 .. Len(code) - 1 :
                             j < AddressOf(code'[k]) <=> origin'[j] < AddressOf(assembled[origin'[k]])
      BY <1>5, <1>7 DEF TargetsKept
    <2> DEFINE old == Before(k, pos)
               now == AddressOf(code[old])
               was == AddressOf(assembled[origin[old]])
    <2>1. old \in 1 .. Len(code)
      BY <1>1, <1>4 DEF Before
    <2>2. code[old].op \in Jumps /\ code'[k].op = code[old].op /\ origin'[k] = origin[old]
      BY <1>6, <1>8
    <2>3. AddressOf(code'[k]) = Moved(now, pos)
      BY <1>6, <2>2
    <2>4. assembled[origin[old]].op = code[old].op /\ \A j \in 1 .. Len(code) : j < now <=> origin[j] < was
      BY <1>1, <2>1, <2>2 DEF OInv, TargetsKept
    <2>5. now \in Int
      BY <1>1, <2>1, <2>2 DEF Complete, Encodes
    <2> HIDE DEF now, was, old
    <2>6. ASSUME NEW j \in 1 .. Len(code) - 1
          PROVE  j < Moved(now, pos) <=> origin[Before(j, pos)] < was
      <3>1. Before(j, pos) \in 1 .. Len(code)
        BY <1>1, <1>4 DEF Before
      <3>2. j < Moved(now, pos) <=> Before(j, pos) < now
        BY <1>1, <1>4, <2>5 DEF Before, Moved
      <3> QED BY <2>4, <3>1, <3>2
    <2> QED BY <1>8, <2>2, <2>3, <2>4, <2>6 DEF was
  <1>10. Marked'
    <2>1. ASSUME NEW r \in removeList' PROVE r \in Int /\ r - removed' \in 1 .. Len(code') - 1
      <3>1. r \in removeList /\ r # first /\ first <= r
        BY <1>3, <1>5
      <3>2. r \in Int /\ r - removed \in 1 .. Len(code) - 1
        BY <1>2, <3>1
      <3>3. first < r /\ first - removed >= 1
        BY <1>2, <1>3, <1>4, <3>1, <3>2
      <3> QED BY <1>1, <1>2, <1>4, <1>5, <1>6, <3>2, <3>3
    <2> QED BY <1>2, <1>5, <2>1 DEF Marked
  <1>11. Ordinary'
    BY <1>5, <1>7 DEF OInv, Ordinary
  <1>12. Remembered'
    BY <1>5 DEF Remembered
  <1> QED BY <1>6, <1>8, <1>9, <1>10, <1>11, <1>12 DEF OInv

(* optimiseArithmetic marks the operands behind i, which are there: prev was pushed from them. *)
LEMMA FoldStep == OInv /\ Fold => OInv'
  <1> SUFFICES ASSUME OInv, Fold PROVE OInv'
    OBVIOUS
  <1> DEFINE ins == code[i]
             result == Folded(ins.op, ins.t, prev[1].a[1], prev[2].a[1])
             push == Ins("PUSH", ins.t, <<result.n>>)
             increment == Ins("INC_VAR", 2, <<prev[2].a[1], prev[3].a[1]>>)
             Shifted == prev' = <<ins, prev[1], prev[2]>> /\ i' = i + 1 /\ phase' = phase
  <1>1. phase = "fold" /\ i <= Len(code) /\ UNCHANGED <<removed, again, assembled, origin>>
    BY DEF Fold
  <1>2. Complete(code) /\ Len(code) \in Nat \ {0} /\ i \in 1 .. Len(code)
    BY <1>1, CompleteTypes DEF OInv, Ordinary
  <1>3. removed = 0 /\ (IsPush(prev[1]) => i > 1) /\ (IsPush(prev[2]) => i > 2) /\ (IsPush(prev[3]) => i > 3)
    BY <1>1 DEF OInv, Marked, Remembered
  <1>4. \/ /\ Folds(ins) /\ Shifted /\ Rewritten(code', code, i, push)
           /\ removeList' = removeList \cup {i - 1, i - 2} /\ changed' = TRUE
        \/ phase' = "trap" /\ UNCHANGED <<code, removeList, changed, i>>
        \/ /\ Increments(ins) /\ Shifted /\ Rewritten(code', code, i, increment)
           /\ removeList' = removeList \cup {i - 1, i - 2, i - 3} /\ changed' = TRUE
        \/ Shifted /\ UNCHANGED <<code, removeList, changed>>
    BY DEF Fold, Rewritten
  <1>5. NoJump(push) /\ NoJump(increment)
    BY WrittenInstructions
  <1> HIDE DEF push, increment
  <1>6. CodeKept
    <2>1. CASE code' = code
      BY <1>1, <2>1, SameCode
    <2>2. CASE Folds(ins) /\ Rewritten(code', code, i, push)
      <3>1. ins.op # "RETURN"
        BY <2>2 DEF Folds, ArithmeticOps
      <3> QED BY <1>1, <1>2, <1>5, <2>2, <3>1, RewriteStep
    <2>3. CASE Increments(ins) /\ Rewritten(code', code, i, increment)
      <3>1. ins.op # "RETURN"
        BY <2>3 DEF Increments
      <3> QED BY <1>1, <1>2, <1>5, <2>3, <3>1, RewriteStep
    <2> QED BY <1>4, <2>1, <2>2, <2>3
  <1>7. Len(code') = Len(code)
    BY <1>6 DEF CodeKept
  <1>8. Ordinary'
    <2>1. changed \in BOOLEAN /\ again \in BOOLEAN
      BY DEF OInv, Ordinary
    <2>2. changed' \in BOOLEAN /\ again' \in BOOLEAN
      BY <1>1, <1>4, <2>1, Zenon
    <2>3. phase' \in {"fold", "trap"} /\ i' \in {i, i + 1}
      BY <1>1, <1>4
    <2> QED BY <1>2, <1>7, <2>2, <2>3 DEF Ordinary, Phases
  <1>9. Marked'
    <2>1. \A r \in removeList : r \in Int /\ r \in 1 .. Len(code) - 1
      BY <1>3 DEF OInv, Marked
    <2>2. ASSUME NEW r \in removeList' PROVE r \in Int /\ r \in 1 .. Len(code) - 1
      <3>1. CASE r \in removeList
        BY <2>1, <3>1
      <3>2. CASE Folds(ins) /\ r \in {i - 1, i - 2}
        BY <1>2, <1>3, <3>2 DEF Folds
      <3>3. CASE Increments(ins) /\ r \in {i - 1, i - 2, i - 3}
        BY <1>2, <1>3, <3>3 DEF Increments
      <3> QED BY <1>4, <2>2, <3>1, <3>2, <3>3
    <2>3. \A r \in removeList' : r - 0 \in 1 .. Len(code) - 1
      BY <2>2
    <2> QED BY <1>1, <1>3, <1>7, <2>2, <2>3 DEF Marked
  <1>10. Remembered'
    <2>1. CASE phase' = "trap"
      BY <2>1 DEF Remembered
    <2>2. CASE Shifted
      <3>1. prev'[1] = ins /\ prev'[2] = prev[1] /\ prev'[3] = prev[2] /\ i' = i + 1
        BY <2>2
      <3>2. (IsPush(prev'[2]) => i' > 2) /\ (IsPush(prev'[3]) => i' > 3) /\ i' > 1
        BY <1>2, <1>3, <3>1
      <3>3. \A n \in 1 .. 3 : n = 1 \/ n = 2 \/ n = 3
        OBVIOUS
      <3> QED BY <3>2, <3>3 DEF Remembered, IsPush
    <2> QED BY <1>4, <2>1, <2>2
  <1> QED BY <1>6, <1>8, <1>9, <1>10 DEF OInv, CodeKept

(* Every step of the passes keeps the invariant. *)
LEMMA StepInv == OInv /\ [Next]_vars => OInv'
  <1> SUFFICES ASSUME OInv, [Next]_vars PROVE OInv'
    OBVIOUS
  <1>1. changed \in BOOLEAN /\ again \in BOOLEAN
    BY DEF OInv, Ordinary
  <1>2. phase \in {"infer", "known", "unused", "fold"} => removed = 0
    BY DEF OInv, Marked
  <1>3. CASE Infer
    BY <1>3, InferStep
  <1>4. CASE InferDone
    BY <1>1, <1>2, <1>4, BeginStep DEF InferDone, Phases
  <1>5. CASE Known
    BY <1>5, KnownStep
  <1>6. CASE KnownDone
    BY <1>1, <1>2, <1>6, BeginStep DEF KnownDone, Phases
  <1>7. CASE Unused
    BY <1>7, UnusedStep
  <1>8. CASE UnusedDone
    BY <1>1, <1>2, <1>8, BeginStep DEF UnusedDone, Phases
  <1>9. CASE RemoveUnused
    BY <1>9, RemoveStep DEF RemoveUnused
  <1>10. CASE RemoveDone
    BY <1>1, <1>10, BeginStep DEF RemoveDone, Phases
  <1>11. CASE Fold
    BY <1>11, FoldStep
  <1>12. CASE FoldDone
    BY <1>1, <1>2, <1>12, BeginStep DEF FoldDone, Phases
  <1>13. CASE RemoveFolded
    BY <1>13, RemoveStep DEF RemoveFolded
  <1>14. CASE SqueezeDone
    <2>1. PICK p \in Phases : Begin(p)
      BY <1>14 DEF SqueezeDone, Phases
    <2>2. changed' \in BOOLEAN /\ again' \in BOOLEAN
      BY <1>1, <1>14, Zenon DEF SqueezeDone
    <2>3. UNCHANGED <<code, origin, assembled>> /\ removeList = {}
      BY <1>14 DEF SqueezeDone
    <2> QED BY <2>1, <2>2, <2>3, BeginStep
  <1>15. CASE UNCHANGED vars
    BY <1>15 DEF vars, state, OInv, Ordinary, TargetsKept, Marked, Remembered
  <1> QED BY <1>3, <1>4, <1>5, <1>6, <1>7, <1>8, <1>9, <1>10, <1>11, <1>12, <1>13, <1>14, <1>15
          DEF Next, Optimise, Finished

-----------------------------------------------------------------------------
(* The invariant holds in every reachable state. *)
LEMMA InvTheorem == Spec => []OInv
  BY InitInv, StepInv, PTL DEF Spec

(***************************************************************************)
(* The positions that the loops of optimise read and remove are inside the *)
(* code, for any code the assembler gives them and any number of rounds.   *)
(***************************************************************************)
THEOREM TypeTheorem == Spec => []TypeOK
  <1>1. OInv => TypeOK
    <2> SUFFICES ASSUME OInv PROVE TypeOK
      OBVIOUS
    <2>1. Len(code) \in Nat \ {0}
      BY CompleteTypes DEF OInv
    <2>2. \A r \in removeList : r - removed \in 1 .. Len(code)
      BY <2>1 DEF OInv, Marked
    <2> QED BY <2>2 DEF OInv, Ordinary, Marked, TypeOK
  <1> QED BY <1>1, InvTheorem, PTL

(***************************************************************************)
(* removeInstruction moves the jumps with the code: however much was       *)
(* removed, each jump arrives at the first instruction left of those from  *)
(* its assembled target on.                                                *)
(***************************************************************************)
THEOREM JumpsTheorem == Spec => []JumpsKept
  <1>1. OInv => JumpsKept
    BY DEF OInv, TargetsKept, JumpsKept
  <1> QED BY <1>1, InvTheorem, PTL

(***************************************************************************)
(* Whatever optimise makes of a function that could be written out, it can *)
(* be written out: every opcode has its arguments, no jump leaves the code.*)
(***************************************************************************)
THEOREM EncodableTheorem == Spec => []Encodable
  <1>1. OInv => Encodable
    BY DEF OInv, Complete, Encodable
  <1> QED BY <1>1, InvTheorem, PTL
=============================================================================
