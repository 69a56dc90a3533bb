---------------------------- MODULE MachineProofs ----------------------------
(***************************************************************************)
(* Theorems about Machine: whatever program the machine is given, if it is *)
(* Verified, no path through it makes the two stacks disagree.             *)
(***************************************************************************)
EXTENDS Machine, SequenceTheorems, TLAPS

-----------------------------------------------------------------------------
(***************************************************************************)
(* The inductive invariant                                                 *)
(***************************************************************************)
(* The arguments on the stack that constructors still to be called will take. *)
Owed(todo) == IF todo = <<>> THEN 0 ELSE Last(todo).argc

(* What an activation leaves on the stack, above where its own result goes and
   below where the result goes of what it calls; that result counts as well. *)
Room(a) == IF a.kind = "run" THEN StackMap[a.fn][a.pc].depth ELSE Owed(a.todo)

(* A call of f by a: if f may throw, a is ready for it. *)
MayCall(a, f) ==
    IF a.kind = "run"
      THEN f \in Throws => Catches(a.fn, StackMap[a.fn][a.pc].depth - 1, a.handlers)
      ELSE f \notin Throws

(* An activation by itself. *)
RunOK(a) ==
    /\ a \in [kind : {"run"}, fn : Scripts, pc : Nat, handlers : Seq(Nat)]
    /\ a.pc \in DOMAIN Code[a.fn]
    /\ a.handlers = StackMap[a.fn][a.pc].nest

NewOK(a) ==
    /\ a \in [kind : {"new"}, todo : Seq([fn : Callees, argc : Nat])]
    /\ \A k \in DOMAIN a.todo : a.todo[k].fn \notin Throws
    /\ \A k \in DOMAIN a.todo : k < Len(a.todo) => a.todo[k].argc = 0

(* Activations and their callers: a run of a script that waits for a call has
   a place for its result, and only a run makes objects. *)
Chain(c) ==
    /\ \A i \in DOMAIN c : RunOK(c[i]) \/ NewOK(c[i])
    /\ \A i \in DOMAIN c : c[i].kind = "new" => i > 1 /\ c[i - 1].kind = "run"
    /\ \A i \in DOMAIN c : i > 1 /\ c[i].kind = "run" => MayCall(c[i - 1], c[i].fn)
    /\ \A i \in DOMAIN c : i < Len(c) /\ c[i].kind = "run" => Room(c[i]) > 0

(* b[i] is where the result of the activation c[i] goes, which is where its
   marker is if it has one: there is a marker there, and nowhere else. *)
Shape(s, c, b) ==
    /\ b \in [1 .. Len(c) -> Nat]
    /\ \A i \in 1 .. Len(c) : b[i] = IF i = 1 THEN 1 ELSE b[i - 1] + Room(c[i - 1])
    /\ \A i, j \in 1 .. Len(c) :
          i < j => b[i] <= b[j] /\ (c[i].kind = "run" => b[i] < b[j])
    /\ \A i \in 1 .. Len(c) : c[i].kind = "run" => b[i] \in 1 .. Len(s) /\ s[b[i]] = i
    /\ \A p \in 1 .. Len(s) :
          s[p] = Value \/ \E i \in 1 .. Len(c) : c[i].kind = "run" /\ b[i] = p /\ s[p] = i

(* Where the result goes of what the last activation calls. *)
Place(c, b) == IF c = <<>> THEN 1 ELSE b[Len(c)] + Room(Last(c))

(* The place is taken unless newObject is still at work (its last activation
   waits for nobody, r = "none"), or an exception takes the place of a result. *)
Filled(s, c, b, r, e) ==
    Len(s) = IF e \/ (c # <<>> /\ Last(c).kind = "new" /\ r = "none")
               THEN Place(c, b) - 1 ELSE Place(c, b)

(* An activation to which a call returns can take the result, or the exception. *)
Answered(c, e) ==
    c # <<>> =>
      /\ Last(c).kind = "run" => Room(Last(c)) > 0
      /\ e => /\ Last(c).kind = "run"
              /\ Catches(Last(c).fn, Room(Last(c)) - 1, Last(c).handlers)

(* What holds of the value stack s, the activations c, the answer r and the
   pending exception e. *)
Typed(s, c, r, e) ==
    /\ s \in Seq(Nat)
    /\ c \in Seq(Activations)
    /\ Chain(c)
    /\ r \in {"none", "ok", "fail"}
    /\ e \in BOOLEAN

Sound(s, c, r, e) ==
    /\ Typed(s, c, r, e)
    /\ e => r = "ok"
    /\ r # "fail" => \E b : Shape(s, c, b) /\ Filled(s, c, b, r, e)
    /\ r = "ok" => Answered(c, e)

MInv ==
    /\ Typed(stack, control, ret, exception)
    /\ status \in {"running", "done", "failed", "uncaught"}
    /\ status = "running" => Sound(stack, control, ret, exception)
    /\ CleanEnd

(* A step that the machine survives keeps the two stacks sound. *)
Kept == status' = "running" /\ Sound(stack', control', ret', exception')

(* It leaves at most k on the value stack, and no constructor to be called. *)
Step(k) == Kept /\ Len(stack') <= k /\ ~(Building' /\ ret' = "none")

(* Before an opcode the margin is free, behind it two values may be in it;
   newObject starts behind a check of its own opcode. *)
Bounded ==
    /\ Len(stack) <= StackSize - Margin + 1
    /\ Building /\ ret = "none" => Len(stack) <= StackSize - Margin

-----------------------------------------------------------------------------
(***************************************************************************)
(* Lemmas about stacks                                                     *)
(***************************************************************************)
(* A stack without its top. *)
LEMMA FrontProperties ==
    ASSUME NEW S, NEW s \in Seq(S), s # <<>>
    PROVE  /\ Front(s) \in Seq(S)
           /\ Len(s) \in Nat \ {0}
           /\ Len(Front(s)) = Len(s) - 1
           /\ \A k \in 1 .. Len(s) - 1 : Front(s)[k] = s[k]
           /\ Last(s) = s[Len(s)]
           /\ Last(s) \in S
  <1>1. Len(s) \in Nat \ {0}
    BY EmptySeq
  <1>2. PICK i \in 1 .. Len(s) : i = Len(s)
    BY <1>1
  <1>3. /\ SubSeq(s, 1, i - 1) \in Seq(S)
        /\ Len(SubSeq(s, 1, i - 1)) = i - 1
        /\ \A k \in 1 .. i - 1 : SubSeq(s, 1, i - 1)[k] = s[k]
    OBVIOUS
  <1> QED BY <1>1, <1>2, <1>3 DEF Front, Last

(* Activations whose last is exchanged. *)
LEMMA TopReplaced ==
    ASSUME NEW c \in Seq(Activations), c # <<>>, NEW a \in Activations
    PROVE  LET d == Append(Front(c), a)
           IN  /\ d \in Seq(Activations) /\ d # <<>>
               /\ Len(d) = Len(c) /\ DOMAIN d = DOMAIN c
               /\ \A i \in 1 .. Len(c) - 1 : d[i] = c[i]
               /\ d[Len(c)] = a /\ Last(d) = a
  <1>1. /\ Front(c) \in Seq(Activations) /\ Len(c) \in Nat \ {0}
        /\ Len(Front(c)) = Len(c) - 1
        /\ \A k \in 1 .. Len(c) - 1 : Front(c)[k] = c[k]
    BY FrontProperties
  <1>2. PICK d : d = Append(Front(c), a)
    OBVIOUS
  <1>3. /\ d \in Seq(Activations) /\ d # <<>> /\ Len(d) = Len(Front(c)) + 1
        /\ \A i \in 1 .. Len(Front(c)) : d[i] = Front(c)[i]
        /\ d[Len(Front(c)) + 1] = a
    BY <1>1, <1>2, AppendProperties
  <1>4. Len(d) = Len(c) /\ d[Len(c)] = a /\ \A i \in 1 .. Len(c) - 1 : d[i] = c[i]
    BY <1>1, <1>3
  <1>5. Last(d) = a /\ DOMAIN d = DOMAIN c
    BY <1>3, <1>4 DEF Last
  <1> QED BY <1>2, <1>3, <1>4, <1>5, Zenon

(* Activations with one more. *)
LEMMA TopAdded ==
    ASSUME NEW c \in Seq(Activations), NEW a \in Activations
    PROVE  LET d == Append(c, a)
           IN  /\ d \in Seq(Activations) /\ d # <<>>
               /\ Len(c) \in Nat /\ Len(d) = Len(c) + 1
               /\ DOMAIN d = 1 .. Len(c) + 1
               /\ \A i \in 1 .. Len(c) : d[i] = c[i]
               /\ d[Len(c) + 1] = a /\ Last(d) = a
  <1>1. PICK d : d = Append(c, a)
    OBVIOUS
  <1>2. /\ d \in Seq(Activations) /\ d # <<>> /\ Len(d) = Len(c) + 1
        /\ \A i \in 1 .. Len(c) : d[i] = c[i]
        /\ d[Len(c) + 1] = a
    BY <1>1, AppendProperties
  <1>3. Len(c) \in Nat /\ DOMAIN d = 1 .. Len(d)
    BY <1>2
  <1>4. Last(d) = a
    BY <1>2 DEF Last
  <1> QED BY <1>1, <1>2, <1>3, <1>4

(* t has what s has up to m, and values above. *)
Agree(s, t, m) ==
    /\ m \in 0 .. Len(s) /\ m <= Len(t)
    /\ \A p \in 1 .. m : t[p] = s[p]
    /\ \A p \in 1 .. Len(t) : p > m => t[p] = Value

(* Popping values. *)
LEMMA DropAgrees ==
    ASSUME NEW s \in Seq(Nat), NEW k \in Nat, NEW m \in Nat, m + k <= Len(s),
           \A p \in 1 .. Len(s) : p > m => s[p] = Value
    PROVE  /\ Drop(s, k) \in Seq(Nat)
           /\ Len(Drop(s, k)) = Len(s) - k
           /\ Agree(s, Drop(s, k), m)
  <1> DEFINE i == Len(s) - k
  <1>1. i \in 0 .. Len(s) /\ m <= i
    OBVIOUS
  <1>2. /\ SubSeq(s, 1, i) \in Seq(Nat)
        /\ Len(SubSeq(s, 1, i)) = i
        /\ \A p \in 1 .. i : SubSeq(s, 1, i)[p] = s[p]
    BY <1>1
  <1>3. Drop(s, k) = SubSeq(s, 1, i)
    BY DEF Drop
  <1> HIDE DEF i
  <1>4. Agree(s, Drop(s, k), m)
    BY <1>1, <1>2, <1>3 DEF Agree
  <1> QED BY <1>2, <1>3, <1>4 DEF i

(* Pushing a value. *)
LEMMA PushAgrees ==
    ASSUME NEW s \in Seq(Nat), NEW t \in Seq(Nat), NEW m, Agree(s, t, m)
    PROVE  /\ Append(t, Value) \in Seq(Nat)
           /\ Len(Append(t, Value)) = Len(t) + 1
           /\ Agree(s, Append(t, Value), m)
  <1>1. Value \in Nat /\ Len(t) \in Nat /\ Len(s) \in Nat
    BY DEF Value
  <1>2. PICK u : u = Append(t, Value)
    OBVIOUS
  <1>3. /\ u \in Seq(Nat) /\ Len(u) = Len(t) + 1
        /\ \A p \in 1 .. Len(t) : u[p] = t[p]
        /\ u[Len(t) + 1] = Value
    BY <1>1, <1>2, AppendProperties
  <1>4. m \in 0 .. Len(s) /\ m <= Len(t) /\ \A p \in 1 .. m : t[p] = s[p]
    BY DEF Agree
  <1>5. ASSUME NEW p \in 1 .. Len(t) + 1, p > m PROVE u[p] = Value
    <2>1. CASE p \in 1 .. Len(t)
      BY <1>3, <1>5, <2>1 DEF Agree
    <2> QED BY <1>1, <1>3, <2>1
  <1>6. Agree(s, u, m)
    BY <1>1, <1>3, <1>4, <1>5 DEF Agree
  <1> QED BY <1>2, <1>3, <1>6

(* Pushing several. *)
LEMMA PushAllAgrees ==
    ASSUME NEW s \in Seq(Nat), NEW t \in Seq(Nat), NEW m, Agree(s, t, m), NEW k \in Nat
    PROVE  LET u == t \o [i \in 1 .. k |-> Value]
           IN  u \in Seq(Nat) /\ Len(u) = Len(t) + k /\ Agree(s, u, m)
  <1>1. PICK v : v = [i \in 1 .. k |-> Value]
    OBVIOUS
  <1>2. v \in Seq(Nat) /\ Len(v) = k /\ \A i \in 1 .. k : v[i] = Value
    BY <1>1 DEF Value
  <1>3. PICK u : u = t \o v
    OBVIOUS
  <1>4. /\ u \in Seq(Nat) /\ Len(u) = Len(t) + k
        /\ \A i \in 1 .. Len(t) + k : u[i] = IF i <= Len(t) THEN t[i] ELSE v[i - Len(t)]
    BY <1>2, <1>3, ConcatProperties
  <1>5. Len(t) \in Nat /\ Len(s) \in Nat
    OBVIOUS
  <1>6. ASSUME NEW p \in 1 .. Len(t) + k, p > m PROVE u[p] = Value
    <2>1. CASE p <= Len(t)
      <3>1. u[p] = t[p] /\ p \in 1 .. Len(t)
        BY <1>4, <1>5, <2>1
      <3>2. t[p] = Value
        BY <1>6, <3>1 DEF Agree
      <3> QED BY <3>1, <3>2
    <2>2. CASE p > Len(t)
      <3>1. p - Len(t) \in 1 .. k /\ u[p] = v[p - Len(t)]
        BY <1>4, <1>5, <2>2
      <3> QED BY <1>2, <3>1
    <2> QED BY <1>5, <2>1, <2>2
  <1>7. m \in 0 .. Len(s) /\ m <= Len(t) /\ \A p \in 1 .. m : t[p] = s[p]
    BY DEF Agree
  <1>8. ASSUME NEW p \in 1 .. m PROVE u[p] = s[p]
    <2>1. p \in 1 .. Len(t) + k /\ p <= Len(t)
      BY <1>5, <1>7
    <2>2. u[p] = t[p]
      BY <1>4, <2>1
    <2> QED BY <1>7, <2>2
  <1>9. Agree(s, u, m)
    BY <1>4, <1>5, <1>6, <1>7, <1>8 DEF Agree
  <1> QED BY <1>1, <1>3, <1>4, <1>9

-----------------------------------------------------------------------------
(***************************************************************************)
(* Lemmas about activations                                                *)
(***************************************************************************)
LEMMA ActivationType ==
    ASSUME NEW a, RunOK(a) \/ NewOK(a)
    PROVE  /\ a \in Activations
           /\ RunOK(a) <=> a.kind = "run"
           /\ NewOK(a) <=> a.kind = "new"
           /\ Room(a) \in Nat
  <1>1. CASE RunOK(a)
    <2>1. a.kind = "run" /\ a \in Activations
      BY <1>1 DEF RunOK, Activations
    <2>2. StackMap[a.fn][a.pc] \in [depth : Nat, nest : Seq(Nat)]
      BY <1>1, MachineAssumption DEF RunOK
    <2>3. Room(a) \in Nat
      BY <2>1, <2>2 DEF Room
    <2>4. ~NewOK(a)
      BY <2>1 DEF NewOK
    <2> QED BY <1>1, <2>1, <2>3, <2>4
  <1>2. CASE NewOK(a)
    <2>1. a.kind = "new" /\ a \in Activations /\ a.todo \in Seq([fn : Callees, argc : Nat])
      BY <1>2 DEF NewOK, Activations
    <2>2. a.todo # <<>> => Last(a.todo) \in [fn : Callees, argc : Nat]
      BY <2>1, FrontProperties
    <2>3. Room(a) \in Nat
      BY <2>1, <2>2 DEF Room, Owed
    <2>4. ~RunOK(a)
      BY <2>1 DEF RunOK
    <2> QED BY <1>2, <2>1, <2>3, <2>4
  <1> QED BY <1>1, <1>2

(* An activation ends. *)
LEMMA ChainFront ==
    ASSUME NEW c \in Seq(Activations), c # <<>>, Chain(c)
    PROVE  Chain(Front(c))
  <1>1. PICK d : d = Front(c)
    OBVIOUS
  <1>2. /\ d \in Seq(Activations) /\ Len(c) \in Nat \ {0}
        /\ Len(d) = Len(c) - 1
        /\ \A k \in 1 .. Len(c) - 1 : d[k] = c[k]
    BY <1>1, FrontProperties
  <1>3. DOMAIN d = 1 .. Len(c) - 1 /\ DOMAIN c = 1 .. Len(c)
    BY <1>2
  <1>4. Chain(d)
    BY <1>2, <1>3 DEF Chain
  <1> QED BY <1>1, <1>4

(* The last activation goes on, to another instruction of its function or to
   the next constructor. *)
LEMMA ChainTop ==
    ASSUME NEW c \in Seq(Activations), c # <<>>, Chain(c), NEW a,
           \/ RunOK(a) /\ Last(c).kind = "run" /\ a.fn = Last(c).fn
           \/ NewOK(a) /\ Last(c).kind = "new"
    PROVE  Chain(Append(Front(c), a))
  <1>1. PICK d : d = Append(Front(c), a)
    OBVIOUS
  <1>2. a \in Activations /\ a.kind = Last(c).kind
    BY ActivationType
  <1>3. /\ Len(d) = Len(c) /\ DOMAIN d = DOMAIN c
        /\ \A i \in 1 .. Len(c) - 1 : d[i] = c[i]
        /\ d[Len(c)] = a
    BY <1>1, <1>2, TopReplaced
  <1>4. Len(c) \in Nat \ {0} /\ Last(c) = c[Len(c)] /\ DOMAIN c = 1 .. Len(c)
    BY FrontProperties, LenProperties, Zenon
  <1>5. \A i \in DOMAIN c : d[i].kind = c[i].kind /\ (c[i].kind = "run" => d[i].fn = c[i].fn)
    <2>1. a.kind = "run" => a.fn = Last(c).fn
      BY <1>2, ActivationType
    <2> QED BY <1>2, <1>3, <1>4, <2>1
  <1>6. \A i \in DOMAIN d : RunOK(d[i]) \/ NewOK(d[i])
    BY <1>3, <1>4 DEF Chain
  <1>7. \A i \in DOMAIN d : d[i].kind = "new" => i > 1 /\ d[i - 1].kind = "run"
    BY <1>3, <1>4, <1>5 DEF Chain
  <1>8. ASSUME NEW i \in DOMAIN d, i > 1, d[i].kind = "run" PROVE MayCall(d[i - 1], d[i].fn)
    <2>1. i \in DOMAIN c /\ i - 1 \in 1 .. Len(c) - 1
      BY <1>3, <1>4, <1>8
    <2>2. d[i - 1] = c[i - 1] /\ c[i].kind = "run" /\ d[i].fn = c[i].fn
      BY <1>3, <1>5, <1>8, <2>1
    <2>3. MayCall(c[i - 1], c[i].fn)
      BY <1>8, <2>1, <2>2 DEF Chain
    <2> QED BY <2>2, <2>3
  <1>9. \A i \in DOMAIN d : i < Len(d) /\ d[i].kind = "run" => Room(d[i]) > 0
    BY <1>3, <1>4, <1>5 DEF Chain
  <1>10. Chain(d)
    BY <1>6, <1>7, <1>8, <1>9 DEF Chain
  <1> QED BY <1>1, <1>10

(* Another activation begins. *)
LEMMA ChainPush ==
    ASSUME NEW c \in Seq(Activations), Chain(c), NEW a,
           c # <<>> /\ Last(c).kind = "run" => Room(Last(c)) > 0,
           \/ RunOK(a) /\ (c # <<>> => MayCall(Last(c), a.fn))
           \/ NewOK(a) /\ c # <<>> /\ Last(c).kind = "run"
    PROVE  Chain(Append(c, a))
  <1>1. PICK d : d = Append(c, a)
    OBVIOUS
  <1>2. a \in Activations
    BY ActivationType
  <1>3. /\ Len(c) \in Nat /\ Len(d) = Len(c) + 1
        /\ DOMAIN d = 1 .. Len(c) + 1
        /\ \A i \in 1 .. Len(c) : d[i] = c[i]
        /\ d[Len(c) + 1] = a
    BY <1>1, <1>2, TopAdded
  <1>4. DOMAIN c = 1 .. Len(c) /\ (Len(c) > 0 => c # <<>>)
    BY <1>3
  <1>5. c # <<>> => Len(c) > 0 /\ Last(c) = c[Len(c)]
    <2>1. c # <<>> => Len(c) \in Nat \ {0} /\ Last(c) = c[Len(c)]
      BY FrontProperties, Zenon
    <2> QED BY <2>1
  <1>6. \A i \in DOMAIN d : RunOK(d[i]) \/ NewOK(d[i])
    BY <1>3, <1>4 DEF Chain
  <1>7. ASSUME NEW i \in DOMAIN d, d[i].kind = "new" PROVE i > 1 /\ d[i - 1].kind = "run"
    <2>1. CASE i <= Len(c)
      BY <1>3, <1>4, <1>7, <2>1 DEF Chain
    <2>2. CASE i = Len(c) + 1
      <3>1. NewOK(a)
        BY <1>3, <1>7, <2>2, ActivationType
      <3>2. ~RunOK(a)
        BY <1>3, <1>7, <2>2, ActivationType
      <3>3. Len(c) > 0 /\ Last(c) = c[Len(c)] /\ Last(c).kind = "run"
        BY <1>5, <3>2
      <3>4. i - 1 = Len(c) /\ d[i - 1] = c[Len(c)]
        BY <1>3, <2>2, <3>3
      <3> QED BY <1>3, <2>2, <3>3, <3>4
    <2> QED BY <1>3, <2>1, <2>2
  <1>8. ASSUME NEW i \in DOMAIN d, i > 1, d[i].kind = "run" PROVE MayCall(d[i - 1], d[i].fn)
    <2>1. CASE i <= Len(c)
      <3>1. i \in DOMAIN c /\ d[i] = c[i] /\ d[i - 1] = c[i - 1]
        BY <1>3, <1>4, <1>8, <2>1
      <3> QED BY <1>8, <3>1 DEF Chain
    <2>2. CASE i = Len(c) + 1
      <3>1. ~NewOK(a)
        BY <1>3, <1>8, <2>2, ActivationType
      <3>2. c # <<>> /\ d[i - 1] = Last(c) /\ d[i] = a
        BY <1>3, <1>4, <1>5, <1>8, <2>2
      <3> QED BY <3>1, <3>2
    <2> QED BY <1>3, <2>1, <2>2
  <1>9. ASSUME NEW i \in DOMAIN d, i < Len(d), d[i].kind = "run" PROVE Room(d[i]) > 0
    <2>1. i \in DOMAIN c /\ d[i] = c[i]
      BY <1>3, <1>4, <1>9
    <2>2. CASE i < Len(c)
      BY <1>9, <2>1, <2>2 DEF Chain
    <2>3. CASE i = Len(c)
      BY <1>4, <1>5, <1>9, <2>1, <2>3
    <2> QED BY <1>3, <1>4, <2>1, <2>2, <2>3
  <1>10. Chain(d)
    BY <1>6, <1>7, <1>8, <1>9 DEF Chain
  <1> QED BY <1>1, <1>10

-----------------------------------------------------------------------------
(***************************************************************************)
(* Lemmas about the two stacks together                                    *)
(***************************************************************************)
(* What belongs to the last activation is above this. *)
Mark(c, b) == IF Last(c).kind = "run" THEN b[Len(c)] ELSE b[Len(c)] - 1

LEMMA ShapeTop ==
    ASSUME NEW c \in Seq(Activations), c # <<>>, NEW s \in Seq(Nat), NEW b, Shape(s, c, b)
    PROVE  /\ b[Len(c)] \in Nat \ {0} /\ Mark(c, b) \in Nat
           /\ Last(c).kind = "run" => b[Len(c)] \in 1 .. Len(s) /\ s[b[Len(c)]] = Len(c)
           /\ \A p \in 1 .. Len(s) : p > Mark(c, b) => s[p] = Value
           /\ \A i \in 1 .. Len(c) - 1 : c[i].kind = "run" => b[i] < b[Len(c)]
  <1>1. PICK n \in Nat \ {0} : n = Len(c) /\ Last(c) = c[n]
    BY FrontProperties, Zenon
  <1>2. Len(s) \in Nat
    OBVIOUS
  <1>3. \A i, j \in 1 .. n : i < j => b[i] <= b[j] /\ (c[i].kind = "run" => b[i] < b[j])
    BY <1>1 DEF Shape
  <1>4. \A i \in 1 .. n : b[i] \in Nat
    BY <1>1 DEF Shape
  <1>5. b[1] = 1
    BY <1>1 DEF Shape
  <1>6. b[n] \in Nat \ {0}
    <2>1. n = 1 \/ b[1] <= b[n]
      BY <1>1, <1>3
    <2> QED BY <1>1, <1>4, <1>5, <2>1
  <1>7. Mark(c, b) \in Nat /\ Mark(c, b) = IF c[n].kind = "run" THEN b[n] ELSE b[n] - 1
    BY <1>1, <1>6 DEF Mark
  <1>8. c[n].kind = "run" => b[n] \in 1 .. Len(s) /\ s[b[n]] = n
    BY <1>1 DEF Shape
  <1>9. ASSUME NEW p \in 1 .. Len(s), p > Mark(c, b), s[p] # Value PROVE FALSE
    <2>1. PICK i \in 1 .. n : c[i].kind = "run" /\ b[i] = p
      BY <1>1, <1>9 DEF Shape
    <2>2. CASE i = n
      BY <1>6, <1>7, <1>9, <2>1, <2>2
    <2>3. CASE i < n
      <3>1. b[i] < b[n]
        BY <1>3, <2>1, <2>3
      <3> QED BY <1>4, <1>6, <1>7, <1>9, <2>1, <3>1
    <2> QED BY <2>2, <2>3
  <1>10. \A i \in 1 .. n - 1 : c[i].kind = "run" => b[i] < b[n]
    BY <1>3
  <1> QED BY <1>1, <1>6, <1>7, <1>8, <1>9, <1>10

(* The last activation works on its own values, or goes on. *)
LEMMA ShapeKept ==
    ASSUME NEW c \in Seq(Activations), c # <<>>, NEW s \in Seq(Nat), NEW b, Shape(s, c, b),
           NEW d \in Seq(Activations), Len(d) = Len(c), \A i \in 1 .. Len(c) - 1 : d[i] = c[i],
           Last(d).kind = Last(c).kind,
           NEW t \in Seq(Nat), Agree(s, t, Mark(c, b))
    PROVE  Shape(t, d, b)
  <1>1. PICK n \in Nat \ {0} : n = Len(c) /\ Last(c) = c[n]
    BY FrontProperties, Zenon
  <1>2. Len(d) = n /\ Last(d) = d[n]
    BY <1>1 DEF Last
  <1>3. Len(s) \in Nat /\ Len(t) \in Nat
    OBVIOUS
  <1>4. PICK m \in Nat : m = Mark(c, b)
    BY ShapeTop
  <1>5. b[n] \in Nat \ {0} /\ \A i \in 1 .. n - 1 : c[i].kind = "run" => b[i] < b[n]
    BY <1>1, ShapeTop
  <1>6. m = IF c[n].kind = "run" THEN b[n] ELSE b[n] - 1
    BY <1>1, <1>4 DEF Mark
  <1>7. /\ m <= Len(s) /\ m <= Len(t)
        /\ \A p \in 1 .. m : t[p] = s[p]
        /\ \A p \in 1 .. Len(t) : p > m => t[p] = Value
    BY <1>3, <1>4 DEF Agree
  <1>8. \A i \in 1 .. n : d[i].kind = c[i].kind
    <2>1. \A i \in 1 .. n - 1 : d[i] = c[i]
      BY <1>1
    <2>2. d[n].kind = c[n].kind
      BY <1>1, <1>2
    <2>3. \A i \in 1 .. n : i \in 1 .. n - 1 \/ i = n
      OBVIOUS
    <2> QED BY <2>1, <2>2, <2>3, Zenon
  <1>9. b \in [1 .. n -> Nat]
    BY <1>1 DEF Shape
  <1>10. \A i, j \in 1 .. n : i < j => b[i] <= b[j] /\ (d[i].kind = "run" => b[i] < b[j])
    BY <1>1, <1>8 DEF Shape
  <1>11. ASSUME NEW i \in 1 .. n PROVE b[i] = IF i = 1 THEN 1 ELSE b[i - 1] + Room(d[i - 1])
    <2>1. b[i] = IF i = 1 THEN 1 ELSE b[i - 1] + Room(c[i - 1])
      BY <1>1 DEF Shape
    <2>2. i # 1 => d[i - 1] = c[i - 1]
      BY <1>1
    <2> QED BY <2>1, <2>2
  <1>12. ASSUME NEW i \in 1 .. n, d[i].kind = "run" PROVE b[i] \in 1 .. Len(t) /\ t[b[i]] = i
    <2>1. b[i] \in 1 .. Len(s) /\ s[b[i]] = i
      BY <1>1, <1>8, <1>12 DEF Shape
    <2>2. i = n \/ i \in 1 .. n - 1
      OBVIOUS
    <2>3. i = n \/ b[i] < b[n]
      BY <1>5, <1>8, <1>12, <2>2, Zenon
    <2>4. c[i].kind = "run"
      BY <1>8, <1>12
    <2>5. b[i] \in Nat /\ 1 <= b[i] /\ (b[i] = b[n] \/ b[i] <= b[n] - 1)
      BY <1>3, <1>5, <2>1, <2>3
    <2>6. b[i] <= m
      BY <1>5, <1>6, <2>3, <2>4, <2>5
    <2>7. b[i] \in 1 .. m /\ b[i] \in 1 .. Len(t)
      BY <1>3, <1>7, <2>5, <2>6
    <2> QED BY <1>7, <2>1, <2>7, Zenon
  <1>13. ASSUME NEW p \in 1 .. Len(t), t[p] # Value
         PROVE  \E i \in 1 .. n : d[i].kind = "run" /\ b[i] = p /\ t[p] = i
    <2>1. p \in 1 .. m
      BY <1>3, <1>7, <1>13
    <2>2. p \in 1 .. Len(s) /\ t[p] = s[p]
      BY <1>3, <1>7, <2>1
    <2>3. PICK i \in 1 .. n : c[i].kind = "run" /\ b[i] = p /\ s[p] = i
      BY <1>1, <1>13, <2>2 DEF Shape
    <2> QED BY <1>8, <2>2, <2>3
  <1> QED BY <1>2, <1>9, <1>10, <1>11, <1>12, <1>13 DEF Shape

(* An activation ends: what is left is what was below its result. *)
LEMMA ShapePop ==
    ASSUME NEW c \in Seq(Activations), c # <<>>, NEW s \in Seq(Nat), NEW b, Shape(s, c, b),
           NEW t \in Seq(Nat), Agree(s, t, b[Len(c)] - 1)
    PROVE  \E e : Shape(t, Front(c), e) /\ Place(Front(c), e) = b[Len(c)]
  <1>1. PICK n \in Nat \ {0} : n = Len(c)
    BY FrontProperties, Zenon
  <1>2. PICK d \in Seq(Activations) : d = Front(c)
    BY FrontProperties, Zenon
  <1>3. Len(d) = n - 1 /\ \A k \in 1 .. n - 1 : d[k] = c[k]
    BY <1>1, <1>2, FrontProperties, Zenon
  <1>4. Len(s) \in Nat /\ Len(t) \in Nat
    OBVIOUS
  <1>5. b[n] \in Nat \ {0} /\ \A i \in 1 .. n - 1 : c[i].kind = "run" => b[i] < b[n]
    BY <1>1, ShapeTop
  <1>6. b \in [1 .. n -> Nat]
    BY <1>1 DEF Shape
  <1>7. /\ b[n] - 1 <= Len(s) /\ b[n] - 1 <= Len(t)
        /\ \A p \in 1 .. b[n] - 1 : t[p] = s[p]
        /\ \A p \in 1 .. Len(t) : p > b[n] - 1 => t[p] = Value
    BY <1>1, <1>4, <1>5 DEF Agree
  <1>8. PICK e : e = [i \in 1 .. n - 1 |-> b[i]]
    OBVIOUS
  <1>9. e \in [1 .. n - 1 -> Nat] /\ \A i \in 1 .. n - 1 : e[i] = b[i]
    BY <1>6, <1>8
  <1>10. \A i, j \in 1 .. n - 1 : i < j => e[i] <= e[j] /\ (d[i].kind = "run" => e[i] < e[j])
    <2>1. \A i, j \in 1 .. n : i < j => b[i] <= b[j] /\ (c[i].kind = "run" => b[i] < b[j])
      BY <1>1 DEF Shape
    <2>2. \A i \in 1 .. n - 1 : i \in 1 .. n /\ e[i] = b[i] /\ d[i] = c[i]
      BY <1>3, <1>9
    <2> QED BY <2>1, <2>2, Zenon
  <1>11. ASSUME NEW i \in 1 .. n - 1
         PROVE  e[i] = IF i = 1 THEN 1 ELSE e[i - 1] + Room(d[i - 1])
    <2>1. b[i] = IF i = 1 THEN 1 ELSE b[i - 1] + Room(c[i - 1])
      BY <1>1 DEF Shape
    <2>2. i # 1 => d[i - 1] = c[i - 1] /\ e[i - 1] = b[i - 1]
      BY <1>3, <1>9
    <2> QED BY <1>9, <2>1, <2>2
  <1>12. ASSUME NEW i \in 1 .. n - 1, d[i].kind = "run"
         PROVE  e[i] \in 1 .. Len(t) /\ t[e[i]] = i
    <2>1. b[i] \in 1 .. Len(s) /\ s[b[i]] = i
      BY <1>1, <1>3, <1>12 DEF Shape
    <2>2. e[i] = b[i] /\ b[i] < b[n]
      BY <1>3, <1>5, <1>9, <1>12, Zenon
    <2>3. b[n] \in Nat /\ b[n] - 1 <= Len(t)
      BY <1>5, <1>7
    <2>4. PICK k \in 1 .. Len(s) : k = b[i]
      BY <2>1
    <2>5. k \in 1 .. b[n] - 1 /\ k \in 1 .. Len(t)
      BY <1>4, <2>2, <2>3, <2>4
    <2> QED BY <1>7, <2>1, <2>2, <2>4, <2>5, Zenon
  <1>13. ASSUME NEW p \in 1 .. Len(t), t[p] # Value
         PROVE  \E i \in 1 .. n - 1 : d[i].kind = "run" /\ e[i] = p /\ t[p] = i
    <2>1. p \in 1 .. b[n] - 1
      BY <1>4, <1>5, <1>7, <1>13
    <2>2. p \in 1 .. Len(s) /\ t[p] = s[p]
      BY <1>4, <1>5, <1>7, <2>1
    <2>3. PICK i \in 1 .. n : c[i].kind = "run" /\ b[i] = p /\ s[p] = i
      BY <1>1, <1>13, <2>2 DEF Shape
    <2>4. i \in 1 .. n - 1
      BY <1>5, <2>1, <2>3
    <2> QED BY <1>3, <1>9, <2>2, <2>3, <2>4
  <1>14. Shape(t, d, e)
    BY <1>3, <1>9, <1>10, <1>11, <1>12, <1>13 DEF Shape
  <1>15. Place(d, e) = b[n]
    <2>1. b[n] = IF n = 1 THEN 1 ELSE b[n - 1] + Room(c[n - 1])
      <3>1. n \in 1 .. Len(c)
        BY <1>1
      <3> QED BY <3>1, Zenon DEF Shape
    <2>2. CASE n = 1
      <3>1. d = <<>>
        BY <1>3, <2>2, EmptySeq
      <3> QED BY <2>1, <2>2, <3>1 DEF Place
    <2>3. CASE n # 1
      <3>1. d # <<>> /\ Last(d) = c[n - 1] /\ e[n - 1] = b[n - 1]
        BY <1>3, <1>9, <2>3 DEF Last
      <3> QED BY <1>3, <2>1, <2>3, <3>1 DEF Place
    <2> QED BY <2>2, <2>3
  <1> QED BY <1>1, <1>2, <1>14, <1>15

(* Where the result of a call goes is above everything that is on the stack. *)
LEMMA PlaceType ==
    ASSUME NEW c \in Seq(Activations), Chain(c), NEW s \in Seq(Nat), NEW b, Shape(s, c, b)
    PROVE  /\ Place(c, b) \in Nat \ {0}
           /\ c # <<>> => /\ Place(c, b) = b[Len(c)] + Room(Last(c))
                          /\ Room(Last(c)) \in Nat
                          /\ b[Len(c)] \in Nat \ {0}
                          /\ RunOK(Last(c)) \/ NewOK(Last(c))
  <1>1. CASE c = <<>>
    BY <1>1 DEF Place
  <1>2. CASE c # <<>>
    <2>1. PICK n \in Nat \ {0} : n = Len(c) /\ Last(c) = c[n]
      BY <1>2, FrontProperties, Zenon
    <2>2. n \in DOMAIN c
      BY <2>1
    <2>3. RunOK(Last(c)) \/ NewOK(Last(c))
      BY <2>1, <2>2 DEF Chain
    <2>4. Room(Last(c)) \in Nat
      BY <2>3, ActivationType
    <2>5. b[Len(c)] \in Nat \ {0}
      BY <1>2, ShapeTop
    <2> QED BY <1>2, <2>3, <2>4, <2>5 DEF Place
  <1> QED BY <1>1, <1>2

(* An activation begins: a run puts its marker where its result will go. *)
LEMMA ShapePush ==
    ASSUME NEW c \in Seq(Activations), Chain(c), NEW s \in Seq(Nat), NEW b, Shape(s, c, b),
           c # <<>> /\ Last(c).kind = "run" => Room(Last(c)) > 0,
           NEW a \in Activations, NEW t \in Seq(Nat),
           IF a.kind = "run" THEN t = Append(s, Len(c) + 1) /\ Len(s) = Place(c, b) - 1
                             ELSE t = s
    PROVE  \E e : Shape(t, Append(c, a), e) /\ e[Len(c) + 1] = Place(c, b)
  <1>1. PICK n \in Nat : n = Len(c)
    OBVIOUS
  <1>2. PICK q \in Nat \ {0} : q = Place(c, b)
    BY PlaceType, Zenon
  <1>3. PICK d : d = Append(c, a)
    OBVIOUS
  <1>4. /\ Len(d) = n + 1
        /\ \A i \in 1 .. n : d[i] = c[i]
        /\ d[n + 1] = a
    <2>1. /\ Len(d) = Len(c) + 1
          /\ \A i \in 1 .. Len(c) : d[i] = c[i]
          /\ d[Len(c) + 1] = a
      BY <1>3, TopAdded
    <2> QED BY <1>1, <2>1
  <1>5. Len(s) \in Nat /\ Len(t) \in Nat
    OBVIOUS
  <1>6. /\ Len(s) <= Len(t) /\ \A p \in 1 .. Len(s) : t[p] = s[p]
        /\ a.kind = "run" => Len(t) = q /\ Len(t) = Len(s) + 1 /\ t[q] = n + 1
        /\ a.kind # "run" => Len(t) = Len(s)
    <2>1. CASE a.kind = "run"
      <3>1. PICK m \in Nat : m = Len(c) + 1
        BY <1>1
      <3>2. t = Append(s, m) /\ Len(s) = q - 1
        BY <1>2, <2>1, <3>1
      <3>3. Len(t) = Len(s) + 1 /\ t[Len(s) + 1] = m /\ \A p \in 1 .. Len(s) : t[p] = s[p]
        BY <3>2, AppendProperties
      <3>4. q = Len(s) + 1
        BY <1>2, <1>5, <3>2
      <3> QED BY <1>1, <1>5, <2>1, <3>1, <3>3, <3>4
    <2>2. CASE a.kind # "run"
      BY <1>5, <2>2
    <2> QED BY <2>1, <2>2
  <1>7. /\ b \in [1 .. n -> Nat]
        /\ \A i \in 1 .. n : b[i] = IF i = 1 THEN 1 ELSE b[i - 1] + Room(c[i - 1])
        /\ \A i, j \in 1 .. n : i < j => b[i] <= b[j] /\ (c[i].kind = "run" => b[i] < b[j])
        /\ \A i \in 1 .. n : c[i].kind = "run" => b[i] \in 1 .. Len(s) /\ s[b[i]] = i
        /\ \A p \in 1 .. Len(s) :
              s[p] = Value \/ \E i \in 1 .. n : c[i].kind = "run" /\ b[i] = p /\ s[p] = i
    BY <1>1 DEF Shape
  <1>8. PICK e : e = [i \in 1 .. n + 1 |-> IF i = n + 1 THEN q ELSE b[i]]
    OBVIOUS
  <1>9. e \in [1 .. n + 1 -> Nat] /\ e[n + 1] = q /\ \A i \in 1 .. n : e[i] = b[i]
    <2>1. \A i \in 1 .. n + 1 : (IF i = n + 1 THEN q ELSE b[i]) \in Nat
      BY <1>7
    <2>2. n + 1 \in 1 .. n + 1 /\ \A i \in 1 .. n : i \in 1 .. n + 1 /\ i # n + 1
      OBVIOUS
    <2> QED BY <1>8, <2>1, <2>2
  <1>10. \A i \in 1 .. n + 1 : i = n + 1 \/ i \in 1 .. n
    OBVIOUS
  <1>11. n > 0 => /\ c # <<>> /\ Last(c) = c[n] /\ q = b[n] + Room(c[n])
                  /\ Room(c[n]) \in Nat /\ b[n] \in Nat
                  /\ c[n].kind = "run" => Room(c[n]) > 0
    <2>1. n > 0 => c # <<>> /\ Last(c) = c[n]
      BY <1>1 DEF Last
    <2> QED BY <1>1, <1>2, <2>1, PlaceType, Zenon
  <1>12. n = 0 => q = 1
    BY <1>1, <1>2, EmptySeq DEF Place
  <1>13. ASSUME NEW i \in 1 .. n PROVE b[i] <= q /\ (c[i].kind = "run" => b[i] < q)
    <2>1. n > 0 /\ n \in 1 .. n /\ (i = n \/ i < n)
      OBVIOUS
    <2>2. b[i] \in Nat
      BY <1>7
    <2>3. CASE i = n
      BY <1>11, <2>1, <2>3
    <2>4. CASE i < n
      <3>1. b[i] <= b[n] /\ (c[i].kind = "run" => b[i] < b[n])
        BY <1>7, <2>1, <2>4
      <3> QED BY <1>11, <2>1, <2>2, <3>1
    <2> QED BY <2>1, <2>3, <2>4
  <1>14. ASSUME NEW i \in 1 .. n + 1, NEW j \in 1 .. n + 1, i < j
         PROVE  e[i] <= e[j] /\ (d[i].kind = "run" => e[i] < e[j])
    <2>0. i \in 1 .. n
      BY <1>14
    <2>1. e[i] = b[i] /\ d[i] = c[i]
      BY <1>4, <1>9, <2>0
    <2>2. CASE j = n + 1
      BY <1>9, <1>13, <2>0, <2>1, <2>2
    <2>3. CASE j \in 1 .. n
      <3>1. e[j] = b[j] /\ b[i] <= b[j] /\ (c[i].kind = "run" => b[i] < b[j])
        BY <1>7, <1>9, <1>14, <2>0, <2>3
      <3> QED BY <2>1, <3>1
    <2> QED BY <1>10, <2>2, <2>3
  <1>15. ASSUME NEW i \in 1 .. n + 1
         PROVE  e[i] = IF i = 1 THEN 1 ELSE e[i - 1] + Room(d[i - 1])
    <2>1. CASE i = n + 1
      <3>1. CASE n = 0
        BY <1>9, <1>12, <2>1, <3>1
      <3>2. CASE n > 0
        <4>1. i # 1 /\ i - 1 = n /\ n \in 1 .. n
          BY <2>1, <3>2
        <4>2. d[n] = c[n] /\ e[n] = b[n]
          BY <1>4, <1>9, <4>1
        <4> QED BY <1>9, <1>11, <2>1, <3>2, <4>1, <4>2
      <3> QED BY <3>1, <3>2
    <2>2. CASE i \in 1 .. n
      <3>1. i = 1 \/ i - 1 \in 1 .. n
        BY <2>2
      <3>2. i # 1 => d[i - 1] = c[i - 1] /\ e[i - 1] = b[i - 1]
        BY <1>4, <1>9, <3>1
      <3>3. e[i] = b[i] /\ b[i] = IF i = 1 THEN 1 ELSE b[i - 1] + Room(c[i - 1])
        BY <1>7, <1>9, <2>2
      <3> QED BY <3>2, <3>3
    <2> QED BY <1>10, <2>1, <2>2
  <1>16. ASSUME NEW i \in 1 .. n + 1, d[i].kind = "run"
         PROVE  e[i] \in 1 .. Len(t) /\ t[e[i]] = i
    <2>1. CASE i = n + 1
      BY <1>4, <1>6, <1>9, <1>16, <2>1
    <2>2. CASE i \in 1 .. n
      <3>1. e[i] = b[i] /\ b[i] \in 1 .. Len(s) /\ s[b[i]] = i
        BY <1>4, <1>7, <1>9, <1>16, <2>2, Zenon
      <3>2. PICK k \in 1 .. Len(s) : k = b[i]
        BY <3>1
      <3>3. k \in 1 .. Len(t) /\ t[k] = s[k]
        BY <1>5, <1>6
      <3> QED BY <3>1, <3>2, <3>3
    <2> QED BY <1>10, <2>1, <2>2
  <1>17. ASSUME NEW p \in 1 .. Len(t), t[p] # Value
         PROVE  \E i \in 1 .. n + 1 : d[i].kind = "run" /\ e[i] = p /\ t[p] = i
    <2>1. CASE p \in 1 .. Len(s)
      <3>1. PICK i \in 1 .. n : c[i].kind = "run" /\ b[i] = p /\ s[p] = i
        BY <1>6, <1>7, <1>17, <2>1
      <3>2. i \in 1 .. n + 1 /\ d[i] = c[i] /\ e[i] = b[i] /\ t[p] = s[p]
        BY <1>4, <1>6, <1>9, <2>1
      <3> QED BY <3>1, <3>2
    <2>2. CASE p \notin 1 .. Len(s)
      <3>1. a.kind = "run" /\ p = q
        BY <1>5, <1>6, <2>2
      <3>2. n + 1 \in 1 .. n + 1
        OBVIOUS
      <3> QED BY <1>4, <1>6, <1>9, <3>1, <3>2
    <2> QED BY <2>1, <2>2
  <1>18. Shape(t, d, e)
    BY <1>4, <1>9, <1>14, <1>15, <1>16, <1>17 DEF Shape
  <1> QED BY <1>1, <1>2, <1>3, <1>9, <1>18

-----------------------------------------------------------------------------
(***************************************************************************)
(* Lemmas about how a step ends                                            *)
(***************************************************************************)
(* The last activation, and the one below it. *)
LEMMA ChainLast ==
    ASSUME NEW c \in Seq(Activations), c # <<>>, Chain(c)
    PROVE  /\ RunOK(Last(c)) \/ NewOK(Last(c))
           /\ Room(Last(c)) \in Nat
           /\ Last(c).kind = "new" => Front(c) # <<>> /\ Last(Front(c)).kind = "run"
           /\ Front(c) # <<>> =>
                /\ RunOK(Last(Front(c))) \/ NewOK(Last(Front(c)))
                /\ Last(Front(c)).kind = "run" => Room(Last(Front(c))) > 0
                /\ Last(c).kind = "run" => MayCall(Last(Front(c)), Last(c).fn)
  <1>1. PICK n \in Nat \ {0} : n = Len(c) /\ Last(c) = c[n] /\ DOMAIN c = 1 .. n
    BY FrontProperties, LenProperties, Zenon
  <1>2. PICK d \in Seq(Activations) : d = Front(c)
    BY FrontProperties, Zenon
  <1>3. Len(d) = n - 1 /\ \A k \in 1 .. n - 1 : d[k] = c[k]
    BY <1>1, <1>2, FrontProperties, Zenon
  <1>4. n \in DOMAIN c
    BY <1>1
  <1>5. RunOK(Last(c)) \/ NewOK(Last(c))
    BY <1>1, <1>4 DEF Chain
  <1>6. d # <<>> => Last(d) = c[n - 1] /\ n - 1 \in DOMAIN c /\ n > 1
    <2>1. d # <<>> => Len(d) \in Nat \ {0} /\ Last(d) = d[Len(d)]
      BY FrontProperties, Zenon
    <2> QED BY <1>1, <1>3, <2>1
  <1>7. n > 1 => d # <<>>
    BY <1>3
  <1>8. Last(c).kind = "new" => n > 1 /\ c[n - 1].kind = "run"
    BY <1>1, <1>4 DEF Chain
  <1>9. d # <<>> => RunOK(Last(d)) \/ NewOK(Last(d))
    BY <1>6 DEF Chain
  <1>10. d # <<>> /\ Last(d).kind = "run" => Room(Last(d)) > 0
    <2>1. n - 1 < Len(c)
      BY <1>1
    <2> QED BY <1>6, <2>1 DEF Chain
  <1>11. d # <<>> /\ Last(c).kind = "run" => MayCall(Last(d), Last(c).fn)
    BY <1>1, <1>4, <1>6 DEF Chain
  <1>12. Room(Last(c)) \in Nat
    BY <1>5, ActivationType
  <1> QED BY <1>2, <1>5, <1>6, <1>7, <1>8, <1>9, <1>10, <1>11, <1>12

LEMMA ShapeOn ==
    ASSUME NEW c \in Seq(Activations), c # <<>>, NEW s \in Seq(Nat), NEW b, Shape(s, c, b),
           NEW t \in Seq(Nat), Agree(s, t, Mark(c, b)),
           NEW a \in Activations, a.kind = Last(c).kind
    PROVE  Shape(t, Append(Front(c), a), b)
  <1>1. PICK d : d = Append(Front(c), a)
    OBVIOUS
  <1>2. d \in Seq(Activations) /\ Len(d) = Len(c) /\ Last(d).kind = Last(c).kind
    BY <1>1, TopReplaced
  <1>3. \A i \in 1 .. Len(c) - 1 : d[i] = c[i]
    BY <1>1, TopReplaced
  <1>4. Shape(t, d, b)
    BY <1>2, <1>3, ShapeKept
  <1> QED BY <1>1, <1>4

(* The last activation goes on, over as many values as its map says. *)
LEMMA ContinueOK ==
    ASSUME NEW c \in Seq(Activations), c # <<>>, Chain(c),
           NEW s \in Seq(Nat), NEW b, Shape(s, c, b),
           NEW t \in Seq(Nat), Agree(s, t, Mark(c, b)), NEW a,
           \/ RunOK(a) /\ Last(c).kind = "run" /\ a.fn = Last(c).fn
           \/ NewOK(a) /\ Last(c).kind = "new",
           Filled(t, Append(Front(c), a), b, "none", FALSE)
    PROVE  Sound(t, Append(Front(c), a), "none", FALSE)
  <1>1. PICK d : d = Append(Front(c), a)
    OBVIOUS
  <1>2. a \in Activations /\ a.kind = Last(c).kind
    BY ActivationType
  <1>3. d \in Seq(Activations)
    BY <1>1, <1>2, TopReplaced
  <1>4. Chain(d)
    BY <1>1, ChainTop
  <1>5. Shape(t, d, b)
    BY <1>1, <1>2, ShapeOn
  <1>6. Sound(t, d, "none", FALSE)
    BY <1>1, <1>3, <1>4, <1>5 DEF Sound, Typed
  <1> QED BY <1>1, <1>6

LEMMA FilledOn ==
    ASSUME NEW c \in Seq(Activations), c # <<>>, NEW b, NEW t, NEW a \in Activations,
           Len(t) = IF a.kind = "new" THEN (b[Len(c)] + Room(a)) - 1 ELSE b[Len(c)] + Room(a)
    PROVE  Filled(t, Append(Front(c), a), b, "none", FALSE)
  <1>1. PICK d : d = Append(Front(c), a)
    OBVIOUS
  <1>2. d # <<>> /\ Len(d) = Len(c) /\ Last(d) = a
    BY <1>1, TopReplaced
  <1>3. Place(d, b) = b[Len(c)] + Room(a)
    BY <1>2 DEF Place
  <1>4. Filled(t, d, b, "none", FALSE)
    <2>1. CASE a.kind = "new"
      <3>1. Len(t) = (b[Len(c)] + Room(a)) - 1
        BY <2>1
      <3>2. Len(t) = Place(d, b) - 1
        BY <1>3, <3>1, Zenon
      <3> QED BY <1>2, <2>1, <3>2, Zenon DEF Filled
    <2>2. CASE a.kind # "new"
      <3>1. Len(t) = b[Len(c)] + Room(a)
        BY <2>2
      <3>2. Len(t) = Place(d, b)
        BY <1>3, <3>1
      <3> QED BY <1>2, <2>2, <3>2, Zenon DEF Filled
    <2> QED BY <2>1, <2>2
  <1> QED BY <1>1, <1>4

(* The last activation ends with a result. *)
LEMMA LeaveOK ==
    ASSUME NEW c \in Seq(Activations), c # <<>>, Chain(c),
           NEW s \in Seq(Nat), NEW b, Shape(s, c, b),
           NEW t \in Seq(Nat), Agree(s, t, b[Len(c)] - 1), Len(t) = b[Len(c)]
    PROVE  Sound(t, Front(c), "ok", FALSE)
  <1>1. PICK e : Shape(t, Front(c), e) /\ Place(Front(c), e) = b[Len(c)]
    BY ShapePop
  <1>2. Front(c) \in Seq(Activations) /\ Chain(Front(c))
    BY FrontProperties, ChainFront, Zenon
  <1>3. Answered(Front(c), FALSE)
    BY ChainLast DEF Answered
  <1>4. Filled(t, Front(c), e, "ok", FALSE)
    BY <1>1 DEF Filled
  <1> QED BY <1>1, <1>2, <1>3, <1>4 DEF Sound, Typed

(* A run ends with an exception: its caller is ready for it. *)
LEMMA LeaveThrowing ==
    ASSUME NEW c \in Seq(Activations), c # <<>>, Chain(c),
           Last(c).kind = "run", Last(c).fn \in Throws,
           NEW s \in Seq(Nat), NEW b, Shape(s, c, b),
           NEW t \in Seq(Nat), Agree(s, t, b[Len(c)] - 1), Len(t) = b[Len(c)] - 1
    PROVE  Sound(t, Front(c), "ok", TRUE)
  <1>1. PICK e : Shape(t, Front(c), e) /\ Place(Front(c), e) = b[Len(c)]
    BY ShapePop
  <1>2. Front(c) \in Seq(Activations) /\ Chain(Front(c))
    BY FrontProperties, ChainFront, Zenon
  <1>3. Answered(Front(c), TRUE)
    <2>1. SUFFICES ASSUME Front(c) # <<>>
          PROVE  /\ Last(Front(c)).kind = "run"
                 /\ Room(Last(Front(c))) > 0
                 /\ Catches(Last(Front(c)).fn, Room(Last(Front(c))) - 1, Last(Front(c)).handlers)
      BY DEF Answered
    <2>2. MayCall(Last(Front(c)), Last(c).fn)
      BY <2>1, ChainLast
    <2>3. Last(Front(c)).kind = "run"
      BY <2>2 DEF MayCall
    <2> QED BY <2>1, <2>2, <2>3, ChainLast DEF MayCall, Room
  <1>4. Filled(t, Front(c), e, "ok", TRUE)
    BY <1>1 DEF Filled
  <1> QED BY <1>1, <1>2, <1>3, <1>4 DEF Sound, Typed

(* An activation fails. *)
LEMMA LeaveFailing ==
    ASSUME NEW c \in Seq(Activations), c # <<>>, Chain(c), NEW t \in Seq(Nat)
    PROVE  Sound(t, Front(c), "fail", FALSE)
  <1>1. Front(c) \in Seq(Activations) /\ Chain(Front(c))
    BY FrontProperties, ChainFront, Zenon
  <1> QED BY <1>1 DEF Sound, Typed

(* A run goes on at an instruction whose map fits. *)
LEMMA RunOn ==
    ASSUME NEW c \in Seq(Activations), c # <<>>, Chain(c), Last(c).kind = "run",
           NEW s \in Seq(Nat), NEW b, Shape(s, c, b),
           NEW t \in Seq(Nat), Agree(s, t, b[Len(c)]),
           NEW a \in [kind : {"run"}, fn : Scripts, pc : Nat, handlers : Seq(Nat)],
           a.fn = Last(c).fn,
           At(a.fn, a.pc, Len(t) - b[Len(c)], a.handlers)
    PROVE  Sound(t, Append(Front(c), a), "none", FALSE)
  <1>1. a.pc \in DOMAIN Code[a.fn]
        /\ StackMap[a.fn][a.pc] = [depth |-> Len(t) - b[Len(c)], nest |-> a.handlers]
    BY DEF At
  <1>2. RunOK(a)
    BY <1>1 DEF RunOK
  <1>3. a \in Activations /\ a.kind = "run"
    BY DEF Activations
  <1>4. Room(a) = Len(t) - b[Len(c)]
    BY <1>1, <1>3 DEF Room
  <1>5. b[Len(c)] \in Nat \ {0} /\ Mark(c, b) = b[Len(c)]
    BY ShapeTop DEF Mark
  <1>6. Len(t) = b[Len(c)] + Room(a)
    <2>1. Len(t) \in Nat
      OBVIOUS
    <2> QED BY <1>4, <1>5, <2>1
  <1>7. Filled(t, Append(Front(c), a), b, "none", FALSE)
    BY <1>3, <1>6, FilledOn
  <1> QED BY <1>2, <1>5, <1>7, ContinueOK

(* handleException stops at the marker of the run itself. *)
LEMMA UnwoundOK ==
    ASSUME NEW t \in Seq(Nat), NEW m \in 1 .. Len(t), t[m] # Value,
           \A p \in 1 .. Len(t) : p > m => t[p] = Value
    PROVE  /\ ~(ToSet(t) \subseteq {Value})
           /\ Unwound(t) \in Seq(Nat)
           /\ Len(Unwound(t)) = m - 1
           /\ Agree(t, Unwound(t), m - 1)
  <1>1. DOMAIN t = 1 .. Len(t) /\ Len(t) \in Nat
    OBVIOUS
  <1>2. t[m] \in ToSet(t)
    BY <1>1 DEF ToSet
  <1> DEFINE P(i) == t[i] # Value /\ \A j \in i + 1 .. Len(t) : t[j] = Value
  <1>3. P(m)
    BY <1>1
  <1>4. \A i \in DOMAIN t : P(i) => i = m
    <2>1. SUFFICES ASSUME NEW i \in 1 .. Len(t), P(i) PROVE i = m
      BY <1>1
    <2>2. ~(i > m)
      BY <2>1
    <2>3. ~(i < m)
      <3>1. SUFFICES ASSUME i < m PROVE FALSE
        OBVIOUS
      <3>2. m \in i + 1 .. Len(t)
        BY <3>1
      <3> QED BY <2>1, <3>2
    <2> QED BY <2>2, <2>3
  <1>5. (CHOOSE i \in DOMAIN t : P(i)) = m
    <2>1. m \in DOMAIN t
      BY <1>1
    <2> HIDE DEF P
    <2> QED BY <1>3, <1>4, <2>1
  <1>6. Unwound(t) = SubSeq(t, 1, m - 1)
    BY <1>5 DEF Unwound
  <1> HIDE DEF P
  <1>7. PICK k \in 0 .. Len(t) : k = m - 1
    BY <1>1
  <1>8. /\ SubSeq(t, 1, k) \in Seq(Nat) /\ Len(SubSeq(t, 1, k)) = k
        /\ \A p \in 1 .. k : SubSeq(t, 1, k)[p] = t[p]
    BY <1>7
  <1>9. Agree(t, SubSeq(t, 1, k), k)
    BY <1>8 DEF Agree
  <1> QED BY <1>2, <1>6, <1>7, <1>8, <1>9

LEMMA AgreeTrans ==
    ASSUME NEW s \in Seq(Nat), NEW t \in Seq(Nat), NEW u \in Seq(Nat), NEW m \in Nat, NEW k \in Nat,
           k <= m, Agree(s, t, m), Agree(t, u, k)
    PROVE  Agree(s, u, k)
  <1>1. /\ m \in 0 .. Len(s) /\ \A p \in 1 .. m : t[p] = s[p]
        /\ k <= Len(u) /\ \A p \in 1 .. k : u[p] = t[p]
        /\ \A p \in 1 .. Len(u) : p > k => u[p] = Value
    BY DEF Agree
  <1>2. Len(s) \in Nat
    OBVIOUS
  <1>3. k \in 0 .. Len(s) /\ \A p \in 1 .. k : p \in 1 .. m
    BY <1>1, <1>2
  <1> QED BY <1>1, <1>3 DEF Agree

(* The end of an opcode that did not fail. *)
LEMMA EndOpcodeOK ==
    ASSUME status = "running", control \in Seq(Activations), control # <<>>, Chain(control),
           Last(control).kind = "run",
           stack \in Seq(Nat), NEW b, Shape(stack, control, b),
           NEW t \in Seq(Nat), Agree(stack, t, b[Len(control)]),
           NEW a \in [kind : {"run"}, fn : Scripts, pc : Nat, handlers : Seq(Nat)],
           a.fn = Last(control).fn, NEW e \in BOOLEAN,
           e => Catches(a.fn, Len(t) - b[Len(control)], a.handlers),
           ~e => ~exception /\ At(a.fn, a.pc, Len(t) - b[Len(control)], a.handlers),
           exception \in BOOLEAN,
           EndOpcode(TRUE, e, t, a)
    PROVE  Step(Len(t))
  <1>4. Len(t) \in Nat
    OBVIOUS
  <1>1. CASE ~e
    <2>1. /\ stack' = t /\ control' = Append(Front(control), a) /\ ret' = "none"
          /\ exception' = exception /\ status' = status
      BY <1>1 DEF EndOpcode, Continue
    <2>2. Sound(t, Append(Front(control), a), "none", FALSE)
      BY <1>1, RunOn
    <2>3. exception = FALSE
      BY <1>1
    <2>4. Kept
      BY <2>1, <2>2, <2>3, Zenon DEF Kept
    <2>5. Last(Append(Front(control), a)).kind = "run"
      BY TopReplaced DEF Activations
    <2>6. ~Building'
      BY <2>1, <2>5 DEF Building, top
    <2> QED BY <1>4, <2>1, <2>4, <2>6 DEF Step
  <1>2. CASE e /\ a.handlers # <<>>
    <2>1. /\ stack' = t /\ control' = Append(Front(control), Caught(a)) /\ ret' = "none"
          /\ exception' = FALSE /\ status' = status
      BY <1>2 DEF EndOpcode, Continue
    <2>2. PICK a2 : a2 = Caught(a)
      OBVIOUS
    <2>3. Front(a.handlers) \in Seq(Nat) /\ Last(a.handlers) \in Nat
      BY <1>2, FrontProperties
    <2>4. /\ a2 \in [kind : {"run"}, fn : Scripts, pc : Nat, handlers : Seq(Nat)]
          /\ a2.fn = a.fn /\ a2.pc = Last(a.handlers) /\ a2.handlers = Front(a.handlers)
      BY <2>2, <2>3 DEF Caught
    <2>5. At(a2.fn, a2.pc, Len(t) - b[Len(control)], a2.handlers)
      BY <1>2, <2>4 DEF Catches
    <2>6. a2.fn = Last(control).fn
      BY <2>4
    <2>7. Sound(t, Append(Front(control), a2), "none", FALSE)
      BY <2>4, <2>5, <2>6, RunOn
    <2>8. Kept
      BY <2>1, <2>2, <2>7, Zenon DEF Kept
    <2>9. Last(Append(Front(control), a2)).kind = "run"
      BY <2>4, TopReplaced DEF Activations
    <2>10. ~Building'
      BY <2>1, <2>2, <2>9 DEF Building, top
    <2> QED BY <1>4, <2>1, <2>8, <2>10 DEF Step
  <1>3. CASE e /\ a.handlers = <<>>
    <2>1. PICK m \in Nat \ {0} : m = b[Len(control)]
      BY ShapeTop
    <2>2. stack[m] = Len(control) /\ Len(control) \in Nat \ {0}
      BY <2>1, ShapeTop, FrontProperties
    <2>3. m \in 1 .. Len(t) /\ t[m] = stack[m] /\ \A p \in 1 .. Len(t) : p > m => t[p] = Value
      <3>1. m <= Len(t) /\ (\A p \in 1 .. m : t[p] = stack[p])
            /\ \A p \in 1 .. Len(t) : p > m => t[p] = Value
        BY <2>1 DEF Agree
      <3>2. Len(t) \in Nat /\ m \in 1 .. m
        OBVIOUS
      <3> QED BY <3>1, <3>2
    <2>4. t[m] # Value
      BY <2>2, <2>3 DEF Value
    <2>5. /\ ~(ToSet(t) \subseteq {Value})
          /\ Unwound(t) \in Seq(Nat)
          /\ Len(Unwound(t)) = m - 1
          /\ Agree(t, Unwound(t), m - 1)
      BY <2>3, <2>4, UnwoundOK
    <2>6. /\ stack' = Unwound(t) /\ control' = Front(control) /\ ret' = "ok"
          /\ exception' = TRUE /\ status' = status
      BY <1>3, <2>5 DEF EndOpcode, Leave
    <2>7. PICK u \in Seq(Nat) : u = Unwound(t)
      BY <2>5
    <2>8. Agree(stack, u, m - 1)
      <3>1. m - 1 \in Nat /\ m - 1 <= m
        OBVIOUS
      <3> QED BY <2>1, <2>5, <2>7, <3>1, AgreeTrans
    <2>9. Last(control).fn \in Throws
      BY <1>3 DEF Catches
    <2>10. Sound(u, Front(control), "ok", TRUE)
      <3>1. Len(u) = b[Len(control)] - 1 /\ Agree(stack, u, b[Len(control)] - 1)
        BY <2>1, <2>5, <2>7, <2>8
      <3> QED BY <2>9, <3>1, LeaveThrowing
    <2>11. Kept
      BY <2>6, <2>7, <2>10, Zenon DEF Kept
    <2>12. Len(stack') <= Len(t)
      <3>1. m - 1 <= Len(t)
        BY <1>4, <2>3
      <3> QED BY <2>5, <2>6, <3>1
    <2> QED BY <2>6, <2>11, <2>12 DEF Step
  <1> QED BY <1>1, <1>2, <1>3

-----------------------------------------------------------------------------
(***************************************************************************)
(* Lemmas about calls                                                      *)
(***************************************************************************)
LEMMA ShapeValue ==
    ASSUME NEW c \in Seq(Activations), NEW s \in Seq(Nat), NEW b, Shape(s, c, b)
    PROVE  /\ Append(s, Value) \in Seq(Nat)
           /\ Len(Append(s, Value)) = Len(s) + 1
           /\ Shape(Append(s, Value), c, b)
  <1>1. PICK t : t = Append(s, Value)
    OBVIOUS
  <1>2. /\ t \in Seq(Nat) /\ Len(t) = Len(s) + 1 /\ Len(s) \in Nat
        /\ \A p \in 1 .. Len(s) : t[p] = s[p]
        /\ t[Len(s) + 1] = Value
    BY <1>1, AppendProperties DEF Value
  <1>3. \A p \in 1 .. Len(t) : p \in 1 .. Len(s) \/ p = Len(s) + 1
    BY <1>2
  <1>4. \A p \in 1 .. Len(s) : p \in 1 .. Len(t)
    BY <1>2
  <1>5. ASSUME NEW i \in 1 .. Len(c), c[i].kind = "run" PROVE b[i] \in 1 .. Len(t) /\ t[b[i]] = i
    <2>1. b[i] \in 1 .. Len(s) /\ s[b[i]] = i
      BY <1>5 DEF Shape
    <2> QED BY <1>2, <1>4, <2>1, Zenon
  <1>6. ASSUME NEW p \in 1 .. Len(t), t[p] # Value
        PROVE  \E i \in 1 .. Len(c) : c[i].kind = "run" /\ b[i] = p /\ t[p] = i
    <2>1. p \in 1 .. Len(s) /\ t[p] = s[p]
      BY <1>2, <1>3, <1>6
    <2> QED BY <1>6, <2>1 DEF Shape
  <1>7. Shape(t, c, b)
    BY <1>5, <1>6 DEF Shape
  <1> QED BY <1>1, <1>2, <1>7

(* The first instruction of a function finds no operands. *)
LEMMA FrameOK ==
    ASSUME Verified, NEW f \in Scripts, Code[f] # <<>>
    PROVE  /\ RunOK(Frame(f)) /\ Frame(f) \in Activations
           /\ Frame(f).kind = "run" /\ Frame(f).fn = f
           /\ Room(Frame(f)) = 0
  <1>1. 1 \in DOMAIN Code[f] /\ StackMap[f][1] = [depth |-> 0, nest |-> <<>>]
    BY DEF Verified, At
  <1>2. /\ Frame(f) \in [kind : {"run"}, fn : Scripts, pc : Nat, handlers : Seq(Nat)]
        /\ Frame(f).kind = "run" /\ Frame(f).fn = f
        /\ Frame(f).pc = 1 /\ Frame(f).handlers = <<>>
    BY DEF Frame
  <1>3. RunOK(Frame(f))
    BY <1>1, <1>2 DEF RunOK
  <1>4. Room(Frame(f)) = 0
    BY <1>1, <1>2 DEF Room
  <1> QED BY <1>2, <1>3, <1>4 DEF Activations

(* A script function is entered. *)
LEMMA EnterOK ==
    ASSUME Verified, NEW c \in Seq(Activations), Chain(c),
           c # <<>> /\ Last(c).kind = "run" => Room(Last(c)) > 0,
           NEW s \in Seq(Nat), NEW b, Shape(s, c, b), Len(s) = Place(c, b) - 1,
           NEW f \in Scripts, Code[f] # <<>>, c # <<>> => MayCall(Last(c), f)
    PROVE  Sound(Append(s, Len(c) + 1), Append(c, Frame(f)), "none", FALSE)
  <1>1. PICK a \in Activations : a = Frame(f)
    BY FrameOK
  <1>2. RunOK(a) /\ a.kind = "run" /\ a.fn = f /\ Room(a) = 0
    BY <1>1, FrameOK
  <1>3. PICK d : d = Append(c, a)
    OBVIOUS
  <1>4. /\ d \in Seq(Activations) /\ d # <<>> /\ Len(c) \in Nat
        /\ Len(d) = Len(c) + 1 /\ Last(d) = a
    BY <1>3, TopAdded
  <1>5. Chain(d)
    BY <1>2, <1>3, ChainPush
  <1>6. PICK t : t = Append(s, Len(c) + 1)
    OBVIOUS
  <1>12. t \in Seq(Nat) /\ Len(t) = Len(s) + 1
    <2>1. Len(c) + 1 \in Nat
      BY <1>4
    <2> QED BY <1>6, <2>1, AppendProperties
  <1>7. PICK e : Shape(t, d, e) /\ e[Len(c) + 1] = Place(c, b)
    <2>1. IF a.kind = "run" THEN t = Append(s, Len(c) + 1) /\ Len(s) = Place(c, b) - 1 ELSE t = s
      BY <1>2, <1>6
    <2>2. \E e : Shape(t, Append(c, a), e) /\ e[Len(c) + 1] = Place(c, b)
      BY <1>12, <2>1, ShapePush
    <2> QED BY <1>3, <2>2
  <1>8. Place(c, b) \in Nat \ {0}
    BY PlaceType
  <1>9. Place(d, e) = Len(t)
    <2>1. Place(d, e) = e[Len(d)] + Room(Last(d))
      BY <1>4 DEF Place
    <2>2. Place(d, e) = Place(c, b) + 0
      BY <1>2, <1>4, <1>7, <2>1
    <2>3. Len(s) \in Nat
      OBVIOUS
    <2> QED BY <1>12, <1>8, <2>2, <2>3
  <1>10. Filled(t, d, e, "none", FALSE)
    BY <1>2, <1>4, <1>9 DEF Filled
  <1>11. Sound(t, d, "none", FALSE)
    BY <1>4, <1>5, <1>7, <1>10, <1>12 DEF Sound, Typed
  <1> QED BY <1>1, <1>3, <1>6, <1>11

LEMMA DropLength ==
    ASSUME NEW s \in Seq(Nat), NEW k \in Nat, k <= Len(s)
    PROVE  Len(Drop(s, k)) = Len(s) - k /\ Len(s) \in Nat
  <1>1. PICK l \in Nat : l = Len(s)
    OBVIOUS
  <1>2. l - k \in 0 .. l
    BY <1>1
  <1>3. PICK i \in 0 .. Len(s) : i = l - k
    BY <1>1, <1>2
  <1>4. Len(SubSeq(s, 1, i)) = i
    OBVIOUS
  <1> QED BY <1>1, <1>3, <1>4 DEF Drop

(* A call, whoever makes it. *)
LEMMA ExecuteOK ==
    ASSUME Verified, status = "running", exception = FALSE,
           NEW c \in Seq(Activations), Chain(c),
           c # <<>> /\ Last(c).kind = "run" => Room(Last(c)) > 0,
           NEW s \in Seq(Nat), NEW k \in Nat, k <= Len(s),
           NEW t \in Seq(Nat), t = Drop(s, k),
           NEW b, Shape(t, c, b), Len(t) = Place(c, b) - 1,
           NEW f \in Callees, c # <<>> => MayCall(Last(c), f),
           Execute(f, k, s, c)
    PROVE  Step(Len(t) + k + 1)
  <1>1. ~(Len(s) < k)
    OBVIOUS
  <1>2. Place(c, b) \in Nat \ {0} /\ Len(t) \in Nat
    BY PlaceType
  <1>3. CASE f \in DOMAIN Native
    <2>1. status' = "running"
      BY <1>1 DEF Execute
    <2>2. PICK out \in Native[f] :
             /\ exception' = (exception \/ out = "throw")
             /\ stack' = NativePushes(t, out # "fail", exception \/ out = "throw")
             /\ control' = c
             /\ ret' = IF out = "fail" THEN "fail" ELSE "ok"
      BY <1>1, <1>3 DEF Execute
    <2>3. out \in {"ok", "throw", "fail"}
      BY <1>3, MachineAssumption DEF Outcomes
    <2>4. CASE out = "ok"
      <3>1. stack' = Append(t, Value) /\ exception' = FALSE /\ control' = c /\ ret' = "ok"
        BY <2>2, <2>4 DEF NativePushes
      <3>2. PICK u : u = Append(t, Value)
        OBVIOUS
      <3>3. u \in Seq(Nat) /\ Len(u) = Len(t) + 1 /\ Shape(u, c, b)
        BY <3>2, ShapeValue
      <3>4. Filled(u, c, b, "ok", FALSE)
        <4>1. Len(u) = Place(c, b)
          BY <1>2, <3>3
        <4> QED BY <4>1 DEF Filled
      <3>5. Answered(c, FALSE)
        BY DEF Answered
      <3>6. Sound(u, c, "ok", FALSE)
        BY <3>3, <3>4, <3>5 DEF Sound, Typed
      <3>7. Len(stack') <= Len(t) + k + 1
        BY <1>2, <3>1, <3>2, <3>3
      <3> QED BY <2>1, <3>1, <3>2, <3>6, <3>7 DEF Step, Kept
    <2>5. CASE out = "throw"
      <3>1. stack' = t /\ exception' = TRUE /\ control' = c /\ ret' = "ok"
        BY <2>2, <2>5 DEF NativePushes
      <3>2. f \in Throws
        BY <1>3, <2>5 DEF Verified
      <3>3. Answered(c, TRUE)
        <4>1. SUFFICES ASSUME c # <<>>
              PROVE  /\ Last(c).kind = "run"
                     /\ Room(Last(c)) > 0
                     /\ Catches(Last(c).fn, Room(Last(c)) - 1, Last(c).handlers)
          BY DEF Answered
        <4>2. MayCall(Last(c), f)
          BY <4>1
        <4>3. Last(c).kind = "run"
          BY <3>2, <4>2 DEF MayCall
        <4>4. Catches(Last(c).fn, StackMap[Last(c).fn][Last(c).pc].depth - 1, Last(c).handlers)
          BY <3>2, <4>2, <4>3 DEF MayCall
        <4> QED BY <4>1, <4>3, <4>4 DEF Room
      <3>4. Filled(t, c, b, "ok", TRUE)
        BY DEF Filled
      <3>5. Sound(t, c, "ok", TRUE)
        BY <3>3, <3>4 DEF Sound, Typed
      <3>6. Len(stack') <= Len(t) + k + 1
        BY <1>2, <3>1
      <3> QED BY <2>1, <3>1, <3>5, <3>6 DEF Step, Kept
    <2>6. CASE out = "fail"
      <3>1. stack' = t /\ exception' = FALSE /\ control' = c /\ ret' = "fail"
        BY <2>2, <2>6 DEF NativePushes
      <3>2. Sound(t, c, "fail", FALSE)
        BY DEF Sound, Typed
      <3>3. Len(stack') <= Len(t) + k + 1
        BY <1>2, <3>1
      <3> QED BY <2>1, <3>1, <3>2, <3>3 DEF Step, Kept
    <2> QED BY <2>3, <2>4, <2>5, <2>6
  <1>4. CASE f \notin DOMAIN Native /\ Code[f] = <<>>
    <2>1. /\ status' = "running" /\ stack' = s /\ control' = c
          /\ ret' = "fail" /\ exception' = FALSE
      BY <1>1, <1>4 DEF Execute
    <2>2. Sound(s, c, "fail", FALSE)
      BY DEF Sound, Typed
    <2>3. Len(s) <= Len(t) + k + 1
      <3>1. Len(t) = Len(s) - k /\ Len(s) \in Nat
        BY DropLength
      <3> QED BY <3>1
    <2> QED BY <2>1, <2>2, <2>3 DEF Step, Kept
  <1>5. CASE f \notin DOMAIN Native /\ Code[f] # <<>>
    <2>1. /\ status' = "running" /\ stack' = Append(t, Len(c) + 1)
          /\ control' = Append(c, Frame(f)) /\ ret' = "none" /\ exception' = FALSE
      BY <1>1, <1>5 DEF Execute
    <2>2. f \in Scripts
      BY <1>5 DEF Callees
    <2>3. Sound(Append(t, Len(c) + 1), Append(c, Frame(f)), "none", FALSE)
      BY <1>5, <2>2, EnterOK
    <2>4. Kept
      BY <2>1, <2>3, Zenon DEF Kept
    <2>5. Len(stack') <= Len(t) + k + 1
      <3>1. Len(c) + 1 \in Nat
        BY TopAdded, FrameOK, <1>5, <2>2
      <3>2. Len(Append(t, Len(c) + 1)) = Len(t) + 1
        BY <3>1, AppendProperties
      <3> QED BY <1>2, <2>1, <3>2
    <2>6. ~Building'
      <3>1. Last(Append(c, Frame(f))).kind = "run"
        BY <1>5, <2>2, FrameOK, TopAdded
      <3> QED BY <2>1, <3>1 DEF Building, top
    <2> QED BY <2>4, <2>5, <2>6 DEF Step
  <1> QED BY <1>3, <1>4, <1>5

-----------------------------------------------------------------------------
(***************************************************************************)
(* The opcodes                                                             *)
(***************************************************************************)
RunType == [kind : {"run"}, fn : Scripts, pc : Nat, handlers : Seq(Nat)]

(* What holds when an instruction is fetched. *)
Ready(b) ==
    /\ status = "running" /\ exception = FALSE
    /\ stack \in Seq(Nat) /\ control \in Seq(Activations) /\ control # <<>> /\ Chain(control)
    /\ top \in RunType /\ top.kind = "run"
    /\ top.handlers = StackMap[top.fn][top.pc].nest
    /\ StackMap[top.fn][top.pc].depth \in Nat
    /\ instr \in Instructions /\ VerifiedAt(top.fn, top.pc)
    /\ Shape(stack, control, b)
    /\ b[Len(control)] \in Nat \ {0}
    /\ Len(stack) = b[Len(control)] + StackMap[top.fn][top.pc].depth
    /\ \A p \in 1 .. Len(stack) : p > b[Len(control)] => stack[p] = Value

LEMMA ReadyOK ==
    ASSUME Verified, MInv, Running, ret = "none"
    PROVE  \E b : Ready(b)
  <1>1. status = "running" /\ control # <<>> /\ top.kind = "run"
    BY DEF Running
  <1>2. Sound(stack, control, ret, exception)
    BY <1>1 DEF MInv
  <1>3. stack \in Seq(Nat) /\ control \in Seq(Activations) /\ Chain(control) /\ exception = FALSE
    BY <1>2 DEF Sound, Typed
  <1>4. RunOK(top)
    BY <1>1, <1>3, ChainLast, ActivationType DEF top
  <1>5. top \in RunType /\ top.pc \in DOMAIN Code[top.fn] /\ top.handlers = StackMap[top.fn][top.pc].nest
    BY <1>4 DEF RunOK, RunType
  <1>6. top.fn \in Scripts
    BY <1>5 DEF RunType
  <1>7. StackMap[top.fn][top.pc].depth \in Nat
    BY <1>5, <1>6, MachineAssumption
  <1>8. instr \in Instructions
    BY <1>5, <1>6, MachineAssumption DEF instr
  <1>9. VerifiedAt(top.fn, top.pc)
    BY <1>5, <1>6 DEF Verified
  <1>10. PICK b : Shape(stack, control, b) /\ Filled(stack, control, b, "none", FALSE)
    BY <1>2, <1>3 DEF Sound
  <1>11. /\ b[Len(control)] \in Nat \ {0}
         /\ \A p \in 1 .. Len(stack) : p > b[Len(control)] => stack[p] = Value
    BY <1>1, <1>3, <1>10, ShapeTop DEF top, Mark
  <1>12. Len(stack) = b[Len(control)] + StackMap[top.fn][top.pc].depth
    BY <1>1, <1>10 DEF top, Filled, Place, Room
  <1> QED BY <1>1, <1>3, <1>5, <1>7, <1>8, <1>9, <1>10, <1>11, <1>12 DEF Ready

(* What an instruction has, by its opcode. *)
LEMMA InstrType ==
    ASSUME NEW i \in Instructions
    PROVE  /\ i.op = "data" => i.pops \in Nat /\ i.pushes \in 0 .. 2 /\ i.fails \in BOOLEAN
           /\ i.op \in {"branch", "jump", "try"} => i.to \in Nat
           /\ i.op = "call" => i.fn \in Callees /\ i.argc \in Nat /\ i.pops \in Nat
           /\ i.op = "new" => i.class \in DOMAIN Ctors /\ i.argc \in Nat
  BY DEF Instructions

(* Operands above the marker are popped. *)
LEMMA ReadyDrop ==
    ASSUME NEW b, Ready(b), NEW k \in Nat, k <= StackMap[top.fn][top.pc].depth
    PROVE  /\ ~(Len(stack) < k)
           /\ Drop(stack, k) \in Seq(Nat)
           /\ Len(Drop(stack, k)) = Len(stack) - k
           /\ Len(Drop(stack, k)) - b[Len(control)] = StackMap[top.fn][top.pc].depth - k
           /\ Agree(stack, Drop(stack, k), b[Len(control)])
  <1>1. PICK m \in Nat : m = b[Len(control)]
    BY DEF Ready
  <1>2. PICK dd \in Nat : dd = StackMap[top.fn][top.pc].depth
    BY DEF Ready
  <1>3. stack \in Seq(Nat) /\ Len(stack) = m + dd /\ \A p \in 1 .. Len(stack) : p > m => stack[p] = Value
    BY <1>1, <1>2 DEF Ready
  <1>4. m + k <= Len(stack)
    BY <1>2, <1>3
  <1>5. /\ Drop(stack, k) \in Seq(Nat)
        /\ Len(Drop(stack, k)) = Len(stack) - k
        /\ Agree(stack, Drop(stack, k), m)
    BY <1>3, <1>4, DropAgrees
  <1>6. ~(Len(stack) < k) /\ (Len(stack) - k) - m = dd - k
    <2>1. PICK l \in Nat : l = Len(stack)
      BY <1>3
    <2>2. l = m + dd /\ m + k <= l
      BY <1>3, <1>4, <2>1
    <2>3. ~(l < k) /\ (l - k) - m = dd - k
      BY <2>2
    <2> QED BY <2>1, <2>3
  <1> QED BY <1>1, <1>2, <1>5, <1>6

LEMMA ReadySame ==
    ASSUME NEW b, Ready(b)
    PROVE  /\ stack \in Seq(Nat)
           /\ Len(stack) - b[Len(control)] = StackMap[top.fn][top.pc].depth
           /\ Agree(stack, stack, b[Len(control)])
  <1>1. PICK m \in Nat : m = b[Len(control)]
    BY DEF Ready
  <1>2. PICK dd \in Nat : dd = StackMap[top.fn][top.pc].depth
    BY DEF Ready
  <1>3. stack \in Seq(Nat) /\ Len(stack) = m + dd /\ \A p \in 1 .. Len(stack) : p > m => stack[p] = Value
    BY <1>1, <1>2 DEF Ready
  <1>4. Len(stack) - m = dd /\ m \in 0 .. Len(stack)
    BY <1>3
  <1> QED BY <1>1, <1>2, <1>3, <1>4 DEF Agree

LEMMA NextType ==
    ASSUME NEW b, Ready(b)
    PROVE  /\ next \in RunType /\ next.fn = top.fn /\ next.pc = top.pc + 1
           /\ next.handlers = top.handlers
  <1>1. PICK a \in RunType : a = top
    BY DEF Ready
  <1>2. PICK a2 : a2 = [a EXCEPT !.pc = a.pc + 1]
    OBVIOUS
  <1>3. a2 \in RunType /\ a2.fn = a.fn /\ a2.pc = a.pc + 1 /\ a2.handlers = a.handlers
    BY <1>2 DEF RunType
  <1>4. next = a2
    BY <1>1, <1>2 DEF next
  <1> QED BY <1>1, <1>3, <1>4

(* An opcode ends with the values t, at a. *)
LEMMA ReadyEnd ==
    ASSUME NEW b, Ready(b), NEW t \in Seq(Nat), Agree(stack, t, b[Len(control)]),
           NEW a \in RunType, a.fn = top.fn, NEW e \in BOOLEAN,
           IF e THEN Catches(top.fn, Len(t) - b[Len(control)], a.handlers)
                ELSE At(top.fn, a.pc, Len(t) - b[Len(control)], a.handlers),
           EndOpcode(TRUE, e, t, a)
    PROVE  Step(Len(t))
  <1>1. /\ status = "running" /\ exception \in BOOLEAN /\ ~exception
        /\ stack \in Seq(Nat) /\ control \in Seq(Activations) /\ control # <<>> /\ Chain(control)
        /\ Last(control).kind = "run" /\ Shape(stack, control, b) /\ a.fn = Last(control).fn
    BY DEF Ready, top
  <1>2. a \in [kind : {"run"}, fn : Scripts, pc : Nat, handlers : Seq(Nat)]
    BY DEF RunType
  <1>3. e => Catches(a.fn, Len(t) - b[Len(control)], a.handlers)
    OBVIOUS
  <1>4. ~e => ~exception /\ At(a.fn, a.pc, Len(t) - b[Len(control)], a.handlers)
    BY <1>1
  <1> QED BY <1>1, <1>2, <1>3, <1>4, EndOpcodeOK

(* A run fails. *)
LEMMA ReadyFail ==
    ASSUME NEW b, Ready(b), NEW t \in Seq(Nat), Leave(t, "fail"), UNCHANGED <<exception, status>>
    PROVE  Step(Len(t))
  <1>1. Sound(t, Front(control), "fail", FALSE)
    BY LeaveFailing DEF Ready
  <1>2. stack' = t /\ control' = Front(control) /\ ret' = "fail"
        /\ exception' = FALSE /\ status' = "running"
    BY DEF Leave, Ready
  <1>3. Kept
    BY <1>1, <1>2 DEF Kept
  <1>4. Len(t) \in Nat
    OBVIOUS
  <1> QED BY <1>2, <1>3, <1>4 DEF Step

LEMMA StepWeaker ==
    ASSUME NEW i \in Int, NEW j \in Int, i <= j, Step(i)
    PROVE  Step(j)
  <1>1. Len(stack') \in Nat
    BY DEF Step, Kept, Sound, Typed
  <1> QED BY <1>1 DEF Step

depth == StackMap[top.fn][top.pc].depth

(* What Verified says of the instruction at hand. *)
LEMMA VerifiedInstr ==
    ASSUME NEW b, Ready(b)
    PROVE  /\ instr.op = "data" =>
                /\ depth >= instr.pops
                /\ At(top.fn, next.pc, depth - instr.pops + instr.pushes, top.handlers)
           /\ instr.op = "branch" =>
                At(top.fn, instr.to, depth, top.handlers) /\ At(top.fn, next.pc, depth, top.handlers)
           /\ instr.op = "jump" => At(top.fn, instr.to, depth, top.handlers)
           /\ instr.op = "try" => At(top.fn, next.pc, depth, Append(top.handlers, instr.to))
           /\ instr.op = "endtry" =>
                top.handlers # <<>> /\ At(top.fn, next.pc, depth, Front(top.handlers))
           /\ instr.op = "throw" => depth >= 1 /\ Catches(top.fn, depth - 1, top.handlers)
           /\ instr.op = "loadarray" =>
                /\ depth >= 2
                /\ At(top.fn, next.pc, depth - 1, top.handlers)
                /\ Catches(top.fn, depth - 1, top.handlers)
           /\ instr.op = "storearray" =>
                /\ depth >= 3
                /\ At(top.fn, next.pc, depth - 3, top.handlers)
                /\ Catches(top.fn, depth - 3, top.handlers)
           /\ instr.op = "call" =>
                /\ depth - instr.pops - instr.argc >= 0
                /\ At(top.fn, next.pc, depth - instr.pops - instr.argc + 1, top.handlers)
                /\ instr.fn \in Throws =>
                     Catches(top.fn, depth - instr.pops - instr.argc, top.handlers)
           /\ instr.op = "new" =>
                /\ depth >= instr.argc
                /\ At(top.fn, next.pc, depth - instr.argc + 1, top.handlers)
                /\ ToSet(Ctors[instr.class]) \cap Throws = {}
                /\ instr.class \notin OwnCtor => instr.argc = 0
           /\ instr.op = "return" => depth = 1
  <1>1. VerifiedAt(top.fn, top.pc) /\ top.handlers = StackMap[top.fn][top.pc].nest
    BY DEF Ready
  <1>2. next.pc = top.pc + 1
    BY NextType
  <1>3. PICK i : i = Code[top.fn][top.pc]
    OBVIOUS
  <1>4. instr = i
    BY <1>3 DEF instr
  <1> HIDE DEF instr
  <1>5. PICK f, pc, n, d : f = top.fn /\ pc = top.pc /\ n = top.handlers /\ d = depth
    OBVIOUS
  <1>6. /\ i.op = "data" => d >= i.pops /\ At(f, pc + 1, d - i.pops + i.pushes, n)
        /\ i.op = "branch" => At(f, i.to, d, n) /\ At(f, pc + 1, d, n)
        /\ i.op = "jump" => At(f, i.to, d, n)
        /\ i.op = "try" => At(f, pc + 1, d, Append(n, i.to))
        /\ i.op = "endtry" => n # <<>> /\ At(f, pc + 1, d, Front(n))
        /\ i.op = "throw" => d >= 1 /\ Catches(f, d - 1, n)
        /\ i.op = "loadarray" => d >= 2 /\ At(f, pc + 1, d - 1, n) /\ Catches(f, d - 1, n)
        /\ i.op = "storearray" => d >= 3 /\ At(f, pc + 1, d - 3, n) /\ Catches(f, d - 3, n)
        /\ i.op = "call" =>
             /\ d - i.pops - i.argc >= 0 /\ At(f, pc + 1, d - i.pops - i.argc + 1, n)
             /\ i.fn \in Throws => Catches(f, d - i.pops - i.argc, n)
        /\ i.op = "new" =>
             /\ d >= i.argc /\ At(f, pc + 1, d - i.argc + 1, n)
             /\ ToSet(Ctors[i.class]) \cap Throws = {}
             /\ i.class \notin OwnCtor => i.argc = 0
        /\ i.op = "return" => d = 1
    BY <1>1, <1>3, <1>5 DEF VerifiedAt, depth
  <1> QED BY <1>2, <1>4, <1>5, <1>6

LEMMA DataOK ==
    ASSUME NEW b, Ready(b), Data
    PROVE  Step(Len(stack) + 2)
  <1>1. instr.op = "data"
    BY DEF Data, Fetch, Instr, instr
  <1>2. instr.pops \in Nat /\ instr.pushes \in Nat /\ instr \in Instructions
    BY <1>1, InstrType DEF Ready
  <1>3. depth >= instr.pops /\ At(top.fn, next.pc, depth - instr.pops + instr.pushes, top.handlers)
    BY <1>1, VerifiedInstr
  <1>4. PICK popped : popped = Drop(stack, instr.pops)
    OBVIOUS
  <1>5. depth \in Nat /\ instr.pops <= StackMap[top.fn][top.pc].depth
    BY <1>2, <1>3 DEF Ready, depth
  <1>6. /\ ~(Len(stack) < instr.pops)
        /\ popped \in Seq(Nat)
        /\ Len(popped) - b[Len(control)] = depth - instr.pops
        /\ Agree(stack, popped, b[Len(control)])
    BY <1>2, <1>4, <1>5, ReadyDrop DEF depth
  <1>7. PICK pushed : pushed = popped \o [i \in 1 .. instr.pushes |-> Value]
    OBVIOUS
  <1>8. PICK ok \in BOOLEAN :
           EndOpcode(ok, exception, IF ok THEN pushed ELSE popped, next)
    <2>1. {TRUE} \cup {~instr.fails} \subseteq BOOLEAN
      BY <1>1, <1>2, InstrType
    <2>2. \E ok \in {TRUE} \cup {~instr.fails} :
             EndOpcode(ok, exception, IF ok THEN pushed ELSE popped, next)
      BY <1>4, <1>6, <1>7 DEF Data
    <2> QED BY <2>1, <2>2, Zenon
  <1>9. exception = FALSE /\ stack \in Seq(Nat)
    BY DEF Ready
  <1>12. Len(popped) <= Len(stack) /\ Len(popped) \in Nat /\ Len(stack) \in Nat
    <2>1. Len(popped) = Len(stack) - instr.pops
      BY <1>2, <1>4, <1>5, ReadyDrop
    <2>2. Len(popped) \in Nat /\ Len(stack) \in Nat
      BY <1>6, <1>9
    <2> QED BY <1>2, <2>1, <2>2
  <1>10. CASE ok = TRUE
    <2>1. EndOpcode(TRUE, FALSE, pushed, next)
      BY <1>8, <1>9, <1>10
    <2>2. pushed \in Seq(Nat) /\ Len(pushed) = Len(popped) + instr.pushes
          /\ Agree(stack, pushed, b[Len(control)])
      BY <1>2, <1>6, <1>7, <1>9, PushAllAgrees
    <2>3. Len(pushed) - b[Len(control)] = depth - instr.pops + instr.pushes
      <3>1. Len(popped) \in Nat /\ b[Len(control)] \in Nat
        BY <1>6 DEF Ready
      <3> QED BY <1>2, <1>5, <1>6, <2>2, <3>1
    <2>4. next \in RunType /\ next.fn = top.fn /\ next.handlers = top.handlers
      BY NextType
    <2>5. Step(Len(pushed))
      BY <1>3, <2>1, <2>2, <2>3, <2>4, ReadyEnd
    <2>6. Len(pushed) <= Len(stack) + 2
      <3>1. instr.pushes <= 2
        BY <1>1, <1>2, InstrType
      <3> QED BY <1>2, <1>12, <2>2, <3>1
    <2> QED BY <1>12, <2>2, <2>5, <2>6, StepWeaker
  <1>11. CASE ok # TRUE
    <2>1. ok = FALSE
      BY <1>11, Zenon
    <2>2. Leave(popped, "fail") /\ UNCHANGED <<exception, status>>
      BY <1>8, <1>9, <2>1 DEF EndOpcode
    <2>3. Step(Len(popped))
      BY <1>6, <2>2, ReadyFail
    <2> QED BY <1>12, <2>3, StepWeaker
  <1> QED BY <1>10, <1>11

LEMMA BranchOK ==
    ASSUME NEW b, Ready(b), Branch \/ Jump
    PROVE  Step(Len(stack) + 2)
  <1>1. /\ instr.op \in {"branch", "jump"}
        /\ \E pc \in {instr.to, next.pc} :
              /\ EndOpcode(TRUE, exception, stack, [top EXCEPT !.pc = pc])
              /\ instr.op = "jump" => pc = instr.to
    BY DEF Branch, Jump, Fetch, Instr, instr
  <1>2. PICK pc \in {instr.to, next.pc} :
           /\ EndOpcode(TRUE, exception, stack, [top EXCEPT !.pc = pc])
           /\ instr.op = "jump" => pc = instr.to
    BY <1>1
  <1>3. instr.to \in Nat
    BY <1>1, InstrType DEF Ready
  <1>4. top \in RunType /\ exception = FALSE
    BY DEF Ready
  <1>5. next.pc \in Nat
    BY <1>4, NextType DEF RunType
  <1>6. PICK a : a = [top EXCEPT !.pc = pc]
    OBVIOUS
  <1>7. a \in RunType /\ a.fn = top.fn /\ a.pc = pc /\ a.handlers = top.handlers
    BY <1>2, <1>3, <1>4, <1>5, <1>6 DEF RunType
  <1>8. At(top.fn, pc, depth, top.handlers)
    BY <1>1, <1>2, VerifiedInstr
  <1>9. EndOpcode(TRUE, FALSE, stack, a)
    BY <1>2, <1>4, <1>6
  <1>10. /\ stack \in Seq(Nat) /\ Agree(stack, stack, b[Len(control)])
         /\ Len(stack) - b[Len(control)] = depth
    BY ReadySame DEF depth
  <1>11. Step(Len(stack))
    BY <1>7, <1>8, <1>9, <1>10, ReadyEnd
  <1>12. Len(stack) \in Nat
    BY DEF Ready
  <1> QED BY <1>11, <1>12, StepWeaker

LEMMA PushTryOK ==
    ASSUME NEW b, Ready(b), PushTry
    PROVE  Step(Len(stack) + 2)
  <1>1. instr.op = "try" /\ EndOpcode(TRUE, exception, stack, [next EXCEPT !.handlers = Append(next.handlers, instr.to)])
    BY DEF PushTry, Fetch, Instr, instr
  <1>2. instr.to \in Nat
    BY <1>1, InstrType DEF Ready
  <1>3. next \in RunType /\ next.fn = top.fn /\ next.handlers = top.handlers
    BY NextType
  <1>4. PICK a : a = [next EXCEPT !.handlers = Append(next.handlers, instr.to)]
    OBVIOUS
  <1>5. Append(next.handlers, instr.to) \in Seq(Nat)
    BY <1>2, <1>3, AppendProperties DEF RunType
  <1>6. /\ a \in RunType /\ a.fn = top.fn /\ a.pc = next.pc
        /\ a.handlers = Append(top.handlers, instr.to)
    BY <1>3, <1>4, <1>5 DEF RunType
  <1>7. At(top.fn, next.pc, depth, Append(top.handlers, instr.to))
    BY <1>1, VerifiedInstr
  <1>8. EndOpcode(TRUE, FALSE, stack, a)
    BY <1>1, <1>4 DEF Ready
  <1>9. /\ stack \in Seq(Nat) /\ Agree(stack, stack, b[Len(control)])
        /\ Len(stack) - b[Len(control)] = depth
    BY ReadySame DEF depth
  <1>11. Step(Len(stack))
    BY <1>6, <1>7, <1>8, <1>9, ReadyEnd
  <1>12. Len(stack) \in Nat
    BY DEF Ready
  <1> QED BY <1>11, <1>12, StepWeaker

LEMMA PopTryOK ==
    ASSUME NEW b, Ready(b), PopTry
    PROVE  Step(Len(stack) + 2)
  <1>1. instr.op = "endtry" /\ EndOpcode(TRUE, exception, stack, [next EXCEPT !.handlers = Front(next.handlers)])
    BY DEF PopTry, Fetch, Instr, instr
  <1>2. next \in RunType /\ next.fn = top.fn /\ next.handlers = top.handlers
    BY NextType
  <1>3. top.handlers # <<>> /\ At(top.fn, next.pc, depth, Front(top.handlers))
    BY <1>1, VerifiedInstr
  <1>4. PICK a : a = [next EXCEPT !.handlers = Front(next.handlers)]
    OBVIOUS
  <1>5. Front(next.handlers) \in Seq(Nat)
    BY <1>2, <1>3, FrontProperties DEF RunType
  <1>6. a \in RunType /\ a.fn = top.fn /\ a.pc = next.pc /\ a.handlers = Front(top.handlers)
    BY <1>2, <1>4, <1>5 DEF RunType
  <1>7. EndOpcode(TRUE, FALSE, stack, a)
    BY <1>1, <1>4 DEF Ready
  <1>8. /\ stack \in Seq(Nat) /\ Agree(stack, stack, b[Len(control)])
        /\ Len(stack) - b[Len(control)] = depth
    BY ReadySame DEF depth
  <1>11. Step(Len(stack))
    BY <1>3, <1>6, <1>7, <1>8, ReadyEnd
  <1>12. Len(stack) \in Nat
    BY DEF Ready
  <1> QED BY <1>11, <1>12, StepWeaker

LEMMA ThrowOK ==
    ASSUME NEW b, Ready(b), Throw
    PROVE  Step(Len(stack) + 2)
  <1>1. instr.op = "throw"
    BY DEF Throw, Fetch, Instr, instr
  <1>2. depth >= 1 /\ Catches(top.fn, depth - 1, top.handlers)
    BY <1>1, VerifiedInstr
  <1>3. depth \in Nat /\ 1 <= StackMap[top.fn][top.pc].depth
    BY <1>2 DEF Ready, depth
  <1>4. PICK t : t = Drop(stack, 1)
    OBVIOUS
  <1>5. /\ ~(Len(stack) < 1) /\ t \in Seq(Nat)
        /\ Len(t) - b[Len(control)] = depth - 1
        /\ Agree(stack, t, b[Len(control)])
    BY <1>3, <1>4, ReadyDrop DEF depth
  <1>6. stack # <<>>
    BY <1>5
  <1>7. EndOpcode(TRUE, TRUE, t, next)
    BY <1>4, <1>6 DEF Throw
  <1>8. next \in RunType /\ next.fn = top.fn /\ next.handlers = top.handlers
    BY NextType
  <1>9. Step(Len(t))
    BY <1>2, <1>5, <1>7, <1>8, ReadyEnd
  <1>10. Len(t) = Len(stack) - 1 /\ Len(t) \in Nat /\ Len(stack) \in Nat
    <2>1. Len(t) = Len(stack) - 1
      BY <1>3, <1>4, ReadyDrop
    <2>2. Len(t) \in Nat
      BY <1>5
    <2>3. stack \in Seq(Nat)
      BY DEF Ready
    <2> QED BY <2>1, <2>2, <2>3
  <1> QED BY <1>9, <1>10, StepWeaker

LEMMA LoadArrayOK ==
    ASSUME NEW b, Ready(b), LoadArray
    PROVE  Step(Len(stack) + 2)
  <1>1. instr.op = "loadarray"
    BY DEF LoadArray, Fetch, Instr, instr
  <1>2. /\ depth >= 2 /\ At(top.fn, next.pc, depth - 1, top.handlers)
        /\ Catches(top.fn, depth - 1, top.handlers)
    BY <1>1, VerifiedInstr
  <1>3. depth \in Nat /\ 2 <= StackMap[top.fn][top.pc].depth
    BY <1>2 DEF Ready, depth
  <1>4. PICK t : t = Drop(stack, 2)
    OBVIOUS
  <1>5. /\ ~(Len(stack) < 2) /\ t \in Seq(Nat)
        /\ Len(t) - b[Len(control)] = depth - 2
        /\ Agree(stack, t, b[Len(control)])
    BY <1>3, <1>4, ReadyDrop DEF depth
  <1>6. exception = FALSE /\ stack \in Seq(Nat) /\ b[Len(control)] \in Nat
    BY DEF Ready
  <1>7. PICK out \in Outcomes :
           EndOpcode(out # "fail", exception \/ out = "throw",
                     IF out = "fail" THEN t ELSE Append(t, Value), next)
    BY <1>4, <1>5 DEF LoadArray
  <1>10. Len(t) <= Len(stack) /\ Len(t) \in Nat /\ Len(stack) \in Nat
    <2>1. Len(t) = Len(stack) - 2
      BY <1>3, <1>4, ReadyDrop
    <2>2. Len(t) \in Nat /\ Len(stack) \in Nat
      BY <1>5, <1>6
    <2> QED BY <2>1, <2>2
  <1>8. CASE out = "fail"
    <2>1. EndOpcode(FALSE, FALSE, t, next)
      BY <1>6, <1>7, <1>8
    <2>2. Leave(t, "fail") /\ UNCHANGED <<exception, status>>
      BY <2>1 DEF EndOpcode
    <2>3. Step(Len(t))
      BY <1>5, <2>2, ReadyFail
    <2> QED BY <1>10, <2>3, StepWeaker
  <1>9. CASE out # "fail"
    <2>1. PICK e \in BOOLEAN : e = (out = "throw")
      OBVIOUS
    <2>2. PICK u : u = Append(t, Value)
      OBVIOUS
    <2>3. EndOpcode(TRUE, e, u, next)
      BY <1>6, <1>7, <1>9, <2>1, <2>2
    <2>4. u \in Seq(Nat) /\ Len(u) = Len(t) + 1 /\ Agree(stack, u, b[Len(control)])
      BY <1>5, <1>6, <2>2, PushAgrees
    <2>5. Len(u) - b[Len(control)] = depth - 1
      <3>1. PICK l \in Nat, m \in Nat, d \in Nat : l = Len(t) /\ m = b[Len(control)] /\ d = depth
        BY <1>3, <1>5, <1>6
      <3>2. l - m = d - 2
        BY <1>5, <3>1
      <3>3. (l + 1) - m = d - 1
        BY <3>2
      <3> QED BY <2>4, <3>1, <3>3
    <2>6. next \in RunType /\ next.fn = top.fn /\ next.handlers = top.handlers
      BY NextType
    <2>7. Step(Len(u))
      BY <1>2, <2>3, <2>4, <2>5, <2>6, ReadyEnd
    <2>8. Len(u) <= Len(stack) + 2 /\ Len(u) \in Nat
      BY <1>10, <2>4
    <2> QED BY <1>10, <2>7, <2>8, StepWeaker
  <1> QED BY <1>8, <1>9

(* A run waits for a call at its next instruction, over t and one value more. *)
LEMMA WaitOK ==
    ASSUME NEW b, Ready(b), NEW t \in Seq(Nat), Agree(stack, t, b[Len(control)]),
           At(top.fn, next.pc, Len(t) - b[Len(control)] + 1, top.handlers),
           NEW c, c = Append(Front(control), next)
    PROVE  /\ c \in Seq(Activations) /\ c # <<>> /\ Chain(c)
           /\ Last(c) = next /\ next.kind = "run" /\ RunOK(next)
           /\ Room(next) = Len(t) - b[Len(control)] + 1
           /\ StackMap[next.fn][next.pc].depth = Len(t) - b[Len(control)] + 1
           /\ Room(next) > 0
           /\ Shape(t, c, b) /\ Len(t) = Place(c, b) - 1
  <1>1. /\ next \in RunType /\ next.fn = top.fn /\ next.handlers = top.handlers
    BY NextType
  <1>2. /\ control \in Seq(Activations) /\ control # <<>> /\ Chain(control)
        /\ Last(control).kind = "run" /\ top = Last(control)
        /\ Shape(stack, control, b) /\ stack \in Seq(Nat)
        /\ b[Len(control)] \in Nat \ {0}
    BY DEF Ready, top
  <1>3. next.kind = "run" /\ next \in Activations
    BY <1>1 DEF RunType, Activations
  <1>4. /\ next.pc \in DOMAIN Code[next.fn]
        /\ StackMap[next.fn][next.pc] = [depth |-> Len(t) - b[Len(control)] + 1, nest |-> next.handlers]
    BY <1>1 DEF At
  <1>5. RunOK(next)
    BY <1>1, <1>4 DEF RunOK, RunType
  <1>6. c \in Seq(Activations) /\ c # <<>> /\ Last(c) = next /\ Len(c) = Len(control)
    BY <1>2, <1>3, TopReplaced
  <1>7. Chain(c)
    BY <1>1, <1>2, <1>5, ChainTop
  <1>8. StackMap[next.fn][next.pc].depth = Len(t) - b[Len(control)] + 1
    BY <1>4
  <1>9. Room(next) = Len(t) - b[Len(control)] + 1
    BY <1>3, <1>8 DEF Room
  <1>10. Len(t) \in Nat /\ b[Len(control)] <= Len(t)
    BY <1>2 DEF Agree
  <1>11. Shape(t, c, b)
    <2>1. Agree(stack, t, Mark(control, b))
      BY <1>2 DEF Mark
    <2>2. next.kind = Last(control).kind
      BY <1>2, <1>3
    <2>3. Shape(t, Append(Front(control), next), b)
      BY <1>2, <1>3, <2>1, <2>2, ShapeOn, Zenon
    <2> QED BY <2>3
  <1>12. Place(c, b) = b[Len(control)] + Room(next)
    BY <1>6 DEF Place
  <1>13. Room(next) > 0 /\ Len(t) = Place(c, b) - 1
    BY <1>2, <1>9, <1>10, <1>12
  <1> QED BY <1>3, <1>5, <1>6, <1>7, <1>8, <1>9, <1>11, <1>13

LEMMA StoreArrayOK ==
    ASSUME NEW b, Ready(b), StoreArray
    PROVE  Step(Len(stack) + 2)
  <1>1. instr.op = "storearray"
    BY DEF StoreArray, Fetch, Instr, instr
  <1>2. /\ depth >= 3 /\ At(top.fn, next.pc, depth - 3, top.handlers)
        /\ Catches(top.fn, depth - 3, top.handlers)
    BY <1>1, VerifiedInstr
  <1>3. depth \in Nat /\ 3 <= StackMap[top.fn][top.pc].depth
    BY <1>2 DEF Ready, depth
  <1>4. PICK t : t = Drop(stack, 3)
    OBVIOUS
  <1>5. /\ ~(Len(stack) < 3) /\ t \in Seq(Nat)
        /\ Len(t) - b[Len(control)] = depth - 3
        /\ Agree(stack, t, b[Len(control)])
    BY <1>3, <1>4, ReadyDrop DEF depth
  <1>6. exception = FALSE /\ stack \in Seq(Nat)
    BY DEF Ready
  <1>7. PICK out \in Outcomes : EndOpcode(out # "fail", exception \/ out = "throw", t, next)
    BY <1>4, <1>5 DEF StoreArray
  <1>8. Len(t) <= Len(stack) + 2 /\ Len(t) \in Nat /\ Len(stack) \in Nat
    <2>1. Len(t) = Len(stack) - 3
      BY <1>3, <1>4, ReadyDrop
    <2>2. Len(t) \in Nat /\ Len(stack) \in Nat
      BY <1>5, <1>6
    <2> QED BY <2>1, <2>2
  <1>9. Step(Len(t))
    <2>1. CASE out = "fail"
      <3>1. EndOpcode(FALSE, FALSE, t, next)
        BY <1>6, <1>7, <2>1
      <3>2. Leave(t, "fail") /\ UNCHANGED <<exception, status>>
        BY <3>1 DEF EndOpcode
      <3> QED BY <1>5, <3>2, ReadyFail
    <2>2. CASE out # "fail"
      <3>1. PICK e \in BOOLEAN : e = (out = "throw")
        OBVIOUS
      <3>2. EndOpcode(TRUE, e, t, next)
        BY <1>6, <1>7, <2>2, <3>1
      <3>3. next \in RunType /\ next.fn = top.fn /\ next.handlers = top.handlers
        BY NextType
      <3> QED BY <1>2, <1>5, <3>2, <3>3, ReadyEnd
    <2> QED BY <2>1, <2>2
  <1> QED BY <1>8, <1>9, StepWeaker

LEMMA CallOK ==
    ASSUME Verified, NEW b, Ready(b), Call
    PROVE  Step(Len(stack) + 2)
  <1>1. instr.op = "call"
    BY DEF Call, Fetch, Instr, instr
  <1>2. PICK f \in Callees, k \in Nat, pp \in Nat : f = instr.fn /\ k = instr.argc /\ pp = instr.pops
    BY <1>1, InstrType DEF Ready
  <1>3. /\ depth - pp - k >= 0
        /\ At(top.fn, next.pc, depth - pp - k + 1, top.handlers)
        /\ f \in Throws => Catches(top.fn, depth - pp - k, top.handlers)
    BY <1>1, <1>2, VerifiedInstr
  <1>4. PICK m \in Nat, d \in Nat : m = b[Len(control)] /\ d = depth
    BY DEF Ready, depth
  <1>5. PICK s : s = Drop(stack, pp)
    OBVIOUS
  <1>6. ~(Len(stack) < pp) /\ s \in Seq(Nat) /\ Len(s) - m = d - pp /\ Agree(stack, s, m)
    <2>1. pp <= StackMap[top.fn][top.pc].depth
      BY <1>3, <1>4 DEF depth
    <2> QED BY <1>4, <1>5, <2>1, ReadyDrop DEF depth
  <1>7. PICK l \in Nat : l = Len(s)
    BY <1>6
  <1>8. m + k <= l /\ k <= l /\ (l - k) - m = d - pp - k
    <2>1. l - m = d - pp /\ d - pp - k >= 0
      BY <1>3, <1>4, <1>6, <1>7
    <2> QED BY <2>1
  <1>9. PICK t : t = Drop(s, k)
    OBVIOUS
  <1>10. t \in Seq(Nat) /\ Len(t) = l - k /\ Agree(s, t, m)
    <2>1. \A p \in 1 .. Len(s) : p > m => s[p] = Value
      BY <1>6 DEF Agree
    <2> QED BY <1>6, <1>7, <1>8, <1>9, <2>1, DropAgrees
  <1>11. Agree(stack, t, m) /\ stack \in Seq(Nat)
    <2>1. stack \in Seq(Nat) /\ m <= m
      BY DEF Ready
    <2> QED BY <1>6, <1>10, <2>1, AgreeTrans
  <1>12. Len(t) - b[Len(control)] = depth - pp - k
    BY <1>4, <1>8, <1>10
  <1>13. PICK c : c = Append(Front(control), next)
    OBVIOUS
  <1>14. /\ c \in Seq(Activations) /\ c # <<>> /\ Chain(c) /\ Last(c) = next /\ next.kind = "run"
         /\ StackMap[next.fn][next.pc].depth = Len(t) - b[Len(control)] + 1
         /\ Room(next) > 0 /\ Shape(t, c, b) /\ Len(t) = Place(c, b) - 1
    BY <1>3, <1>4, <1>10, <1>11, <1>12, <1>13, WaitOK
  <1>15. MayCall(Last(c), f)
    <2>1. next.fn = top.fn /\ next.handlers = top.handlers
      BY NextType
    <2>2. PICK q \in Int : q = depth - pp - k
      BY <1>4
    <2>3. StackMap[next.fn][next.pc].depth - 1 = q
      BY <1>12, <1>14, <2>2
    <2> QED BY <1>3, <1>14, <2>1, <2>2, <2>3 DEF MayCall
  <1>16. Execute(f, k, s, c)
    BY <1>2, <1>5, <1>6, <1>13 DEF Call, Operands
  <1>17. status = "running" /\ exception = FALSE
    BY DEF Ready
  <1>18. Step(Len(t) + k + 1)
    BY <1>6, <1>7, <1>8, <1>9, <1>10, <1>14, <1>15, <1>16, <1>17, ExecuteOK
  <1>19. Len(t) + k + 1 <= Len(stack) + 2 /\ Len(t) + k + 1 \in Int /\ Len(stack) \in Nat
    <2>1. Len(stack) \in Nat /\ Len(stack) - m = d
      BY <1>4, <1>11, ReadySame DEF depth
    <2>2. l - m = d - pp
      BY <1>4, <1>6, <1>7
    <2>3. l <= Len(stack)
      BY <2>1, <2>2
    <2>4. Len(t) = l - k
      BY <1>10
    <2> QED BY <2>1, <2>3, <2>4
  <1> QED BY <1>18, <1>19, StepWeaker

(* The result is popped, and the marker below it. *)
LEMMA DropBelow ==
    ASSUME NEW s \in Seq(Nat), NEW k \in Nat, k <= Len(s)
    PROVE  /\ Drop(s, k) \in Seq(Nat)
           /\ Len(Drop(s, k)) = Len(s) - k
           /\ Agree(s, Drop(s, k), Len(s) - k)
  <1>4. PICK l \in Nat : l = Len(s)
    OBVIOUS
  <1>5. l - k \in 0 .. l
    BY <1>4
  <1>1. PICK i \in 0 .. Len(s) : i = Len(s) - k
    BY <1>4, <1>5
  <1>2. /\ SubSeq(s, 1, i) \in Seq(Nat)
        /\ Len(SubSeq(s, 1, i)) = i
        /\ \A p \in 1 .. i : SubSeq(s, 1, i)[p] = s[p]
    BY <1>1
  <1>3. Agree(s, SubSeq(s, 1, i), i)
    BY <1>2 DEF Agree
  <1> QED BY <1>1, <1>2, <1>3 DEF Drop

LEMMA DropOnly ==
    ASSUME NEW s \in Seq(Nat), Len(s) = 1
    PROVE  Drop(s, 1) \in Seq(Nat) /\ Len(Drop(s, 1)) = 0
  <1>1. 1 \in Nat /\ 1 <= Len(s)
    OBVIOUS
  <1>2. Drop(s, 1) \in Seq(Nat) /\ Len(Drop(s, 1)) = Len(s) - 1
    BY <1>1, DropBelow
  <1> QED BY <1>2

(* RETURN finds one value above the marker of its own run. *)
LEMMA OwnFrame ==
    ASSUME NEW b, Ready(b), instr.op = "return"
    PROVE  /\ OwnFrameBelowResult
           /\ Len(stack) = b[Len(control)] + 1
  <1>1. Len(stack) = b[Len(control)] + 1
    BY VerifiedInstr DEF Ready, depth
  <1>2. PICK m \in Nat \ {0} : m = b[Len(control)]
    BY DEF Ready
  <1>3. stack[m] = Len(control)
    BY <1>2, ShapeTop DEF Ready, top
  <1>4. Len(stack) - 1 = m /\ Len(stack) > 1
    BY <1>1, <1>2
  <1> QED BY <1>1, <1>3, <1>4 DEF OwnFrameBelowResult

LEMMA ReturnOK ==
    ASSUME NEW b, Ready(b), Return
    PROVE  Step(Len(stack) + 2)
  <1>1. instr.op = "return"
    BY DEF Return, Fetch, Instr, instr
  <1>2. OwnFrameBelowResult /\ Len(stack) = b[Len(control)] + 1
    BY <1>1, OwnFrame
  <1>3. PICK t, u : t = Drop(stack, 2) /\ u = Append(t, Value)
    OBVIOUS
  <1>4. stack' = u /\ control' = Front(control) /\ ret' = "ok" /\ UNCHANGED <<exception, status>>
    BY <1>2, <1>3 DEF Return, EndRun, Leave
  <1>5. PICK m \in Nat \ {0} : m = b[Len(control)]
    BY DEF Ready
  <1>6. /\ status = "running" /\ exception = FALSE /\ stack \in Seq(Nat)
        /\ control \in Seq(Activations) /\ control # <<>> /\ Chain(control)
        /\ Shape(stack, control, b)
    BY DEF Ready
  <1>7. t \in Seq(Nat) /\ Len(t) = m - 1 /\ Agree(stack, t, m - 1)
    <2>1. 2 <= Len(stack) /\ Len(stack) - 2 = m - 1
      BY <1>2, <1>5
    <2> QED BY <1>3, <1>6, <2>1, DropBelow
  <1>8. u \in Seq(Nat) /\ Len(u) = Len(t) + 1 /\ Agree(stack, u, m - 1)
    BY <1>3, <1>6, <1>7, PushAgrees
  <1>9. Len(u) = b[Len(control)] /\ Agree(stack, u, b[Len(control)] - 1)
    BY <1>5, <1>7, <1>8
  <1>10. Sound(u, Front(control), "ok", FALSE)
    BY <1>6, <1>8, <1>9, LeaveOK
  <1>11. Kept
    BY <1>4, <1>6, <1>10 DEF Kept
  <1>12. Len(u) <= Len(stack) + 2
    BY <1>2, <1>5, <1>7, <1>8
  <1> QED BY <1>4, <1>11, <1>12 DEF Step

(* The entries of newObject's list. *)
LEMMA OwedFits ==
    ASSUME NEW a, NewOK(a), a.todo # <<>>
    PROVE  /\ Head(a.todo).fn \in Callees /\ Head(a.todo).fn \notin Throws
           /\ Head(a.todo).argc \in Nat
           /\ NewOK([a EXCEPT !.todo = Tail(a.todo)])
           /\ Room(a) = Room([a EXCEPT !.todo = Tail(a.todo)]) + Head(a.todo).argc
  <1>1. PICK w : w = a.todo
    OBVIOUS
  <1>2. /\ w \in Seq([fn : Callees, argc : Nat]) /\ w # <<>> /\ a.kind = "new"
        /\ \A k \in DOMAIN w : w[k].fn \notin Throws
        /\ \A k \in DOMAIN w : k < Len(w) => w[k].argc = 0
    BY <1>1 DEF NewOK
  <1>3. Len(w) \in Nat \ {0} /\ Last(w) = w[Len(w)] /\ DOMAIN w = 1 .. Len(w)
    BY <1>2, FrontProperties, LenProperties, Zenon
  <1>4. PICK v : v = Tail(w)
    OBVIOUS
  <1>5. /\ Head(w) = w[1] /\ Head(w) \in [fn : Callees, argc : Nat]
        /\ v \in Seq([fn : Callees, argc : Nat]) /\ Len(v) = Len(w) - 1
        /\ \A k \in 1 .. Len(w) - 1 : v[k] = w[k + 1]
    <2>1. PICK R : R = [fn : Callees, argc : Nat]
      OBVIOUS
    <2>2. w \in Seq(R) /\ w # <<>>
      BY <1>2, <2>1
    <2>3. Head(w) \in R /\ v \in Seq(R) /\ Len(v) = Len(w) - 1
      BY <1>4, <2>2, HeadTailProperties
    <2>4. \A k \in 1 .. Len(v) : v[k] = w[k + 1]
      BY <1>4, <2>2, HeadTailProperties
    <2>5. Head(w) = w[1]
      BY <2>2
    <2> QED BY <2>1, <2>3, <2>4, <2>5
  <1>6. DOMAIN v = 1 .. Len(w) - 1
    BY <1>5
  <1>7. 1 \in DOMAIN w /\ Head(w).fn \notin Throws
    BY <1>2, <1>3, <1>5
  <1>8. PICK a2 : a2 = [a EXCEPT !.todo = v]
    OBVIOUS
  <1>9. a2 \in [kind : {"new"}, todo : Seq([fn : Callees, argc : Nat])] /\ a2.todo = v /\ a2.kind = "new"
    BY <1>5, <1>8 DEF NewOK
  <1>10. ASSUME NEW k \in DOMAIN v PROVE v[k].fn \notin Throws /\ (k < Len(v) => v[k].argc = 0)
    <2>1. k + 1 \in DOMAIN w /\ v[k] = w[k + 1] /\ (k < Len(v) => k + 1 < Len(w))
      BY <1>3, <1>5, <1>6
    <2> QED BY <1>2, <2>1
  <1>11. NewOK(a2)
    BY <1>9, <1>10 DEF NewOK
  <1>12. Room(a) = Last(w).argc
    BY <1>1, <1>2 DEF Room, Owed
  <1>13. Room(a) = Room(a2) + Head(w).argc
    <2>1. CASE Len(w) = 1
      <3>1. v = <<>>
        BY <1>5, <2>1, EmptySeq
      <3>2. Room(a2) = 0
        BY <1>9, <3>1 DEF Room, Owed
      <3> QED BY <1>3, <1>5, <1>12, <2>1, <3>2
    <2>2. CASE Len(w) > 1
      <3>1. v # <<>> /\ Len(v) \in 1 .. Len(w) - 1 /\ Len(v) + 1 = Len(w)
        BY <1>3, <1>5, <2>2
      <3>2. Last(v) = v[Len(v)]
        BY DEF Last
      <3>3. Last(v) = Last(w)
        BY <1>3, <1>5, <3>1, <3>2
      <3>4. Room(a2) = Last(w).argc
        BY <1>9, <3>1, <3>3 DEF Room, Owed
      <3>5. Head(w).argc = 0
        BY <1>2, <1>5, <1>7, <2>2
      <3>6. Last(w).argc \in Nat
        <4>1. Last(w) \in [fn : Callees, argc : Nat]
          BY <1>2, FrontProperties
        <4> QED BY <4>1
      <3> QED BY <1>12, <3>4, <3>5, <3>6
    <2> QED BY <1>3, <2>1, <2>2
  <1> QED BY <1>1, <1>4, <1>5, <1>7, <1>8, <1>11, <1>13

(* What holds while newObject works, with no constructor running. *)
LEMMA BuildingOK ==
    ASSUME MInv, Building
    PROVE  /\ status = "running" /\ exception = FALSE
           /\ stack \in Seq(Nat) /\ control \in Seq(Activations) /\ control # <<>> /\ Chain(control)
           /\ NewOK(top) /\ top = Last(control) /\ top.kind = "new" /\ Room(top) \in Nat
           /\ ret # "fail" =>
                \E b : /\ Shape(stack, control, b) /\ b[Len(control)] \in Nat \ {0}
                       /\ Mark(control, b) = b[Len(control)] - 1
                       /\ \A p \in 1 .. Len(stack) : p > b[Len(control)] - 1 => stack[p] = Value
                       /\ Len(stack) = IF ret = "none" THEN (b[Len(control)] + Room(top)) - 1
                                                       ELSE b[Len(control)] + Room(top)
  <1>1. status = "running" /\ control # <<>> /\ top.kind = "new" /\ top = Last(control)
    BY DEF Building, top
  <1>2. Sound(stack, control, ret, exception)
    BY <1>1 DEF MInv
  <1>3. /\ stack \in Seq(Nat) /\ control \in Seq(Activations) /\ Chain(control)
        /\ ret \in {"none", "ok", "fail"} /\ exception \in BOOLEAN
    BY <1>2 DEF Sound, Typed
  <1>4. NewOK(top) /\ Room(top) \in Nat
    BY <1>1, <1>3, ChainLast, ActivationType
  <1>5. exception = FALSE
    <2>1. exception => ret = "ok" /\ Answered(control, TRUE)
      BY <1>2 DEF Sound
    <2>2. ~Answered(control, TRUE)
      BY <1>1 DEF Answered
    <2> QED BY <1>3, <2>1, <2>2
  <1>6. SUFFICES ASSUME ret # "fail"
        PROVE  \E b : /\ Shape(stack, control, b) /\ b[Len(control)] \in Nat \ {0}
                      /\ Mark(control, b) = b[Len(control)] - 1
                      /\ \A p \in 1 .. Len(stack) : p > b[Len(control)] - 1 => stack[p] = Value
                      /\ Len(stack) = IF ret = "none" THEN (b[Len(control)] + Room(top)) - 1
                                                      ELSE b[Len(control)] + Room(top)
    BY <1>1, <1>3, <1>4, <1>5
  <1>7. PICK b : Shape(stack, control, b) /\ Filled(stack, control, b, ret, FALSE)
    BY <1>2, <1>5, <1>6 DEF Sound
  <1>8. Mark(control, b) = b[Len(control)] - 1
    BY <1>1 DEF Mark
  <1>9. /\ b[Len(control)] \in Nat \ {0}
        /\ \A p \in 1 .. Len(stack) : p > Mark(control, b) => stack[p] = Value
    BY <1>1, <1>3, <1>7, ShapeTop
  <1>10. Place(control, b) = b[Len(control)] + Room(top)
    BY <1>1 DEF Place
  <1>11. Len(stack) = IF ret = "none" THEN (b[Len(control)] + Room(top)) - 1
                                      ELSE b[Len(control)] + Room(top)
    BY <1>1, <1>7, <1>10 DEF Filled
  <1> QED BY <1>7, <1>8, <1>9, <1>11

(* The list newObject starts with: the last constructor takes the arguments. *)
LEMMA ListOK ==
    ASSUME NEW w \in Seq(Callees), ToSet(w) \cap Throws = {}, NEW k \in Nat, w = <<>> => k = 0,
           NEW todo, todo = [i \in DOMAIN w |-> [fn |-> w[i], argc |-> IF i = Len(w) THEN k ELSE 0]],
           NEW a, a = [kind |-> "new", todo |-> todo]
    PROVE  NewOK(a) /\ Room(a) = k
  <1>1. PICK n \in Nat : n = Len(w)
    OBVIOUS
  <1>2. DOMAIN w = 1 .. n /\ \A i \in 1 .. n : w[i] \in Callees
    BY <1>1
  <1>3. PICK R : R = [fn : Callees, argc : Nat]
    OBVIOUS
  <1>4. \A i \in 1 .. n : [fn |-> w[i], argc |-> IF i = n THEN k ELSE 0] \in R
    BY <1>2, <1>3
  <1>5. todo = [i \in 1 .. n |-> [fn |-> w[i], argc |-> IF i = n THEN k ELSE 0]]
    BY <1>1, <1>2
  <1>6. DOMAIN todo = 1 .. n /\ \A i \in 1 .. n : todo[i] \in R
    BY <1>4, <1>5
  <1>7. todo \in [1 .. n -> R]
    BY <1>4, <1>5
  <1>8. todo \in Seq(R) /\ Len(todo) = n
    BY <1>7
  <1>9. ASSUME NEW i \in 1 .. n PROVE todo[i].fn = w[i] /\ todo[i].argc = IF i = n THEN k ELSE 0
    BY <1>5
  <1>10. a.kind = "new" /\ a.todo = todo
    OBVIOUS
  <1>11. a \in [kind : {"new"}, todo : Seq(R)]
    BY <1>8
  <1>12. ASSUME NEW i \in 1 .. n PROVE w[i] \notin Throws
    <2>1. w[i] \in ToSet(w)
      BY <1>2 DEF ToSet
    <2> QED BY <2>1
  <1>13. \A i \in DOMAIN todo : todo[i].fn \notin Throws
    BY <1>6, <1>9, <1>12
  <1>14. \A i \in DOMAIN todo : i < Len(todo) => todo[i].argc = 0
    BY <1>6, <1>8, <1>9
  <1>15. NewOK(a)
    BY <1>3, <1>10, <1>11, <1>13, <1>14 DEF NewOK
  <1>16. Room(a) = Owed(todo)
    BY <1>10 DEF Room
  <1>17. CASE n = 0
    <2>1. todo = <<>> /\ k = 0
      BY <1>1, <1>8, <1>17, EmptySeq
    <2> QED BY <1>15, <1>16, <2>1 DEF Owed
  <1>18. CASE n > 0
    <2>1. todo # <<>> /\ n \in 1 .. n
      BY <1>8, <1>18
    <2>2. Last(todo) = todo[n]
      BY <1>8 DEF Last
    <2>3. Last(todo).argc = k
      BY <1>9, <2>1, <2>2
    <2> QED BY <1>15, <1>16, <2>1, <2>3 DEF Owed
  <1> QED BY <1>17, <1>18

LEMMA NewStepOK ==
    ASSUME NEW b, Ready(b), New, ret = "none"
    PROVE  Kept /\ stack' = stack
  <1>1. instr.op = "new"
    BY DEF New, Fetch, Instr, instr
  <1>2. PICK k \in Nat : k = instr.argc
    BY <1>1, InstrType DEF Ready
  <1>3. PICK w : w = Ctors[instr.class]
    OBVIOUS
  <1>4. w \in Seq(Callees)
    BY <1>1, <1>3, InstrType, MachineAssumption DEF Ready
  <1>5. /\ depth >= k /\ At(top.fn, next.pc, depth - k + 1, top.handlers)
        /\ ToSet(w) \cap Throws = {} /\ (instr.class \notin OwnCtor => k = 0)
    BY <1>1, <1>2, <1>3, VerifiedInstr
  <1>30. w = <<>> => k = 0
    BY <1>3, <1>5, MachineAssumption
  <1>31. \A i \in DOMAIN w :
            (IF i = Len(w) /\ instr.class \in OwnCtor THEN k ELSE 0) = IF i = Len(w) THEN k ELSE 0
    BY <1>5
  <1>6. PICK m \in Nat \ {0}, d \in Nat : m = b[Len(control)] /\ d = depth
    BY DEF Ready, depth
  <1>7. PICK t : t = Drop(stack, k)
    OBVIOUS
  <1>8. t \in Seq(Nat) /\ Len(t) - m = d - k /\ Agree(stack, t, m)
    <2>1. k <= StackMap[top.fn][top.pc].depth
      BY <1>5, <1>6 DEF depth
    <2> QED BY <1>6, <1>7, <2>1, ReadyDrop DEF depth
  <1>9. PICK c : c = Append(Front(control), next)
    OBVIOUS
  <1>10. /\ c \in Seq(Activations) /\ c # <<>> /\ Chain(c) /\ Last(c) = next /\ next.kind = "run"
         /\ RunOK(next) /\ Room(next) = d - k + 1 /\ Room(next) > 0
    BY <1>5, <1>6, <1>8, <1>9, WaitOK
  <1>11. PICK todo : todo = [i \in DOMAIN w |->
                               [fn |-> w[i], argc |-> IF i = Len(w) THEN k ELSE 0]]
    OBVIOUS
  <1>12. PICK a : a = [kind |-> "new", todo |-> todo]
    OBVIOUS
  <1>13. /\ control' = Append(c, a) /\ stack' = stack /\ ret' = "none"
         /\ exception' = exception /\ status' = status
    <2>1. todo = [i \in DOMAIN w |->
                    [fn |-> w[i],
                     argc |-> IF i = Len(w) /\ instr.class \in OwnCtor THEN k ELSE 0]]
      BY <1>11, <1>31
    <2> QED BY <1>2, <1>3, <1>9, <1>12, <2>1 DEF New
  <1>16. NewOK(a) /\ Room(a) = k
    BY <1>4, <1>5, <1>11, <1>12, <1>30, ListOK
  <1>17. a \in Activations /\ a.kind = "new"
    BY <1>16, ActivationType
  <1>18. /\ status = "running" /\ exception = FALSE /\ stack \in Seq(Nat)
         /\ control \in Seq(Activations) /\ control # <<>> /\ top = Last(control)
         /\ top.kind = "run" /\ Shape(stack, control, b)
    BY DEF Ready, top
  <1>19. Shape(stack, c, b)
    <2>1. Agree(stack, stack, Mark(control, b))
      BY <1>18, ReadySame DEF Mark
    <2>2. next \in Activations /\ next.kind = Last(control).kind
      BY <1>10, <1>18, ActivationType
    <2> QED BY <1>9, <1>18, <2>1, <2>2, ShapeOn
  <1>20. PICK g : g = Append(c, a)
    OBVIOUS
  <1>21. g \in Seq(Activations) /\ g # <<>> /\ Len(g) = Len(c) + 1 /\ Last(g) = a
    BY <1>10, <1>17, <1>20, TopAdded
  <1>22. Chain(g)
    BY <1>10, <1>16, <1>20, ChainPush
  <1>23. PICK e : Shape(stack, g, e) /\ e[Len(c) + 1] = Place(c, b)
    <2>1. IF a.kind = "run" THEN stack = Append(stack, Len(c) + 1) /\ Len(stack) = Place(c, b) - 1
                            ELSE stack = stack
      BY <1>17
    <2>2. c # <<>> /\ Last(c).kind = "run" => Room(Last(c)) > 0
      BY <1>10
    <2>3. \E e : Shape(stack, Append(c, a), e) /\ e[Len(c) + 1] = Place(c, b)
      BY <1>10, <1>17, <1>18, <1>19, <2>1, <2>2, ShapePush
    <2> QED BY <1>20, <2>3
  <1>24. Place(c, b) = m + (d - k + 1)
    <2>1. Len(c) = Len(control)
      BY <1>9, <1>10, <1>18, TopReplaced, ActivationType
    <2> QED BY <1>6, <1>10, <2>1 DEF Place
  <1>25. Place(g, e) = (m + (d - k + 1)) + k
    BY <1>16, <1>21, <1>23, <1>24 DEF Place
  <1>26. Len(stack) = m + d
    BY <1>6 DEF Ready, depth
  <1>27. Len(stack) = Place(g, e) - 1
    <2>1. m + d = ((m + (d - k + 1)) + k) - 1
      OBVIOUS
    <2> QED BY <1>25, <1>26, <2>1
  <1>28. Filled(stack, g, e, "none", FALSE)
    BY <1>17, <1>21, <1>27 DEF Filled
  <1>29. Sound(stack, g, "none", FALSE)
    BY <1>18, <1>21, <1>22, <1>23, <1>28 DEF Sound, Typed
  <1> QED BY <1>13, <1>18, <1>20, <1>29 DEF Kept

LEMMA ConstructOK ==
    ASSUME Verified, MInv, Construct
    PROVE  Step(Len(stack) + 1)
  <1>1. Building /\ ret = "none" /\ top.todo # <<>>
    BY DEF Construct
  <1>2. /\ status = "running" /\ exception = FALSE
        /\ stack \in Seq(Nat) /\ control \in Seq(Activations) /\ control # <<>> /\ Chain(control)
        /\ NewOK(top) /\ top = Last(control) /\ top.kind = "new" /\ Room(top) \in Nat
    BY <1>1, BuildingOK
  <1>3. PICK b : /\ Shape(stack, control, b) /\ b[Len(control)] \in Nat \ {0}
                 /\ Mark(control, b) = b[Len(control)] - 1
                 /\ \A p \in 1 .. Len(stack) : p > b[Len(control)] - 1 => stack[p] = Value
                 /\ Len(stack) = (b[Len(control)] + Room(top)) - 1
    BY <1>1, BuildingOK
  <1>4. PICK m \in Nat : m = b[Len(control)] - 1
    BY <1>3
  <1>5. PICK f \in Callees, k \in Nat : f = Head(top.todo).fn /\ k = Head(top.todo).argc
    BY <1>1, <1>2, OwedFits
  <1>6. PICK a : a = [top EXCEPT !.todo = Tail(top.todo)]
    OBVIOUS
  <1>7. NewOK(a) /\ f \notin Throws /\ Room(top) = Room(a) + k
    BY <1>1, <1>2, <1>5, <1>6, OwedFits
  <1>8. a \in Activations /\ a.kind = "new" /\ Room(a) \in Nat
    BY <1>7, ActivationType
  <1>9. Len(stack) = m + (Room(a) + k) /\ b[Len(control)] = m + 1
    BY <1>3, <1>4, <1>7, <1>8
  <1>10. PICK t : t = Drop(stack, k)
    OBVIOUS
  <1>11. t \in Seq(Nat) /\ Len(t) = Len(stack) - k /\ Agree(stack, t, m)
    <2>1. m + k <= Len(stack)
      BY <1>8, <1>9
    <2>2. \A p \in 1 .. Len(stack) : p > m => stack[p] = Value
      BY <1>3, <1>4
    <2> QED BY <1>2, <1>10, <2>1, <2>2, DropAgrees
  <1>12. PICK c : c = Append(Front(control), a)
    OBVIOUS
  <1>13. c \in Seq(Activations) /\ c # <<>> /\ Len(c) = Len(control) /\ Last(c) = a
    BY <1>2, <1>8, <1>12, TopReplaced
  <1>14. Chain(c)
    BY <1>2, <1>7, <1>12, ChainTop
  <1>15. Shape(t, c, b)
    BY <1>2, <1>3, <1>4, <1>8, <1>11, <1>12, ShapeOn
  <1>16. Place(c, b) = (m + 1) + Room(a)
    BY <1>9, <1>13 DEF Place
  <1>17. Len(t) = Place(c, b) - 1 /\ k <= Len(stack)
    BY <1>8, <1>9, <1>11, <1>16
  <1>18. MayCall(Last(c), f)
    BY <1>7, <1>8, <1>13 DEF MayCall
  <1>19. Last(c).kind # "run"
    BY <1>8, <1>13
  <1>20. Execute(f, k, stack, c)
    BY <1>5, <1>6, <1>12 DEF Construct
  <1>21. Step(Len(t) + k + 1)
    BY <1>2, <1>10, <1>11, <1>13, <1>14, <1>15, <1>17, <1>18, <1>19, <1>20, ExecuteOK
  <1>22. Len(t) + k + 1 = Len(stack) + 1
    <2>1. Len(stack) \in Nat
      BY <1>2
    <2> QED BY <1>11, <2>1
  <1> QED BY <1>21, <1>22

LEMMA ConstructedOK ==
    ASSUME MInv, Constructed
    PROVE  Kept /\ Len(stack') = IF ret' = "none" THEN Len(stack) - 1 ELSE Len(stack)
  <1>1. Building /\ ret # "none"
    BY DEF Constructed
  <1>2. /\ status = "running" /\ exception = FALSE
        /\ stack \in Seq(Nat) /\ control \in Seq(Activations) /\ control # <<>> /\ Chain(control)
        /\ NewOK(top) /\ top = Last(control) /\ top.kind = "new" /\ Room(top) \in Nat
    BY <1>1, BuildingOK
  <1>3. CASE ret = "fail"
    <2>1. stack' = stack /\ control' = Front(control) /\ ret' = "fail" /\ UNCHANGED <<exception, status>>
      BY <1>3 DEF Constructed, Leave
    <2>2. Sound(stack, Front(control), "fail", FALSE)
      BY <1>2, LeaveFailing
    <2> QED BY <1>2, <2>1, <2>2 DEF Kept
  <1>4. CASE ret # "fail"
    <2>1. ret = "ok"
      BY <1>1, <1>4 DEF MInv, Typed
    <2>2. PICK b : /\ Shape(stack, control, b) /\ b[Len(control)] \in Nat \ {0}
                   /\ Mark(control, b) = b[Len(control)] - 1
                   /\ \A p \in 1 .. Len(stack) : p > b[Len(control)] - 1 => stack[p] = Value
                   /\ Len(stack) = b[Len(control)] + Room(top)
      BY <1>1, <2>1, BuildingOK
    <2>3. PICK m \in Nat : m = b[Len(control)] - 1
      BY <2>2
    <2>4. Len(stack) = (m + 1) + Room(top) /\ b[Len(control)] = m + 1
      BY <2>2, <2>3
    <2>5. stack # <<>>
      BY <1>2, <2>4
    <2>6. PICK t : t = Drop(stack, 1)
      OBVIOUS
    <2>7. /\ stack' = t /\ control' = Append(Front(control), top) /\ ret' = "none"
          /\ UNCHANGED <<exception, status>>
      BY <2>1, <2>5, <2>6 DEF Constructed, Continue
    <2>8. t \in Seq(Nat) /\ Len(t) = Len(stack) - 1 /\ Agree(stack, t, m)
      <3>1. m + 1 <= Len(stack)
        BY <1>2, <2>4
      <3>2. \A p \in 1 .. Len(stack) : p > m => stack[p] = Value
        BY <2>2, <2>3
      <3> QED BY <1>2, <2>6, <3>1, <3>2, DropAgrees
    <2>9. Len(t) = (b[Len(control)] + Room(top)) - 1
      BY <2>2, <2>8
    <2>10. top \in Activations
      BY <1>2, ActivationType
    <2>11. Filled(t, Append(Front(control), top), b, "none", FALSE)
      BY <1>2, <2>9, <2>10, FilledOn
    <2>12. Sound(t, Append(Front(control), top), "none", FALSE)
      BY <1>2, <2>2, <2>3, <2>8, <2>11, ContinueOK
    <2> QED BY <1>2, <2>7, <2>8, <2>12 DEF Kept
  <1> QED BY <1>3, <1>4

LEMMA PushNewOK ==
    ASSUME MInv, PushNew
    PROVE  Step(Len(stack) + 1)
  <1>1. Building /\ ret = "none" /\ top.todo = <<>>
    BY DEF PushNew
  <1>2. /\ status = "running" /\ exception = FALSE
        /\ stack \in Seq(Nat) /\ control \in Seq(Activations) /\ control # <<>> /\ Chain(control)
        /\ top.kind = "new"
    BY <1>1, BuildingOK
  <1>3. PICK b : /\ Shape(stack, control, b) /\ b[Len(control)] \in Nat \ {0}
                 /\ \A p \in 1 .. Len(stack) : p > b[Len(control)] - 1 => stack[p] = Value
                 /\ Len(stack) = (b[Len(control)] + Room(top)) - 1
    BY <1>1, BuildingOK
  <1>4. Room(top) = 0
    BY <1>1, <1>2 DEF Room, Owed
  <1>5. PICK m \in Nat : m = b[Len(control)] - 1
    BY <1>3
  <1>6. Len(stack) = m /\ b[Len(control)] = m + 1
    BY <1>3, <1>4, <1>5
  <1>7. Agree(stack, stack, m)
    BY <1>2, <1>3, <1>5, <1>6 DEF Agree
  <1>8. PICK u : u = Append(stack, Value)
    OBVIOUS
  <1>9. u \in Seq(Nat) /\ Len(u) = Len(stack) + 1 /\ Agree(stack, u, m)
    BY <1>2, <1>7, <1>8, PushAgrees
  <1>10. Sound(u, Front(control), "ok", FALSE)
    BY <1>2, <1>3, <1>5, <1>6, <1>9, LeaveOK
  <1>11. stack' = u /\ control' = Front(control) /\ ret' = "ok" /\ UNCHANGED <<exception, status>>
    BY <1>8 DEF PushNew, Leave
  <1>12. Kept
    BY <1>2, <1>10, <1>11 DEF Kept
  <1> QED BY <1>6, <1>9, <1>11, <1>12 DEF Step

(* A call has returned to the run that made it. *)
LEMMA ReturnedOK ==
    ASSUME MInv, Returned
    PROVE  Step(Len(stack))
  <1>1. /\ status = "running" /\ control # <<>> /\ top.kind = "run" /\ top = Last(control)
        /\ ret # "none" /\ EndOpcode(ret = "ok", exception, stack, top)
    BY DEF Returned, Running, top
  <1>2. Sound(stack, control, ret, exception)
    BY <1>1 DEF MInv
  <1>3. /\ stack \in Seq(Nat) /\ control \in Seq(Activations) /\ Chain(control)
        /\ ret \in {"ok", "fail"} /\ exception \in BOOLEAN
    BY <1>1, <1>2 DEF Sound, Typed
  <1>4. CASE ret = "fail"
    <2>1. exception = FALSE
      BY <1>2, <1>3, <1>4 DEF Sound
    <2>2. Leave(stack, "fail") /\ UNCHANGED <<exception, status>>
      BY <1>1, <1>4, <2>1 DEF EndOpcode
    <2>3. Sound(stack, Front(control), "fail", FALSE)
      BY <1>1, <1>3, LeaveFailing
    <2>4. Kept /\ stack' = stack /\ ret' = "fail"
      BY <1>1, <2>1, <2>2, <2>3 DEF Leave, Kept
    <2> QED BY <1>3, <2>4 DEF Step
  <1>5. CASE ret = "ok"
    <2>1. PICK b : Shape(stack, control, b) /\ Filled(stack, control, b, "ok", exception)
      BY <1>2, <1>5 DEF Sound
    <2>2. Answered(control, exception)
      BY <1>2, <1>5 DEF Sound
    <2>3. RunOK(top) /\ Room(top) \in Nat
      BY <1>1, <1>3, ChainLast, ActivationType
    <2>4. PICK m \in Nat \ {0} : m = b[Len(control)]
      BY <1>1, <1>3, <2>1, ShapeTop
    <2>5. m \in 1 .. Len(stack) /\ \A p \in 1 .. Len(stack) : p > m => stack[p] = Value
      BY <1>1, <1>3, <2>1, <2>4, ShapeTop DEF Mark
    <2>6. Agree(stack, stack, m)
      BY <1>3, <2>5 DEF Agree
    <2>7. Place(control, b) = m + Room(top)
      BY <1>1, <2>4 DEF Place
    <2>8. Len(stack) = IF exception THEN (m + Room(top)) - 1 ELSE m + Room(top)
      BY <2>1, <2>7 DEF Filled
    <2>9. top \in [kind : {"run"}, fn : Scripts, pc : Nat, handlers : Seq(Nat)]
      BY <2>3 DEF RunOK
    <2>10. exception => Catches(top.fn, Len(stack) - b[Len(control)], top.handlers)
      <3>1. exception => Len(stack) - m = Room(top) - 1
        BY <2>3, <2>8
      <3> QED BY <1>1, <2>2, <2>4, <3>1 DEF Answered
    <2>11. ~exception => At(top.fn, top.pc, Len(stack) - b[Len(control)], top.handlers)
      <3>1. ~exception => Len(stack) - m = Room(top)
        BY <2>3, <2>8
      <3>2. At(top.fn, top.pc, Room(top), top.handlers)
        <4>1. StackMap[top.fn][top.pc] \in [depth : Nat, nest : Seq(Nat)]
          BY <2>3, MachineAssumption DEF RunOK
        <4>2. Room(top) = StackMap[top.fn][top.pc].depth
          BY <1>1 DEF Room
        <4> QED BY <2>3, <4>1, <4>2 DEF RunOK, At
      <3> QED BY <2>4, <3>1, <3>2
    <2>12. EndOpcode(TRUE, exception, stack, top)
      BY <1>1, <1>5
    <2>13. Agree(stack, stack, b[Len(control)])
      BY <2>4, <2>6
    <2>14. /\ control # <<>> /\ Last(control).kind = "run" /\ top.fn = Last(control).fn
           /\ ~exception => ~exception /\ At(top.fn, top.pc, Len(stack) - b[Len(control)], top.handlers)
      BY <1>1, <2>11
    <2>15. Shape(stack, control, b)
      BY <2>1
    <2> HIDE DEF top
    <2> QED BY <1>1, <1>3, <2>9, <2>10, <2>12, <2>13, <2>14, <2>15, EndOpcodeOK
  <1> QED BY <1>3, <1>4, <1>5

(* main is called with one argument on the stack. *)
LEMMA StartOK ==
    ASSUME Verified, MInv, Start
    PROVE  Step(2)
  <1>1. status = "running" /\ control = <<>> /\ ret = "none" /\ Execute(Main, 1, stack, control)
    BY DEF Start
  <1>2. Sound(stack, control, "none", exception)
    BY <1>1 DEF MInv
  <1>3. stack \in Seq(Nat) /\ control \in Seq(Activations) /\ Chain(control) /\ exception = FALSE
    BY <1>2 DEF Sound, Typed
  <1>4. PICK b : Shape(stack, control, b) /\ Filled(stack, control, b, "none", FALSE)
    BY <1>2, <1>3 DEF Sound
  <1>5. Place(control, b) = 1 /\ Len(stack) = 1
    BY <1>1, <1>4 DEF Filled, Place
  <1>6. PICK t : t = Drop(stack, 1)
    OBVIOUS
  <1>7. t \in Seq(Nat) /\ Len(t) = 0
    BY <1>3, <1>5, <1>6, DropOnly
  <1>8. Shape(t, control, b)
    <2>1. Len(control) = 0
      BY <1>1
    <2> QED BY <1>4, <1>7, <2>1 DEF Shape
  <1>9. Main \in Callees
    BY MachineAssumption
  <1>10. Len(t) = Place(control, b) - 1 /\ 1 <= Len(stack)
    BY <1>5, <1>7
  <1>11. Step(Len(t) + 1 + 1)
    BY <1>1, <1>3, <1>6, <1>7, <1>8, <1>9, <1>10, ExecuteOK
  <1>12. Len(t) + 1 + 1 = 2
    BY <1>7
  <1> QED BY <1>11, <1>12

(* Function::execute reports how main ended. *)
LEMMA FinishOK ==
    ASSUME MInv, Finish
    PROVE  MInv' /\ Len(stack') <= Len(stack) /\ control' = <<>>
  <1>1. status = "running" /\ control = <<>> /\ ret # "none"
    BY DEF Finish
  <1>2. Sound(stack, control, ret, exception)
    BY <1>1 DEF MInv
  <1>3. /\ stack \in Seq(Nat) /\ control \in Seq(Activations) /\ Chain(control)
        /\ ret \in {"ok", "fail"} /\ exception \in BOOLEAN
    BY <1>1, <1>2 DEF Sound, Typed
  <1>4. control' = control /\ ret' = ret /\ exception' = exception
    BY DEF Finish
  <1>5. CASE ret = "fail"
    <2>1. status' = "failed" /\ stack' = stack
      BY <1>5 DEF Finish
    <2> QED BY <1>1, <1>3, <1>4, <2>1 DEF MInv, Typed, CleanEnd
  <1>6. CASE ret = "ok"
    <2>1. PICK b : Shape(stack, control, b) /\ Filled(stack, control, b, "ok", exception)
      BY <1>2, <1>6 DEF Sound
    <2>2. Place(control, b) = 1
      BY <1>1 DEF Place
    <2>3. CASE exception
      <3>1. Len(stack) = 0
        BY <2>1, <2>2, <2>3 DEF Filled
      <3>2. status' = "uncaught" /\ stack' = stack
        BY <1>6, <2>3 DEF Finish
      <3>3. stack = <<>>
        BY <1>3, <3>1, EmptySeq
      <3> QED BY <1>1, <1>3, <1>4, <3>2, <3>3 DEF MInv, Typed, CleanEnd
    <2>4. CASE ~exception
      <3>1. Len(stack) = 1
        BY <1>1, <2>1, <2>2, <2>4 DEF Filled
      <3>2. status' = "done" /\ stack' = Drop(stack, 1)
        BY <1>6, <2>4 DEF Finish
      <3>3. stack' \in Seq(Nat) /\ Len(stack') = 0
        BY <1>3, <3>1, <3>2, DropOnly
      <3>4. stack' = <<>>
        BY <3>3, EmptySeq
      <3> QED BY <1>1, <1>3, <1>4, <3>1, <3>2, <3>3, <3>4 DEF MInv, Typed, CleanEnd
    <2> QED BY <1>3, <2>3, <2>4
  <1> QED BY <1>3, <1>5, <1>6

-----------------------------------------------------------------------------
(***************************************************************************)
(* The invariant is inductive                                              *)
(***************************************************************************)
LEMMA InitMInv ==
    ASSUME Init
    PROVE  MInv
  <1>1. /\ stack = <<0>> /\ control = <<>> /\ ret = "none"
        /\ exception = FALSE /\ status = "running"
    BY DEF Init, Value
  <1>2. stack \in Seq(Nat) /\ Len(stack) = 1 /\ stack[1] = 0
    BY <1>1
  <1>3. control \in Seq(Activations) /\ Len(control) = 0 /\ DOMAIN control = {}
    BY <1>1
  <1>4. Chain(control)
    BY <1>3 DEF Chain
  <1>5. PICK b : b \in [1 .. 0 -> Nat]
    <2>1. [i \in 1 .. 0 |-> 0] \in [1 .. 0 -> Nat]
      OBVIOUS
    <2> QED BY <2>1
  <1>6. Shape(stack, control, b)
    BY <1>2, <1>3, <1>5 DEF Shape, Value
  <1>7. Filled(stack, control, b, "none", FALSE)
    BY <1>1, <1>2 DEF Filled, Place
  <1>8. Sound(stack, control, "none", FALSE)
    BY <1>2, <1>3, <1>4, <1>6, <1>7 DEF Sound, Typed
  <1> QED BY <1>1, <1>8 DEF MInv, Sound, CleanEnd

LEMMA KeptMInv ==
    ASSUME Kept
    PROVE  MInv'
  BY DEF Kept, MInv, Sound, CleanEnd

LEMMA OpcodeStep ==
    ASSUME Verified, MInv, Data \/ Branch \/ Jump \/ PushTry \/ PopTry \/ Throw \/ LoadArray
               \/ StoreArray \/ Call \/ Return
    PROVE  Step(Len(stack) + 2)
  <1>1. Running /\ ret = "none"
    BY DEF Data, Branch, Jump, PushTry, PopTry, Throw, LoadArray, StoreArray, Call, Return, Fetch, Instr
  <1>2. PICK b : Ready(b)
    BY <1>1, ReadyOK
  <1> QED BY <1>2, DataOK, BranchOK, PushTryOK, PopTryOK, ThrowOK, LoadArrayOK, StoreArrayOK, CallOK,
          ReturnOK

LEMMA NewStep ==
    ASSUME Verified, MInv, New
    PROVE  Kept /\ stack' = stack
  <1>1. Running /\ ret = "none"
    BY DEF New, Fetch, Instr
  <1>2. PICK b : Ready(b)
    BY <1>1, ReadyOK
  <1> QED BY <1>1, <1>2, NewStepOK

LEMMA StackFullStep ==
    ASSUME Verified, MInv, StackFull
    PROVE  Step(Len(stack))
  <1>1. Running /\ ret = "none" /\ Leave(stack, "fail") /\ UNCHANGED <<exception, status>>
    BY DEF StackFull
  <1>2. PICK b : Ready(b)
    BY <1>1, ReadyOK
  <1>3. stack \in Seq(Nat)
    BY <1>2 DEF Ready
  <1> QED BY <1>1, <1>2, <1>3, ReadyFail

(* Every step of a verified program keeps the two stacks in agreement. *)
LEMMA MInvStep ==
    ASSUME Verified, MInv, [Next]_vars
    PROVE  MInv'
  <1>1. CASE Start
    BY <1>1, StartOK, KeptMInv DEF Step
  <1>2. CASE StackFull
    BY <1>2, StackFullStep, KeptMInv DEF Step
  <1>3. CASE New
    BY <1>3, NewStep, KeptMInv
  <1>4. CASE Opcode /\ ~New
    BY <1>4, OpcodeStep, KeptMInv DEF Opcode, Step
  <1>5. CASE Returned
    BY <1>5, ReturnedOK, KeptMInv DEF Step
  <1>6. CASE Construct
    BY <1>6, ConstructOK, KeptMInv DEF Step
  <1>7. CASE Constructed
    BY <1>7, ConstructedOK, KeptMInv
  <1>8. CASE PushNew
    BY <1>8, PushNewOK, KeptMInv DEF Step
  <1>9. CASE Finish
    BY <1>9, FinishOK
  <1>10. CASE UNCHANGED vars
    BY <1>10 DEF vars, MInv, CleanEnd
  <1>11. CASE Ended
    BY <1>10, <1>11 DEF Ended
  <1> QED BY <1>1, <1>2, <1>3, <1>4, <1>5, <1>6, <1>7, <1>8, <1>9, <1>10, <1>11 DEF Next, Answer

LEMMA InitBounded ==
    ASSUME Init
    PROVE  Bounded
  <1>1. Len(stack) = 1 /\ control = <<>>
    BY DEF Init
  <1>2. StackSize \in Nat /\ StackSize - 4 >= 1
    BY MachineAssumption DEF Margin
  <1> QED BY <1>1, <1>2 DEF Bounded, Building, Margin

(* The test before each opcode keeps the value stack off the end of its array. *)
LEMMA BoundedStep ==
    ASSUME Verified, MInv, Bounded, [Next]_vars
    PROVE  Bounded'
  <1>1. PICK k \in Nat \ {0} : k = StackSize - Margin
    BY MachineAssumption DEF Margin
  <1>2. PICK n \in Nat : n = Len(stack)
    BY DEF MInv, Typed
  <1>3. n <= k + 1 /\ (Building /\ ret = "none" => n <= k)
    BY <1>1, <1>2 DEF Bounded
  <1>4. ASSUME NEW i \in Int, i <= k + 1, Step(i) PROVE Bounded'
    <2>1. Step(k + 1)
      BY <1>4, StepWeaker
    <2> QED BY <1>1, <2>1 DEF Step, Bounded
  <1>5. CASE Start
    <2>1. Step(2)
      BY <1>5, StartOK
    <2> QED BY <1>4, <2>1
  <1>6. CASE StackFull
    <2>1. Step(n)
      BY <1>2, <1>6, StackFullStep
    <2> QED BY <1>3, <1>4, <2>1
  <1>7. CASE New
    <2>1. n < k
      BY <1>1, <1>2, <1>7, MachineAssumption DEF New, Fetch, CheckStack, Margin
    <2>2. stack' = stack
      BY <1>7, NewStep
    <2> QED BY <1>1, <1>2, <2>1, <2>2 DEF Bounded
  <1>8. CASE Opcode /\ ~New
    <2>1. Step(n + 2)
      BY <1>2, <1>8, OpcodeStep DEF Opcode
    <2>2. CheckStack(stack)
      BY <1>8 DEF Opcode, Data, Branch, Jump, PushTry, PopTry, Throw, LoadArray, StoreArray, Call, Return,
                    Fetch
    <2>3. n < k
      BY <1>1, <1>2, <2>2, MachineAssumption DEF CheckStack, Margin
    <2> QED BY <1>4, <2>1, <2>3
  <1>9. CASE Returned
    <2>1. Step(n)
      BY <1>2, <1>9, ReturnedOK
    <2> QED BY <1>3, <1>4, <2>1
  <1>10. CASE Construct
    <2>1. Step(n + 1)
      BY <1>2, <1>10, ConstructOK
    <2>2. n <= k
      BY <1>3, <1>10 DEF Construct
    <2> QED BY <1>4, <2>1, <2>2
  <1>11. CASE Constructed
    <2>1. Len(stack') = IF ret' = "none" THEN n - 1 ELSE n
      BY <1>2, <1>11, ConstructedOK
    <2> QED BY <1>1, <1>3, <2>1 DEF Bounded
  <1>12. CASE PushNew
    <2>1. Step(n + 1)
      BY <1>2, <1>12, PushNewOK
    <2>2. n <= k
      BY <1>3, <1>12 DEF PushNew
    <2> QED BY <1>4, <2>1, <2>2
  <1>13. CASE Finish
    <2>1. Len(stack') <= n /\ control' = <<>> /\ MInv'
      BY <1>2, <1>13, FinishOK
    <2>2. Len(stack') \in Nat
      BY <2>1 DEF MInv, Typed
    <2> QED BY <1>1, <1>3, <2>1, <2>2 DEF Bounded, Building
  <1>14. CASE UNCHANGED vars
    BY <1>14 DEF vars, Bounded, Building, top
  <1>15. CASE Ended
    BY <1>14, <1>15 DEF Ended
  <1> QED BY <1>5, <1>6, <1>7, <1>8, <1>9, <1>10, <1>11, <1>12, <1>13, <1>14, <1>15
          DEF Next, Answer

LEMMA Invariant ==
    ASSUME Verified
    PROVE  Spec => [](MInv /\ Bounded)
  <1>1. Init => MInv /\ Bounded
    BY InitMInv, InitBounded
  <1>2. MInv /\ Bounded /\ [Next]_vars => (MInv /\ Bounded)'
    BY MInvStep, BoundedStep
  <1> QED BY <1>1, <1>2, PTL DEF Spec

-----------------------------------------------------------------------------
(***************************************************************************)
(* Theorems                                                                *)
(***************************************************************************)
(* Every state of a verified program has its type: the pc of every activation
   stays in its function's code, whatever branches and handlers it took. *)
THEOREM TypeTheorem ==
    ASSUME Verified
    PROVE  Spec => []TypeOK
  <1>1. MInv => TypeOK
    <2>1. SUFFICES ASSUME MInv PROVE TypeOK
      OBVIOUS
    <2>2. /\ stack \in Seq(Nat) /\ control \in Seq(Activations) /\ Chain(control)
          /\ ret \in {"none", "ok", "fail"} /\ exception \in BOOLEAN
          /\ status \in {"running", "done", "failed", "uncaught"}
      BY <2>1 DEF MInv, Typed
    <2>3. ASSUME NEW i \in DOMAIN control, control[i].kind = "run"
          PROVE  control[i].pc \in DOMAIN Code[control[i].fn]
      <3>1. RunOK(control[i]) \/ NewOK(control[i])
        BY <2>2 DEF Chain
      <3>2. RunOK(control[i])
        BY <2>3, <3>1, ActivationType
      <3> QED BY <3>2 DEF RunOK
    <2> QED BY <2>2, <2>3 DEF TypeOK
  <1> QED BY <1>1, Invariant, PTL

(* An exception is never sent to a try block that was left, nor to one that was
   not entered: the handlers are those that the compiler put around the pc. *)
THEOREM HandlersTheorem ==
    ASSUME Verified
    PROVE  Spec => []HandlersAsCompiled
  <1>1. MInv => HandlersAsCompiled
    <2>1. SUFFICES ASSUME MInv, NEW i \in DOMAIN control, control[i].kind = "run"
          PROVE  control[i].handlers = StackMap[control[i].fn][control[i].pc].nest
      BY DEF HandlersAsCompiled, Runs
    <2>2. RunOK(control[i])
      BY <2>1, ActivationType DEF MInv, Typed, Chain
    <2> QED BY <2>2 DEF RunOK
  <1> QED BY <1>1, Invariant, PTL

(* The markers on the value stack are those of the runs on the C stack, in the
   order of the calls. *)
THEOREM FramesTheorem ==
    ASSUME Verified
    PROVE  Spec => []FramesMatch
  <1>1. MInv => FramesMatch
    <2>1. SUFFICES ASSUME MInv, status = "running", ret # "fail"
          PROVE  LET markers == {p \in DOMAIN stack : stack[p] # Value}
                 IN  /\ {stack[p] : p \in markers} = Runs
                     /\ \A p, q \in markers : p < q => stack[p] < stack[q]
      BY DEF FramesMatch
    <2>2. PICK b : Shape(stack, control, b)
      BY <2>1 DEF MInv, Sound
    <2>3. DOMAIN stack = 1 .. Len(stack) /\ DOMAIN control = 1 .. Len(control) /\ Len(control) \in Nat
      BY <2>1 DEF MInv, Typed
    <2>4. PICK markers : markers = {p \in DOMAIN stack : stack[p] # Value}
      OBVIOUS
    <2>5. ASSUME NEW p \in markers
          PROVE  \E i \in 1 .. Len(control) : control[i].kind = "run" /\ b[i] = p /\ stack[p] = i
      BY <2>2, <2>3, <2>4 DEF Shape
    <2>6. ASSUME NEW i \in Runs PROVE b[i] \in markers /\ stack[b[i]] = i
      <3>1. i \in 1 .. Len(control) /\ control[i].kind = "run"
        BY <2>3 DEF Runs
      <3>2. b[i] \in 1 .. Len(stack) /\ stack[b[i]] = i
        BY <2>2, <3>1 DEF Shape
      <3> QED BY <2>3, <2>4, <3>1, <3>2 DEF Value
    <2>7. {stack[p] : p \in markers} = Runs
      <3>1. \A p \in markers : stack[p] \in Runs
        BY <2>3, <2>5 DEF Runs
      <3> QED BY <2>6, <3>1
    <2>8. ASSUME NEW p \in markers, NEW q \in markers, p < q PROVE stack[p] < stack[q]
      <3>1. PICK i \in 1 .. Len(control) : control[i].kind = "run" /\ b[i] = p /\ stack[p] = i
        BY <2>5
      <3>2. PICK j \in 1 .. Len(control) : control[j].kind = "run" /\ b[j] = q /\ stack[q] = j
        BY <2>5
      <3>3. p \in Nat /\ q \in Nat
        BY <2>3, <2>4
      <3>4. j < i => b[j] <= b[i]
        BY <2>2 DEF Shape
      <3>5. ~(j < i) /\ i # j
        BY <2>8, <3>1, <3>2, <3>3, <3>4
      <3> QED BY <3>1, <3>2, <3>5
    <2> QED BY <2>4, <2>7, <2>8
  <1> QED BY <1>1, Invariant, PTL

(* Whatever path led to it, an instruction of a verified program, in which arguments
   go only to constructors that take them and no constructor throws, finds the
   operands its map says. *)
THEOREM OperandsTheorem ==
    ASSUME Verified
    PROVE  Spec => []OperandsAsCompiled
  <1>1. MInv => OperandsAsCompiled
    <2>1. SUFFICES ASSUME MInv, Running, ret = "none"
          PROVE  \E p \in DOMAIN stack :
                    stack[p] = Len(control) /\ Len(stack) - p = StackMap[top.fn][top.pc].depth
      BY DEF OperandsAsCompiled
    <2>2. PICK b : Ready(b)
      BY <2>1, ReadyOK
    <2>3. b[Len(control)] \in 1 .. Len(stack) /\ stack[b[Len(control)]] = Len(control)
      BY <2>2, ShapeTop DEF Ready, top
    <2>4. Len(stack) - b[Len(control)] = StackMap[top.fn][top.pc].depth
      BY <2>2, ReadySame
    <2>5. DOMAIN stack = 1 .. Len(stack)
      BY <2>2 DEF Ready
    <2> QED BY <2>3, <2>4, <2>5
  <1> QED BY <1>1, Invariant, PTL

(* RETURN of a verified program, whose arguments all go to a constructor that takes
   them, finds the frame of its own run below the result. *)
THEOREM ReturnTheorem ==
    ASSUME Verified
    PROVE  Spec => []ReturnFindsFrame
  <1>1. MInv => ReturnFindsFrame
    <2>1. SUFFICES ASSUME MInv, Instr("return") PROVE OwnFrameBelowResult
      BY DEF ReturnFindsFrame
    <2>2. Running /\ ret = "none" /\ instr.op = "return"
      BY <2>1 DEF Instr, instr
    <2>3. PICK b : Ready(b)
      BY <2>1, <2>2, ReadyOK
    <2> QED BY <2>2, <2>3, OwnFrame
  <1> QED BY <1>1, Invariant, PTL

(* No value is popped that was not pushed. *)
THEOREM NeverCorruptTheorem ==
    ASSUME Verified
    PROVE  Spec => []NeverCorrupt
  <1>1. MInv => NeverCorrupt
    BY DEF MInv, NeverCorrupt
  <1> QED BY <1>1, Invariant, PTL

(* A context that has run a program to its end, or to an exception nobody
   caught, has an empty value stack again. *)
THEOREM CleanEndTheorem ==
    ASSUME Verified
    PROVE  Spec => []CleanEnd
  <1>1. MInv => CleanEnd
    BY DEF MInv
  <1> QED BY <1>1, Invariant, PTL

(* The value stack never runs over its array, although no push checks it. *)
THEOREM BoundsTheorem ==
    ASSUME Verified
    PROVE  Spec => []StackInBounds
  <1>1. MInv /\ Bounded => StackInBounds
    <2>1. MInv => Len(stack) \in Nat
      BY DEF MInv, Typed
    <2> QED BY <2>1, MachineAssumption DEF Bounded, StackInBounds, Margin
  <1> QED BY <1>1, Invariant, PTL
=============================================================================
