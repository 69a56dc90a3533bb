---------------------------- MODULE ClassesProofs ----------------------------
(***************************************************************************)
(* Theorems about Classes: for every set of files and classes written in   *)
(* C++, however the loads of one class interrupt those of others.          *)
(***************************************************************************)
EXTENDS Classes, Sums, SequenceTheorems, TLAPS

-----------------------------------------------------------------------------
(***************************************************************************)
(* Lemmas about sequences and stacks                                       *)
(***************************************************************************)
LEMMA RangeMember ==
    ASSUME NEW s, IsSeq(s)
    PROVE  /\ Len(s) \in Nat /\ DOMAIN s = 1 .. Len(s)
           /\ \A i \in 1 .. Len(s) : s[i] \in Range(s)
           /\ \A e \in Range(s) : \E i \in 1 .. Len(s) : s[i] = e
           /\ s # <<>> => Len(s) > 0
  <1>1. s \in Seq(Range(s))
    BY DEF IsSeq
  <1>2. PICK R : R = Range(s)
    OBVIOUS
  <1>3. Len(s) \in Nat /\ DOMAIN s = 1 .. Len(s) /\ (s # <<>> => Len(s) > 0)
    <2>1. s \in Seq(R)
      BY <1>1, <1>2
    <2> QED BY <2>1, EmptySeq
  <1> QED BY <1>3 DEF Range

(* One element more, whatever the elements are. *)
LEMMA Appended ==
    ASSUME NEW s, IsSeq(s), NEW e
    PROVE  /\ IsSeq(Append(s, e))
           /\ Len(Append(s, e)) = Len(s) + 1
           /\ \A i \in 1 .. Len(s) : Append(s, e)[i] = s[i]
           /\ Append(s, e)[Len(s) + 1] = e
  <1>1. PICK R : R = Range(s) \cup {e}
    OBVIOUS
  <1>2. s \in Seq(R) /\ e \in R
    BY <1>1 DEF IsSeq
  <1>3. PICK t : t = Append(s, e)
    OBVIOUS
  <1>4. /\ t \in Seq(R)
        /\ Len(t) = Len(s) + 1
        /\ \A i \in 1 .. Len(s) : t[i] = s[i]
        /\ t[Len(s) + 1] = e
    BY <1>2, <1>3, AppendProperties
  <1>5. t \in Seq(Range(t))
    <2>1. Len(t) \in Nat /\ t \in [1 .. Len(t) -> R]
      BY <1>4
    <2>2. t \in [1 .. Len(t) -> Range(t)]
      BY <2>1 DEF Range
    <2>3. PICK R2 : R2 = Range(t)
      OBVIOUS
    <2>4. t \in Seq(R2)
      BY <2>1, <2>2, <2>3, SeqDef
    <2> QED BY <2>3, <2>4
  <1> QED BY <1>3, <1>4, <1>5 DEF IsSeq

(* The top of a stack, and what is below. *)
LEMMA FrontProperties ==
    ASSUME NEW S, NEW s \in Seq(S), s # <<>>
    PROVE  /\ Front(s) \in Seq(S)
           /\ Len(s) \in Nat \ {0}
           /\ Len(Front(s)) = Len(s) - 1
           /\ \A k \in 1 .. Len(s) - 1 : Front(s)[k] = s[k]
           /\ Last(s) = s[Len(s)]
           /\ Last(s) \in S
  <1>1. Len(s) \in Nat \ {0}
    BY EmptySeq
  <1>2. PICK i \in 1 .. Len(s) : i = Len(s)
    BY <1>1
  <1>3. /\ SubSeq(s, 1, i - 1) \in Seq(S)
        /\ Len(SubSeq(s, 1, i - 1)) = i - 1
        /\ \A k \in 1 .. i - 1 : SubSeq(s, 1, i - 1)[k] = s[k]
    OBVIOUS
  <1> QED BY <1>1, <1>2, <1>3 DEF Front, Last

(* A stack whose top is exchanged. *)
LEMMA TopReplaced ==
    ASSUME NEW S, NEW s \in Seq(S), s # <<>>, NEW a \in S
    PROVE  LET t == Append(Front(s), a)
           IN  /\ t \in Seq(S) /\ t # <<>>
               /\ Len(t) = Len(s) /\ DOMAIN t = 1 .. Len(s)
               /\ \A i \in 1 .. Len(s) - 1 : t[i] = s[i]
               /\ t[Len(s)] = a /\ Last(t) = a
  <1>1. /\ Front(s) \in Seq(S) /\ Len(s) \in Nat \ {0}
        /\ Len(Front(s)) = Len(s) - 1
        /\ \A k \in 1 .. Len(s) - 1 : Front(s)[k] = s[k]
    BY FrontProperties
  <1>2. PICK t : t = Append(Front(s), a)
    OBVIOUS
  <1>3. /\ t \in Seq(S) /\ t # <<>> /\ Len(t) = Len(Front(s)) + 1
        /\ \A i \in 1 .. Len(Front(s)) : t[i] = Front(s)[i]
        /\ t[Len(Front(s)) + 1] = a
    BY <1>1, <1>2, AppendProperties
  <1>4. Len(t) = Len(s) /\ t[Len(s)] = a /\ \A i \in 1 .. Len(s) - 1 : t[i] = s[i]
    BY <1>1, <1>3
  <1>5. Last(t) = a /\ DOMAIN t = 1 .. Len(s)
    BY <1>3, <1>4 DEF Last
  <1> QED BY <1>2, <1>3, <1>4, <1>5, Zenon

-----------------------------------------------------------------------------
(***************************************************************************)
(* One class: its slots                                                    *)
(***************************************************************************)
IsClass(c) ==
    c = [super |-> c.super, base |-> c.base, state |-> c.state, deleted |-> c.deleted, methods |-> c.methods,
         count |-> c.count, fields |-> c.fields, staticStart |-> c.staticStart,
         staticCount |-> c.staticCount, statics |-> c.statics, values |-> c.values]

Counts(c) ==
    /\ IsClass(c)
    /\ c.count \in Nat \ {0}
    /\ c.staticStart \in Nat /\ c.staticCount \in Nat /\ c.staticStart <= c.staticCount

(* Its own fields have slots of their own from start on, and its object has them. *)
LaidOut(c, start) ==
    /\ start \in Nat \ {0} /\ start <= c.count
    /\ IsSeq(c.fields)
    /\ \A e \in Range(c.fields) : e.id \in Nat /\ start <= e.id /\ e.id < c.count
    /\ \A d, e \in Range(c.fields) : d.id = e.id => d = e

(* One class leaves its place to another. *)
SameFrame(c, d) == d.super = c.super /\ d.base = c.base /\ d.state = c.state

LEMMA AddFieldOK ==
    ASSUME NEW c, Counts(c), NEW name
    PROVE  LET d == AddField(c, name)
           IN  /\ Counts(d) /\ SameFrame(c, d) /\ d.count = c.count + 1
               /\ \A start : LaidOut(c, start) => LaidOut(d, start)
  <1>1. PICK f : f = Insert(c.fields, name, c.count)
    OBVIOUS
  <1>2. PICK d : d = AddField(c, name)
    OBVIOUS
  <1>3. d = [super |-> c.super, base |-> c.base, state |-> c.state, deleted |-> c.deleted, methods |-> c.methods,
             count |-> c.count + 1, fields |-> f, staticStart |-> c.staticStart,
             staticCount |-> c.staticCount, statics |-> c.statics, values |-> c.values]
    BY <1>1, <1>2 DEF AddField, Counts, IsClass
  <1>4. Counts(d) /\ SameFrame(c, d) /\ d.count = c.count + 1 /\ d.fields = f
    BY <1>3 DEF Counts, IsClass, SameFrame
  <1>5. ASSUME NEW start, LaidOut(c, start) PROVE LaidOut(d, start)
    <2>1. c.count \in Nat \ {0}
      BY DEF Counts
    <2>2. CASE f = c.fields
      BY <1>4, <1>5, <2>1, <2>2 DEF LaidOut
    <2>3. CASE f # c.fields
      <3>1. PICK new : new = [name |-> name, id |-> c.count]
        OBVIOUS
      <3>2. f = Append(c.fields, new)
        BY <1>1, <2>3, <3>1 DEF Insert
      <3>3. /\ IsSeq(c.fields) /\ start \in Nat \ {0} /\ start <= c.count
            /\ \A e \in Range(c.fields) : e.id \in Nat /\ start <= e.id /\ e.id < c.count
            /\ \A a, e \in Range(c.fields) : a.id = e.id => a = e
        BY <1>5 DEF LaidOut
      <3>4. /\ IsSeq(f) /\ Len(f) = Len(c.fields) + 1
            /\ \A i \in 1 .. Len(c.fields) : f[i] = c.fields[i]
            /\ f[Len(c.fields) + 1] = new
        <4>1. /\ IsSeq(Append(c.fields, new)) /\ Len(Append(c.fields, new)) = Len(c.fields) + 1
              /\ \A i \in 1 .. Len(c.fields) : Append(c.fields, new)[i] = c.fields[i]
              /\ Append(c.fields, new)[Len(c.fields) + 1] = new
          BY <3>3, Appended
        <4> QED BY <3>2, <4>1, Zenon
      <3>5. \A e \in Range(f) : e \in Range(c.fields) \/ e = new
        <4>1. Len(c.fields) \in Nat /\ \A i \in 1 .. Len(c.fields) : c.fields[i] \in Range(c.fields)
          BY <3>3, RangeMember
        <4>2. \A e \in Range(f) : \E i \in 1 .. Len(f) : f[i] = e
          BY <3>4, RangeMember
        <4> QED BY <3>4, <4>1, <4>2
      <3>6. new.id = c.count
        BY <3>1
      <3>7. \A e \in Range(f) : e.id \in Nat /\ start <= e.id /\ e.id < c.count + 1
        <4>1. ASSUME NEW e \in Range(f) PROVE e.id \in Nat /\ start <= e.id /\ e.id < c.count + 1
          <5>1. CASE e \in Range(c.fields)
            <6>1. e.id \in Nat /\ start <= e.id /\ e.id < c.count
              BY <3>3, <5>1
            <6> QED BY <2>1, <6>1
          <5>2. CASE e = new
            BY <2>1, <3>3, <3>6, <5>2
          <5> QED BY <3>5, <5>1, <5>2
        <4> QED BY <4>1
      <3>8. \A a, e \in Range(f) : a.id = e.id => a = e
        BY <2>1, <3>3, <3>5, <3>6
      <3> QED BY <1>4, <2>1, <3>3, <3>4, <3>7, <3>8 DEF LaidOut
    <2> QED BY <2>2, <2>3
  <1> QED BY <1>2, <1>4, <1>5

LEMMA AddStaticOK ==
    ASSUME NEW c, Counts(c), NEW name
    PROVE  LET d == AddStaticField(c, name)
           IN  /\ Counts(d) /\ SameFrame(c, d) /\ d.count = c.count
               /\ \A start : LaidOut(c, start) => LaidOut(d, start)
  <1>1. PICK d : d = AddStaticField(c, name)
    OBVIOUS
  <1>2. d = [super |-> c.super, base |-> c.base, state |-> c.state, deleted |-> c.deleted, methods |-> c.methods,
             count |-> c.count, fields |-> c.fields, staticStart |-> c.staticStart,
             staticCount |-> c.staticCount + 1, statics |-> Insert(c.statics, name, c.staticCount),
             values |-> c.values + 1]
    BY <1>1 DEF AddStaticField, Counts, IsClass
  <1>3. Counts(d) /\ SameFrame(c, d) /\ d.count = c.count /\ d.fields = c.fields
    BY <1>2 DEF Counts, IsClass, SameFrame
  <1> QED BY <1>1, <1>3 DEF LaidOut

LEMMA AddMethodOK ==
    ASSUME NEW c, Counts(c), NEW name
    PROVE  LET d == AddMethod(c, name)
           IN  /\ Counts(d) /\ SameFrame(c, d) /\ d.count = c.count
               /\ \A start : LaidOut(c, start) => LaidOut(d, start)
  <1>1. PICK d : d = AddMethod(c, name)
    OBVIOUS
  <1>2. d = [super |-> c.super, base |-> c.base, state |-> c.state, deleted |-> c.deleted,
             methods |-> c.methods \cup {name}, count |-> c.count, fields |-> c.fields,
             staticStart |-> c.staticStart, staticCount |-> c.staticCount, statics |-> c.statics,
             values |-> c.values]
    BY <1>1 DEF AddMethod, Counts, IsClass
  <1>3. Counts(d) /\ SameFrame(c, d) /\ d.count = c.count /\ d.fields = c.fields
    BY <1>2 DEF Counts, IsClass, SameFrame
  <1> QED BY <1>1, <1>3 DEF LaidOut

(* A member of either kind. *)
LEMMA AddToOK ==
    ASSUME NEW c, Counts(c), NEW m, m.kind \in Kinds
    PROVE  LET d == AddTo(c, m)
           IN  /\ Counts(d) /\ SameFrame(c, d)
               /\ \A start : LaidOut(c, start) => LaidOut(d, start)
  <1>1. CASE m.kind = "field"
    <2>1. AddTo(c, m) = AddField(c, m.name)
      BY <1>1 DEF AddTo
    <2> QED BY <2>1, AddFieldOK
  <1>2. CASE m.kind = "static"
    <2>1. AddTo(c, m) = AddStaticField(c, m.name)
      BY <1>2 DEF AddTo
    <2> QED BY <2>1, AddStaticOK
  <1>3. CASE m.kind = "method"
    <2>1. AddTo(c, m) = AddMethod(c, m.name)
      BY <1>3 DEF AddTo
    <2> QED BY <2>1, AddMethodOK
  <1> QED BY <1>1, <1>2, <1>3 DEF Kinds

(* A class made from c by adding members one by one. *)
Making(f, c, s) == f = [j \in 0 .. Len(s) |-> IF j = 0 THEN c ELSE AddTo(f[j - 1], s[j])]

LEMMA MakingExists ==
    ASSUME NEW c, NEW s, IsSeq(s)
    PROVE  \E f : Making(f, c, s)
  <1> DEFINE Upto(k) == \E f : f = [j \in 0 .. k |-> IF j = 0 THEN c ELSE AddTo(f[j - 1], s[j])]
             T == {k \in Nat : Upto(k)}
  <1>1. Upto(0)
    <2>1. PICK f : f = [j \in 0 .. 0 |-> c]
      OBVIOUS
    <2>2. f = [j \in 0 .. 0 |-> IF j = 0 THEN c ELSE AddTo(f[j - 1], s[j])]
      BY <2>1
    <2> QED BY <2>2
  <1>2. ASSUME NEW k \in Nat, Upto(k) PROVE Upto(k + 1)
    <2>1. PICK f : f = [j \in 0 .. k |-> IF j = 0 THEN c ELSE AddTo(f[j - 1], s[j])]
      BY <1>2
    <2>2. PICK g : g = [j \in 0 .. k + 1 |-> IF j <= k THEN f[j] ELSE AddTo(f[k], s[k + 1])]
      OBVIOUS
    <2>3. ASSUME NEW j \in 0 .. k + 1
          PROVE  g[j] = IF j = 0 THEN c ELSE AddTo(g[j - 1], s[j])
      <3>1. CASE j = 0
        BY <2>1, <2>2, <3>1
      <3>2. CASE j > 0 /\ j <= k
        <4>1. g[j] = f[j] /\ g[j - 1] = f[j - 1] /\ f[j] = AddTo(f[j - 1], s[j])
          BY <2>1, <2>2, <3>2
        <4> QED BY <3>2, <4>1
      <3>3. CASE j = k + 1
        <4>1. g[j] = AddTo(f[k], s[k + 1]) /\ g[j - 1] = f[k]
          BY <2>2, <3>3
        <4> QED BY <3>3, <4>1
      <3> QED BY <3>1, <3>2, <3>3
    <2>4. g = [j \in 0 .. k + 1 |-> g[j]]
      BY <2>2
    <2>5. g = [j \in 0 .. k + 1 |-> IF j = 0 THEN c ELSE AddTo(g[j - 1], s[j])]
      BY <2>3, <2>4, Zenon
    <2> QED BY <2>5
  <1> HIDE DEF Upto
  <1>3. 0 \in T /\ \A k \in Nat : k \in T => k + 1 \in T
    BY <1>1, <1>2
  <1> HIDE DEF T
  <1>4. Nat \subseteq T
    BY <1>3, Induction
  <1>5. Upto(Len(s))
    BY <1>4, RangeMember DEF T
  <1> QED BY <1>5 DEF Upto, Making

LEMMA MakingOK ==
    ASSUME NEW c, Counts(c), NEW s, IsSeq(s), \A m \in Range(s) : m.kind \in Kinds,
           NEW f, Making(f, c, s)
    PROVE  LET d == f[Len(s)]
           IN  Counts(d) /\ SameFrame(c, d) /\ \A start : LaidOut(c, start) => LaidOut(d, start)
  <1> DEFINE Good(d) == Counts(d) /\ SameFrame(c, d) /\ \A start : LaidOut(c, start) => LaidOut(d, start)
             T == {k \in Nat : k <= Len(s) => Good(f[k])}
  <1>1. Len(s) \in Nat /\ \A k \in 1 .. Len(s) : s[k].kind \in Kinds
    BY RangeMember
  <1>2. f[0] = c /\ \A k \in Nat : k + 1 <= Len(s) => f[k + 1] = AddTo(f[k], s[k + 1])
    BY <1>1 DEF Making
  <1>3. Good(f[0])
    BY <1>2 DEF SameFrame
  <1>4. ASSUME NEW k \in Nat, k <= Len(s) => Good(f[k]), k + 1 <= Len(s) PROVE Good(f[k + 1])
    <2>1. Good(f[k])
      BY <1>1, <1>4
    <2>2. PICK d : d = AddTo(f[k], s[k + 1])
      OBVIOUS
    <2>3. s[k + 1].kind \in Kinds
      BY <1>1, <1>4
    <2>4. Counts(d) /\ SameFrame(f[k], d) /\ \A start : LaidOut(f[k], start) => LaidOut(d, start)
      BY <2>1, <2>2, <2>3, AddToOK
    <2>5. Good(d)
      BY <2>1, <2>4 DEF SameFrame
    <2> QED BY <1>2, <1>4, <2>2, <2>5
  <1> HIDE DEF Good
  <1>5. 0 \in T /\ \A k \in Nat : k \in T => k + 1 \in T
    BY <1>3, <1>4
  <1> HIDE DEF T
  <1>6. Nat \subseteq T
    BY <1>5, Induction
  <1>7. Good(f[Len(s)])
    BY <1>1, <1>6 DEF T
  <1> QED BY <1>7 DEF Good

(* A new class: its fields begin behind those of its base. *)
LEMMA MakeClassOK ==
    ASSUME NEW super, NEW base, NEW state, base # None => Counts(classes[base])
    PROVE  LET d == MakeClass(super, base, state)
               start == IF base = None THEN 1 ELSE classes[base].count + 1
           IN  /\ Counts(d) /\ LaidOut(d, start)
               /\ d.super = super /\ d.base = base /\ d.state = state
               /\ d.fields = <<>> /\ d.statics = <<>> /\ d.methods = {}
  <1>1. PICK d : d = MakeClass(super, base, state)
    OBVIOUS
  <1>2. PICK start : start = IF base = None THEN 1 ELSE classes[base].count + 1
    OBVIOUS
  <1>3. /\ IsClass(d) /\ d.super = super /\ d.base = base /\ d.state = state
        /\ d.count = start /\ d.fields = <<>> /\ d.statics = <<>> /\ d.methods = {}
        /\ d.staticStart = d.staticCount
        /\ d.staticCount = IF base = None THEN 0 ELSE classes[base].staticCount
    BY <1>1, <1>2 DEF MakeClass, IsClass
  <1>4. start \in Nat \ {0} /\ d.staticCount \in Nat
    BY <1>2, <1>3 DEF Counts
  <1>5. Counts(d)
    BY <1>3, <1>4 DEF Counts
  <1>6. IsSeq(<<>>) /\ Range(<<>>) = {}
    BY DEF IsSeq, Range
  <1>7. LaidOut(d, start)
    BY <1>3, <1>4, <1>6 DEF LaidOut
  <1> QED BY <1>1, <1>2, <1>3, <1>5, <1>7

LEMMA NativeOK ==
    ASSUME NEW n, IsSeq(n.members), \A m \in Range(n.members) : m.kind \in Kinds, NEW super, NEW state
    PROVE  LET d == Native(n, super, state)
           IN  /\ Counts(d) /\ LaidOut(d, 1)
               /\ d.super = super /\ d.base = None /\ d.state = state
  <1> DEFINE c == MakeClass(super, None, state)
             Made[j \in 0 .. Len(n.members)] == IF j = 0 THEN c ELSE AddTo(Made[j - 1], n.members[j])
  <1>1. Native(n, super, state) = Made[Len(n.members)]
    BY DEF Native
  <1>2. Counts(c) /\ LaidOut(c, 1) /\ c.super = super /\ c.base = None /\ c.state = state
    BY MakeClassOK
  <1> HIDE DEF c
  <1>3. Making(Made, c, n.members)
    <2>1. \E f : f = [j \in 0 .. Len(n.members) |-> IF j = 0 THEN c ELSE AddTo(f[j - 1], n.members[j])]
      <3>1. PICK f : Making(f, c, n.members)
        BY MakingExists, Zenon
      <3> QED BY <3>1, Zenon DEF Making
    <2> QED BY <2>1 DEF Making
  <1> HIDE DEF Made
  <1>4. PICK d : d = Made[Len(n.members)]
    OBVIOUS
  <1>5. Counts(d) /\ SameFrame(c, d) /\ LaidOut(d, 1)
    BY <1>2, <1>3, <1>4, MakingOK
  <1> QED BY <1>1, <1>2, <1>4, <1>5 DEF SameFrame

-----------------------------------------------------------------------------
(***************************************************************************)
(* The stack of loads                                                      *)
(***************************************************************************)
(* The class in a file that a load has come to. *)
Parsed(w, l) == w.files[l.name][l.class]

Frames(w) ==
    [name : DOMAIN w.files, addToExisting : BOOLEAN, class : Nat, step : {"super", "members"},
     member : Nat \ {0}, ref : Nat \ {0}, found : ClassNames(w) \cup {None, Unknown}]

(* A class is known before its members are; what is found is what was looked for. *)
FrameOK(w, l, known) ==
    /\ l.class \in 1 .. Len(w.files[l.name])
    /\ l.found \in known \cup {None, Unknown}
    /\ l.step = "super" /\ l.found \in known => l.found = SuperOf(Parsed(w, l))
    /\ l.step = "members" => Parsed(w, l).name \in known

(* Every load but the first is one that the class below it asked for. *)
Stacked(w, ls, known) ==
    /\ ls \in Seq(Frames(w))
    /\ \A k \in 1 .. Len(ls) : FrameOK(w, ls[k], known)
    /\ \A k \in 2 .. Len(ls) :
         /\ ~ls[k].addToExisting
         /\ ls[k].name \in AsksFor(Parsed(w, ls[k - 1]))
         /\ ls[k - 1].step = "super" => ls[k].name = SuperOf(Parsed(w, ls[k - 1]))
    /\ ls # <<>> /\ ls[1].addToExisting => ls[1].name \in Natives(w)

LEMMA FrameOn ==
    ASSUME NEW w, NEW l, NEW known, NEW more, FrameOK(w, l, known),
           known \subseteq more, None \notin more, Unknown \notin more
    PROVE  FrameOK(w, l, more)
  BY DEF FrameOK

(* The load on top goes on, and a class may have been added. *)
LEMMA StackedGoesOn ==
    ASSUME NEW w, NEW ls, NEW known, Stacked(w, ls, known), ls # <<>>,
           NEW more, known \subseteq more, None \notin more, Unknown \notin more,
           NEW l \in Frames(w), FrameOK(w, l, more),
           l.name = Last(ls).name, l.addToExisting = Last(ls).addToExisting
    PROVE  Stacked(w, Append(Front(ls), l), more)
  <1>1. PICK t : t = Append(Front(ls), l)
    OBVIOUS
  <1>2. ls \in Seq(Frames(w)) /\ Len(ls) \in Nat \ {0} /\ Last(ls) = ls[Len(ls)]
    BY FrontProperties DEF Stacked
  <1>3. /\ t \in Seq(Frames(w)) /\ t # <<>> /\ Len(t) = Len(ls)
        /\ \A i \in 1 .. Len(ls) - 1 : t[i] = ls[i]
        /\ t[Len(ls)] = l
    BY <1>1, <1>2, TopReplaced
  <1>4. ASSUME NEW k \in 1 .. Len(t) PROVE FrameOK(w, t[k], more)
    <2>1. CASE k = Len(ls)
      BY <1>3, <2>1
    <2>2. CASE k # Len(ls)
      <3>1. FrameOK(w, ls[k], known)
        BY <1>3 DEF Stacked
      <3>2. FrameOK(w, ls[k], more)
        BY <3>1, FrameOn
      <3> QED BY <1>2, <1>3, <2>2, <3>2
    <2> QED BY <2>1, <2>2
  <1>5. ASSUME NEW k \in 2 .. Len(t)
        PROVE  /\ ~t[k].addToExisting
               /\ t[k].name \in AsksFor(Parsed(w, t[k - 1]))
               /\ t[k - 1].step = "super" => t[k].name = SuperOf(Parsed(w, t[k - 1]))
    <2>1. t[k - 1] = ls[k - 1] /\ t[k].name = ls[k].name /\ t[k].addToExisting = ls[k].addToExisting
      BY <1>2, <1>3
    <2> QED BY <1>3, <2>1 DEF Stacked
  <1>6. t[1].name = ls[1].name /\ t[1].addToExisting = ls[1].addToExisting
    BY <1>2, <1>3
  <1>7. t # <<>> /\ t[1].addToExisting => t[1].name \in Natives(w)
    BY <1>6 DEF Stacked
  <1> QED BY <1>1, <1>3, <1>4, <1>5, <1>7 DEF Stacked

(* A class asks for another, whose file is loaded. *)
LEMMA StackedPush ==
    ASSUME NEW w \in Worlds, NEW ls, NEW known, Stacked(w, ls, known), ls # <<>>,
           NEW name \in DOMAIN w.files, name \in AsksFor(Parsed(w, Last(ls))),
           Last(ls).step = "super" => name = SuperOf(Parsed(w, Last(ls))), Unknown \notin known
    PROVE  Stacked(w, Append(ls, Load(name, FALSE)), known)
  <1>1. PICK l : l = Load(name, FALSE)
    OBVIOUS
  <1>2. l \in Frames(w) /\ ~l.addToExisting /\ l.name = name
    BY <1>1 DEF Load, Frames
  <1>3. FrameOK(w, l, known)
    <2>1. Len(w.files[name]) \in Nat \ {0}
      BY WorldAssumption, RangeMember
    <2> QED BY <1>1, <2>1 DEF Load, FrameOK
  <1>4. PICK t : t = Append(ls, l)
    OBVIOUS
  <1>5. ls \in Seq(Frames(w)) /\ Len(ls) \in Nat \ {0} /\ Last(ls) = ls[Len(ls)]
    BY FrontProperties DEF Stacked
  <1>6. /\ t \in Seq(Frames(w)) /\ Len(t) = Len(ls) + 1
        /\ \A i \in 1 .. Len(ls) : t[i] = ls[i]
        /\ t[Len(ls) + 1] = l
    BY <1>2, <1>4, <1>5, AppendProperties
  <1>7. ASSUME NEW k \in 1 .. Len(t) PROVE FrameOK(w, t[k], known)
    BY <1>3, <1>5, <1>6 DEF Stacked
  <1>8. ASSUME NEW k \in 2 .. Len(t)
        PROVE  /\ ~t[k].addToExisting
               /\ t[k].name \in AsksFor(Parsed(w, t[k - 1]))
               /\ t[k - 1].step = "super" => t[k].name = SuperOf(Parsed(w, t[k - 1]))
    <2>1. CASE k = Len(ls) + 1
      BY <1>2, <1>5, <1>6, <2>1
    <2>2. CASE k # Len(ls) + 1
      <3>1. k \in 2 .. Len(ls) /\ t[k] = ls[k] /\ t[k - 1] = ls[k - 1]
        BY <1>5, <1>6, <2>2
      <3> QED BY <3>1 DEF Stacked
    <2> QED BY <2>1, <2>2
  <1>9. t[1] = ls[1]
    BY <1>5, <1>6
  <1>10. t[1].addToExisting => t[1].name \in Natives(w)
    BY <1>9 DEF Stacked
  <1> QED BY <1>1, <1>4, <1>6, <1>7, <1>8, <1>10 DEF Stacked

(* The load on top returns, to the one below. *)
LEMMA StackedPop ==
    ASSUME NEW w, NEW ls, NEW known, Stacked(w, ls, known), ls # <<>>, Front(ls) # <<>>,
           known \subseteq ClassNames(w), None \notin known, Unknown \notin known,
           NEW answer, answer = None \/ (answer \in known /\ answer = Last(ls).name)
    PROVE  Stacked(w, Append(Front(Front(ls)), [Last(Front(ls)) EXCEPT !.found = answer]), known)
  <1>1. PICK t : t = Front(ls)
    OBVIOUS
  <1>2. /\ ls \in Seq(Frames(w)) /\ Len(ls) \in Nat \ {0} /\ Last(ls) = ls[Len(ls)]
        /\ t \in Seq(Frames(w)) /\ Len(t) = Len(ls) - 1
        /\ \A k \in 1 .. Len(ls) - 1 : t[k] = ls[k]
    BY <1>1, FrontProperties DEF Stacked
  <1>3. Len(t) \in Nat \ {0} /\ Last(t) = t[Len(t)] /\ Last(t) \in Frames(w)
    BY <1>1, <1>2, FrontProperties
  <1>4. Stacked(w, t, known)
    <2>1. \A k \in 1 .. Len(t) : FrameOK(w, t[k], known)
      BY <1>2 DEF Stacked
    <2>2. \A k \in 2 .. Len(t) :
             /\ ~t[k].addToExisting
             /\ t[k].name \in AsksFor(Parsed(w, t[k - 1]))
             /\ t[k - 1].step = "super" => t[k].name = SuperOf(Parsed(w, t[k - 1]))
      <3>1. \A k \in 2 .. Len(t) : k \in 2 .. Len(ls) /\ t[k] = ls[k] /\ t[k - 1] = ls[k - 1]
        BY <1>2
      <3> QED BY <3>1 DEF Stacked
    <2>3. t[1] = ls[1]
      BY <1>2, <1>3
    <2> QED BY <1>2, <2>1, <2>2, <2>3 DEF Stacked
  <1>5. PICK l : l = [Last(t) EXCEPT !.found = answer]
    OBVIOUS
  <1>6. /\ l \in Frames(w) /\ l.found = answer /\ l.step = Last(t).step /\ l.class = Last(t).class
        /\ l.name = Last(t).name /\ l.addToExisting = Last(t).addToExisting
    BY <1>3, <1>5 DEF Frames
  <1>7. FrameOK(w, l, known)
    <2>1. FrameOK(w, Last(t), known)
      BY <1>3, <1>4 DEF Stacked
    <2>2. Parsed(w, l) = Parsed(w, Last(t))
      BY <1>6 DEF Parsed
    <2>3. ls[Len(ls) - 1] = Last(t) /\ Len(ls) \in 2 .. Len(ls)
      BY <1>2, <1>3
    <2>4. l.step = "super" /\ answer # None => answer = SuperOf(Parsed(w, Last(t)))
      BY <1>2, <1>6, <2>3 DEF Stacked
    <2> QED BY <1>6, <2>1, <2>2, <2>4 DEF FrameOK
  <1>8. Stacked(w, Append(Front(t), l), known)
    BY <1>1, <1>4, <1>6, <1>7, StackedGoesOn
  <1> QED BY <1>1, <1>5, <1>8

-----------------------------------------------------------------------------
(***************************************************************************)
(* Types                                                                   *)
(***************************************************************************)
ClassesOK(w, cl) ==
    /\ DOMAIN cl \subseteq ClassNames(w)
    /\ \A n \in DOMAIN cl :
         /\ Counts(cl[n])
         /\ {cl[n].super, cl[n].base} \subseteq DOMAIN cl \cup {None}
         /\ cl[n].state \in States

Replied(a) == \A n \in DOMAIN a : a[n] \in {n, None}

TInv ==
    /\ world \in Worlds
    /\ natives \in Seq(Range(world.natives))
    /\ ClassesOK(world, classes)
    /\ Stacked(world, loads, DOMAIN classes)
    /\ Replied(answers)

LEMMA NoName ==
    ASSUME TInv
    PROVE  None \notin DOMAIN classes /\ Unknown \notin DOMAIN classes
  BY WorldAssumption DEF TInv, ClassesOK

LEMMA InitTInv == Init => TInv
  <1> SUFFICES ASSUME Init PROVE TInv
    OBVIOUS
  <1>1. world \in Worlds /\ classes = <<>> /\ loads = <<>> /\ answers = <<>> /\ natives = world.natives
    BY DEF Init
  <1>2. natives \in Seq(Range(world.natives))
    BY <1>1, WorldAssumption DEF IsSeq
  <1>3. ClassesOK(world, classes)
    BY <1>1 DEF ClassesOK
  <1>4. Stacked(world, loads, DOMAIN classes)
    BY <1>1 DEF Stacked
  <1>5. Replied(answers)
    BY <1>1 DEF Replied
  <1> QED BY <1>1, <1>2, <1>3, <1>4, <1>5 DEF TInv

(* The class that the load on top has come to. *)
LEMMA TopOK ==
    ASSUME TInv, loads # <<>>
    PROVE  /\ loads \in Seq(Frames(world)) /\ Len(loads) \in Nat \ {0} /\ Top = loads[Len(loads)]
           /\ Top \in Frames(world) /\ FrameOK(world, Top, DOMAIN classes)
           /\ Class = Parsed(world, Top)
           /\ Class \in Range(world.files[Top.name]) /\ Class \in Declared(world)
           /\ Class.name \in ClassNames(world)
           /\ IsSeq(Class.members)
           /\ Class.name \notin {None, Unknown}
  <1>1. /\ loads \in Seq(Frames(world)) /\ Len(loads) \in Nat \ {0}
        /\ Top = loads[Len(loads)] /\ Top \in Frames(world)
    BY FrontProperties DEF TInv, Stacked, Top
  <1>2. FrameOK(world, Top, DOMAIN classes)
    BY <1>1 DEF TInv, Stacked
  <1>3. Class = Parsed(world, Top)
    BY DEF Class, Parsed
  <1>4. Top.name \in DOMAIN world.files /\ Top.class \in 1 .. Len(world.files[Top.name])
    BY <1>1, <1>2 DEF Frames, FrameOK
  <1>5. Class \in Range(world.files[Top.name])
    BY <1>4, RangeMember, WorldAssumption DEF TInv, Class
  <1>6. Class \in Declared(world)
    BY <1>4, <1>5 DEF Declared
  <1>7. Class.name \in ClassNames(world)
    BY <1>6 DEF ClassNames, Natives
  <1> QED BY <1>1, <1>2, <1>3, <1>5, <1>6, <1>7, WorldAssumption DEF TInv

LEMMA MemberOK ==
    ASSUME TInv, InMember
    PROVE  /\ loads # <<>> /\ Top.step = "members"
           /\ Member \in Range(Class.members)
           /\ Member.kind \in Kinds \cup {"bad"} /\ IsSeq(Member.refs)
           /\ Class.name \in DOMAIN classes
  <1>1. loads # <<>> /\ Top.step = "members" /\ Top.member <= Len(Class.members)
    BY DEF InMember, Loading
  <1>2. Top.member \in Nat \ {0} /\ IsSeq(Class.members) /\ Class \in Declared(world)
        /\ FrameOK(world, Top, DOMAIN classes) /\ Class = Parsed(world, Top)
    BY <1>1, TopOK DEF Frames
  <1>3. Member \in Range(Class.members)
    BY <1>1, <1>2, RangeMember DEF Member
  <1> QED BY <1>1, <1>2, <1>3, WorldAssumption DEF TInv, FrameOK

(* The load on top goes on with what it has found out. *)
LEMMA BecomeOK ==
    ASSUME TInv, loads # <<>>, NEW l \in Frames(world), NEW more,
           DOMAIN classes \subseteq more, None \notin more, Unknown \notin more,
           FrameOK(world, l, more), l.name = Top.name, l.addToExisting = Top.addToExisting, Become(l)
    PROVE  Stacked(world, loads', more)
  <1>1. PICK ls : ls = loads
    OBVIOUS
  <1>2. Stacked(world, Append(Front(ls), l), more)
    BY <1>1, StackedGoesOn DEF TInv, Top
  <1> QED BY <1>1, <1>2 DEF Become, Below

LEMMA ReturnOK ==
    ASSUME TInv, loads # <<>>, NEW answer, Return(answer),
           answer = None \/ (answer \in DOMAIN classes /\ answer = Top.name)
    PROVE  Stacked(world, loads', DOMAIN classes) /\ Replied(answers')
  <1>1. CASE Below # <<>>
    <2>1. PICK ls : ls = loads
      OBVIOUS
    <2>2. loads' = Append(Front(Front(ls)), [Last(Front(ls)) EXCEPT !.found = answer]) /\ answers' = answers
      BY <1>1, <2>1 DEF Return, Below
    <2>3. DOMAIN classes \subseteq ClassNames(world) /\ None \notin DOMAIN classes /\ Unknown \notin DOMAIN classes
      BY NoName DEF TInv, ClassesOK
    <2>4. Stacked(world, Append(Front(Front(ls)), [Last(Front(ls)) EXCEPT !.found = answer]), DOMAIN classes)
      BY <1>1, <2>1, <2>3, StackedPop DEF TInv, Below, Top
    <2> QED BY <2>2, <2>4 DEF TInv, Replied
  <1>2. CASE Below = <<>>
    <2>1. loads' = <<>>
      BY <1>2 DEF Return
    <2>2. Stacked(world, loads', DOMAIN classes)
      BY <2>1 DEF Stacked
    <2>3. answers' = answers \/
          answers' = [n \in DOMAIN answers \cup {Top.name} |-> IF n = Top.name THEN answer ELSE answers[n]]
      BY <1>2 DEF Return
    <2>4. Replied(answers')
      BY <2>3 DEF TInv, Replied
    <2> QED BY <2>2, <2>4
  <1> QED BY <1>1, <1>2

LEMMA FindOK ==
    ASSUME TInv, loads # <<>>, NEW name, name \in AsksFor(Class), Find(name),
           Top.step = "super" => name = SuperOf(Class)
    PROVE  TInv'
  <1>1. UNCHANGED <<world, natives, classes, answers>>
    BY DEF Find
  <1>2. Class = Parsed(world, Top) /\ Top \in Frames(world) /\ FrameOK(world, Top, DOMAIN classes)
    BY TopOK
  <1>3. Stacked(world, loads', DOMAIN classes)
    <2>1. CASE ~Known(name) /\ name \in DOMAIN world.files
      <3>1. loads' = Append(loads, Load(name, FALSE))
        BY <2>1 DEF Find
      <3>2. PICK ls : ls = loads
        OBVIOUS
      <3>3. Stacked(world, Append(ls, Load(name, FALSE)), DOMAIN classes)
        BY <1>2, <2>1, <3>2, NoName, StackedPush DEF TInv, Top
      <3> QED BY <3>1, <3>2, <3>3
    <2>2. CASE ~(~Known(name) /\ name \in DOMAIN world.files)
      <3>1. PICK l : l = [Top EXCEPT !.found = IF Known(name) THEN name ELSE None]
        OBVIOUS
      <3>2. Become(l)
        BY <2>2, <3>1 DEF Find
      <3>3. l.found \in DOMAIN classes \cup {None} /\ (l.found # None => l.found = name)
        BY <1>2, <3>1 DEF Known, Frames
      <3>4. l \in Frames(world) /\ l.name = Top.name /\ l.addToExisting = Top.addToExisting
            /\ l.step = Top.step /\ l.class = Top.class
        BY <1>2, <3>1, <3>3 DEF Frames, TInv, ClassesOK
      <3>5. FrameOK(world, l, DOMAIN classes)
        BY <1>2, <3>3, <3>4, NoName DEF FrameOK, Parsed
      <3> QED BY <3>2, <3>4, <3>5, BecomeOK, NoName
    <2> QED BY <2>1, <2>2
  <1> QED BY <1>1, <1>3 DEF TInv

LEMMA FindSuperOK == TInv /\ FindSuper => TInv'
  <1> SUFFICES ASSUME TInv, FindSuper PROVE TInv'
    OBVIOUS
  <1>1. loads # <<>> /\ Top.step = "super" /\ Class.super # None /\ Find(Class.super)
    BY DEF FindSuper, Loading
  <1>2. Class.super = SuperOf(Class) /\ Class.super \in AsksFor(Class)
    BY <1>1 DEF SuperOf, AsksFor
  <1> QED BY <1>1, <1>2, FindOK

LEMMA FindReferenceOK == TInv /\ FindReference => TInv'
  <1> SUFFICES ASSUME TInv, FindReference PROVE TInv'
    OBVIOUS
  <1>1. InMember /\ Top.ref <= Len(Member.refs) /\ Find(Member.refs[Top.ref].name)
    BY DEF FindReference
  <1>2. loads # <<>> /\ Top.step = "members" /\ Member \in Range(Class.members) /\ IsSeq(Member.refs)
    BY <1>1, MemberOK
  <1>3. Top.ref \in Nat \ {0}
    BY <1>2, TopOK DEF Frames
  <1>4. Member.refs[Top.ref] \in Range(Member.refs)
    BY <1>1, <1>2, <1>3, RangeMember
  <1>5. Member.refs[Top.ref].name \in AsksFor(Class)
    BY <1>2, <1>4 DEF AsksFor
  <1> QED BY <1>1, <1>2, <1>5, FindOK

(* A class put in the place of another, or a new one. *)
LEMMA ClassPut ==
    ASSUME NEW w, NEW cl, ClassesOK(w, cl), NEW name \in ClassNames(w), NEW c, Counts(c), c.state \in States,
           {c.super, c.base} \subseteq DOMAIN cl \cup {None},
           NEW d, d = [n \in DOMAIN cl \cup {name} |-> IF n = name THEN c ELSE cl[n]]
    PROVE  ClassesOK(w, d) /\ DOMAIN d = DOMAIN cl \cup {name}
  <1>1. DOMAIN d = DOMAIN cl \cup {name}
    OBVIOUS
  <1>2. ASSUME NEW n \in DOMAIN d
        PROVE  Counts(d[n]) /\ {d[n].super, d[n].base} \subseteq DOMAIN d \cup {None} /\ d[n].state \in States
    <2>1. CASE n = name
      BY <1>1, <2>1
    <2>2. CASE n # name
      <3>1. n \in DOMAIN cl /\ d[n] = cl[n]
        BY <2>2
      <3> QED BY <1>1, <3>1 DEF ClassesOK
    <2> QED BY <2>1, <2>2
  <1> QED BY <1>1, <1>2 DEF ClassesOK

(* The same where only one class that is there changes. *)
LEMMA ClassChanged ==
    ASSUME NEW w, NEW cl, ClassesOK(w, cl), NEW name \in DOMAIN cl, NEW c, Counts(c), SameFrame(cl[name], c),
           NEW d, d = [cl EXCEPT ![name] = c]
    PROVE  ClassesOK(w, d) /\ DOMAIN d = DOMAIN cl
  <1>1. name \in ClassNames(w) /\ c.state \in States /\ {c.super, c.base} \subseteq DOMAIN cl \cup {None}
    BY DEF ClassesOK, SameFrame
  <1>2. PICK g : g = [n \in DOMAIN cl \cup {name} |-> IF n = name THEN c ELSE cl[n]]
    OBVIOUS
  <1>3. ClassesOK(w, g) /\ DOMAIN g = DOMAIN cl
    BY <1>1, <1>2, ClassPut
  <1>4. DOMAIN cl \cup {name} = DOMAIN cl
    OBVIOUS
  <1>5. d = [n \in DOMAIN cl |-> IF n = name THEN c ELSE cl[n]]
    OBVIOUS
  <1>6. d = g
    BY <1>2, <1>4, <1>5
  <1> QED BY <1>3, <1>6

(* The state or the deletion of a class. *)
LEMMA StateOK ==
    ASSUME NEW c, Counts(c), NEW state
    PROVE  LET d == [c EXCEPT !.state = state]
           IN  /\ Counts(d) /\ d.super = c.super /\ d.base = c.base /\ d.state = state
               /\ d.count = c.count /\ d.fields = c.fields /\ d.statics = c.statics /\ d.methods = c.methods
  <1>1. PICK d : d = [c EXCEPT !.state = state]
    OBVIOUS
  <1>2. d = [super |-> c.super, base |-> c.base, state |-> state, deleted |-> c.deleted, methods |-> c.methods,
             count |-> c.count, fields |-> c.fields, staticStart |-> c.staticStart,
             staticCount |-> c.staticCount, statics |-> c.statics, values |-> c.values]
    BY <1>1 DEF Counts, IsClass
  <1> QED BY <1>1, <1>2 DEF Counts, IsClass

LEMMA DeletedOK ==
    ASSUME NEW c, Counts(c)
    PROVE  LET d == [c EXCEPT !.deleted = TRUE]
           IN  Counts(d) /\ SameFrame(c, d) /\ d.count = c.count /\ d.fields = c.fields /\ d.deleted
  <1>1. PICK d : d = [c EXCEPT !.deleted = TRUE]
    OBVIOUS
  <1>2. d = [super |-> c.super, base |-> c.base, state |-> c.state, deleted |-> TRUE, methods |-> c.methods,
             count |-> c.count, fields |-> c.fields, staticStart |-> c.staticStart,
             staticCount |-> c.staticCount, statics |-> c.statics, values |-> c.values]
    BY <1>1 DEF Counts, IsClass
  <1> QED BY <1>1, <1>2 DEF Counts, IsClass, SameFrame

(* A failed member deletes its class and ends the load. *)
LEMMA FailDeleted ==
    ASSUME TInv, loads # <<>>, Class.name \in DOMAIN classes, Fail, classes' = Deleted,
           UNCHANGED <<world, natives>>
    PROVE  TInv'
  <1>1. Stacked(world, loads', DOMAIN classes) /\ Replied(answers')
    <2>1. Return(None)
      BY DEF Fail
    <2> QED BY <2>1, ReturnOK
  <1>2. PICK name \in DOMAIN classes : name = Class.name
    OBVIOUS
  <1>3. PICK c : c = [classes[name] EXCEPT !.deleted = TRUE]
    OBVIOUS
  <1>4. Counts(c) /\ SameFrame(classes[name], c)
    BY <1>3, DeletedOK DEF TInv, ClassesOK
  <1>5. classes' = [classes EXCEPT ![name] = c]
    BY <1>2, <1>3 DEF Deleted
  <1>6. ClassesOK(world, classes') /\ DOMAIN classes' = DOMAIN classes
    BY <1>4, <1>5, ClassChanged DEF TInv
  <1> QED BY <1>1, <1>6 DEF TInv

LEMMA ReferredOK == TInv /\ Referred => TInv'
  <1> SUFFICES ASSUME TInv, Referred PROVE TInv'
    OBVIOUS
  <1>1. InMember /\ UNCHANGED <<world, natives>>
    BY DEF Referred
  <1>2. loads # <<>> /\ Class.name \in DOMAIN classes
    BY <1>1, MemberOK
  <1>3. CASE Fail /\ classes' = Deleted
    BY <1>1, <1>2, <1>3, FailDeleted
  <1>4. CASE Become([Top EXCEPT !.ref = @ + 1, !.found = Unknown]) /\ UNCHANGED <<classes, answers>>
    <2>1. PICK l : l = [Top EXCEPT !.ref = @ + 1, !.found = Unknown]
      OBVIOUS
    <2>2. Top \in Frames(world) /\ FrameOK(world, Top, DOMAIN classes)
      BY <1>2, TopOK
    <2>3. l \in Frames(world) /\ l.name = Top.name /\ l.addToExisting = Top.addToExisting
          /\ l.class = Top.class /\ l.step = Top.step /\ l.found = Unknown
      <3>1. PICK t \in Frames(world) : t = Top
        BY <2>2
      <3>2. l = [t EXCEPT !.ref = t.ref + 1, !.found = Unknown]
        BY <2>1, <3>1
      <3>3. l = [name |-> t.name, addToExisting |-> t.addToExisting, class |-> t.class, step |-> t.step, member |-> t.member,
               ref |-> t.ref + 1, found |-> Unknown]
        BY <3>1, <3>2 DEF Frames
      <3> QED BY <3>1, <3>3 DEF Frames
    <2>4. FrameOK(world, l, DOMAIN classes)
      BY <2>2, <2>3, NoName DEF FrameOK, Parsed
    <2>5. Stacked(world, loads', DOMAIN classes)
      BY <1>2, <1>4, <2>1, <2>3, <2>4, BecomeOK, NoName
    <2> QED BY <1>1, <1>4, <2>5 DEF TInv
  <1> QED BY <1>3, <1>4 DEF Referred

LEMMA AddMemberOK == TInv /\ AddMember => TInv'
  <1> SUFFICES ASSUME TInv, AddMember PROVE TInv'
    OBVIOUS
  <1>1. InMember /\ UNCHANGED <<world, natives>>
    BY DEF AddMember
  <1>2. loads # <<>> /\ Class.name \in DOMAIN classes /\ Member.kind \in Kinds \cup {"bad"}
    BY <1>1, MemberOK
  <1>3. CASE Member.kind = "bad"
    <2>1. Fail /\ classes' = Deleted
      BY <1>3 DEF AddMember
    <2> QED BY <1>1, <1>2, <2>1, FailDeleted
  <1>4. CASE Member.kind # "bad"
    <2>1. /\ Become([Top EXCEPT !.member = @ + 1, !.ref = 1])
          /\ classes' = [classes EXCEPT ![Class.name] = AddTo(@, Member)]
          /\ UNCHANGED answers
      BY <1>4 DEF AddMember
    <2>2. PICK l : l = [Top EXCEPT !.member = @ + 1, !.ref = 1]
      OBVIOUS
    <2>3. Top \in Frames(world) /\ FrameOK(world, Top, DOMAIN classes)
      BY <1>2, TopOK
    <2>4. l \in Frames(world) /\ l.name = Top.name /\ l.addToExisting = Top.addToExisting
          /\ l.class = Top.class /\ l.step = Top.step /\ l.found = Top.found
      <3>1. PICK t \in Frames(world) : t = Top
        BY <2>3
      <3>2. l = [t EXCEPT !.member = t.member + 1, !.ref = 1]
        BY <2>2, <3>1
      <3>3. l = [name |-> t.name, addToExisting |-> t.addToExisting, class |-> t.class, step |-> t.step, member |-> t.member + 1,
               ref |-> 1, found |-> t.found]
        BY <3>1, <3>2 DEF Frames
      <3> QED BY <3>1, <3>3 DEF Frames
    <2>5. FrameOK(world, l, DOMAIN classes)
      BY <2>3, <2>4 DEF FrameOK, Parsed
    <2>6. Stacked(world, loads', DOMAIN classes)
      BY <1>2, <2>1, <2>2, <2>4, <2>5, BecomeOK, NoName
    <2>7. PICK name \in DOMAIN classes : name = Class.name
      BY <1>2
    <2>8. PICK c : c = AddTo(classes[name], Member)
      OBVIOUS
    <2>9. Counts(c) /\ SameFrame(classes[name], c)
      BY <1>2, <1>4, <2>8, AddToOK DEF TInv, ClassesOK
    <2>10. classes' = [classes EXCEPT ![name] = c]
      BY <2>1, <2>7, <2>8
    <2>11. ClassesOK(world, classes') /\ DOMAIN classes' = DOMAIN classes
      BY <2>9, <2>10, ClassChanged DEF TInv
    <2> QED BY <1>1, <2>1, <2>6, <2>11 DEF TInv
  <1> QED BY <1>3, <1>4

(* The class that the file goes on with, if there is one. *)
LEMMA NextClassOK ==
    ASSUME TInv, loads # <<>>, Top.class < Len(world.files[Top.name]),
           Become([Top EXCEPT !.class = @ + 1, !.step = "super", !.found = Unknown])
    PROVE  Stacked(world, loads', DOMAIN classes)
  <1>1. PICK l : l = [Top EXCEPT !.class = @ + 1, !.step = "super", !.found = Unknown]
    OBVIOUS
  <1>2. Top \in Frames(world) /\ FrameOK(world, Top, DOMAIN classes)
    BY TopOK
  <1>3. l \in Frames(world) /\ l.name = Top.name /\ l.addToExisting = Top.addToExisting
        /\ l.class = Top.class + 1 /\ l.step = "super" /\ l.found = Unknown
    <2>1. PICK t \in Frames(world) : t = Top
      BY <1>2
    <2>2. l = [t EXCEPT !.class = t.class + 1, !.step = "super", !.found = Unknown]
      BY <1>1, <2>1
    <2>3. l = [name |-> t.name, addToExisting |-> t.addToExisting, class |-> t.class + 1, step |-> "super", member |-> t.member,
             ref |-> t.ref, found |-> Unknown]
      BY <2>1, <2>2 DEF Frames
    <2> QED BY <2>1, <2>3 DEF Frames
  <1>4. Len(world.files[Top.name]) \in Nat
    BY <1>2, RangeMember, WorldAssumption DEF Frames, TInv
  <1>5. FrameOK(world, l, DOMAIN classes)
    BY <1>2, <1>3, <1>4, NoName DEF FrameOK
  <1> QED BY <1>1, <1>3, <1>5, BecomeOK, NoName

LEMMA EndClassOK == TInv /\ EndClass => TInv'
  <1> SUFFICES ASSUME TInv, EndClass PROVE TInv'
    OBVIOUS
  <1>1. /\ loads # <<>> /\ Top.step = "members" /\ UNCHANGED <<world, natives>>
        /\ classes' = [classes EXCEPT ![Class.name].state = "COMPLETE"]
    BY DEF EndClass, Loading
  <1>2. Class.name \in DOMAIN classes
    BY <1>1, TopOK DEF FrameOK
  <1>3. Stacked(world, loads', DOMAIN classes) /\ Replied(answers')
    <2>1. CASE Top.class < Len(world.files[Top.name])
      BY <1>1, <2>1, NextClassOK DEF EndClass, TInv, Replied
    <2>2. CASE ~(Top.class < Len(world.files[Top.name]))
      <3>1. Return(IF Known(Top.name) THEN Top.name ELSE None)
        BY <2>2 DEF EndClass
      <3>2. PICK answer : answer = IF Known(Top.name) THEN Top.name ELSE None
        OBVIOUS
      <3>3. answer = None \/ (answer \in DOMAIN classes /\ answer = Top.name)
        <4>1. CASE Known(Top.name)
          BY <3>2, <4>1 DEF Known
        <4>2. CASE ~Known(Top.name)
          BY <3>2, <4>2
        <4> QED BY <4>1, <4>2
      <3> QED BY <1>1, <3>1, <3>2, <3>3, ReturnOK
    <2> QED BY <2>1, <2>2
  <1>4. PICK name \in DOMAIN classes : name = Class.name
    BY <1>2
  <1>5. PICK c : c = [classes[name] EXCEPT !.state = "COMPLETE"]
    OBVIOUS
  <1>6. Counts(c) /\ c.state \in States /\ {c.super, c.base} \subseteq DOMAIN classes \cup {None}
    BY <1>5, StateOK DEF TInv, ClassesOK, States
  <1>7. classes' = [n \in DOMAIN classes \cup {name} |-> IF n = name THEN c ELSE classes[n]]
    <2>1. DOMAIN classes \cup {name} = DOMAIN classes
      OBVIOUS
    <2> QED BY <1>1, <1>4, <1>5, <2>1
  <1>8. ClassesOK(world, classes') /\ DOMAIN classes' = DOMAIN classes
    <2>1. name \in ClassNames(world)
      BY DEF TInv, ClassesOK
    <2>2. PICK cl : cl = classes
      OBVIOUS
    <2>3. PICK d : d = classes'
      OBVIOUS
    <2>4. d = [n \in DOMAIN cl \cup {name} |-> IF n = name THEN c ELSE cl[n]]
      BY <1>7, <2>2, <2>3
    <2>5. ClassesOK(world, cl) /\ {c.super, c.base} \subseteq DOMAIN cl \cup {None}
      BY <1>6, <2>2 DEF TInv
    <2>6. ClassesOK(world, d) /\ DOMAIN d = DOMAIN cl \cup {name}
      BY <1>6, <2>1, <2>4, <2>5, ClassPut
    <2> QED BY <2>2, <2>3, <2>6
  <1> QED BY <1>1, <1>3, <1>8 DEF TInv

(* A class is begun: one that is there is added to, a new one is laid out
   behind the class that it extends, which is there. *)
LEMMA BeginEffect ==
    ASSUME TInv, BeginClass
    PROVE  \/ Fail /\ UNCHANGED classes
           \/ \E c :
                /\ Counts(c) /\ c.state \in States
                /\ {c.super, c.base} \subseteq DOMAIN classes \cup {None}
                /\ Class.name \in DOMAIN classes =>
                     /\ Top.addToExisting
                     /\ c.base = classes[Class.name].base
                     /\ c.count = classes[Class.name].count /\ c.fields = classes[Class.name].fields
                /\ Class.name \notin DOMAIN classes =>
                     /\ c.base \in DOMAIN classes => c.base = SuperOf(Class)
                     /\ LaidOut(c, IF c.base = None THEN 1 ELSE classes[c.base].count + 1)
                     /\ c.fields = <<>> /\ c.statics = <<>> /\ c.methods = {}
                /\ classes' = [n \in DOMAIN classes \cup {Class.name} |-> IF n = Class.name THEN c ELSE classes[n]]
                /\ Become([Top EXCEPT !.step = "members", !.member = 1, !.ref = 1, !.found = Unknown])
                /\ UNCHANGED answers
  <1> DEFINE super == IF Class.super = None THEN ObjectClass ELSE Top.found
             refused == Known(Class.name) /\ (classes[Class.name].state = "PARSING" \/ ~Top.addToExisting)
             c0 == IF Known(Class.name) THEN classes[Class.name] ELSE MakeClass(super, super, "INIT")
  <1>1. loads # <<>> /\ Top.step = "super" /\ (Class.super # None => Top.found # Unknown)
    BY DEF BeginClass, Loading
  <1>2. CASE (Class.super # None /\ super = None) \/ refused
    BY <1>2 DEF BeginClass
  <1>3. CASE ~((Class.super # None /\ super = None) \/ refused)
    <2>1. /\ classes' = With(Class.name, [c0 EXCEPT !.state = "PARSING"])
          /\ Become([Top EXCEPT !.step = "members", !.member = 1, !.ref = 1, !.found = Unknown])
          /\ UNCHANGED answers
      BY <1>3 DEF BeginClass
    <2>2. super \in DOMAIN classes \cup {None} /\ (super \in DOMAIN classes => super = SuperOf(Class))
      <3>1. FrameOK(world, Top, DOMAIN classes) /\ Class = Parsed(world, Top)
        BY <1>1, TopOK
      <3>2. CASE Class.super = None
        BY <3>2, NoName DEF ObjectClass, Known, SuperOf
      <3>3. CASE Class.super # None
        BY <1>1, <1>3, <3>1, <3>3, NoName DEF FrameOK
      <3> QED BY <3>2, <3>3
    <2>3. super # None => Counts(classes[super])
      BY <2>2 DEF TInv, ClassesOK
    <2>4. PICK s : s = super
      OBVIOUS
    <2>5. LET m == MakeClass(s, s, "INIT")
          IN  /\ Counts(m) /\ LaidOut(m, IF s = None THEN 1 ELSE classes[s].count + 1)
              /\ m.super = s /\ m.base = s /\ m.fields = <<>> /\ m.statics = <<>> /\ m.methods = {}
      BY <2>3, <2>4, MakeClassOK
    <2>6. /\ Counts(c0) /\ {c0.super, c0.base} \subseteq DOMAIN classes \cup {None}
          /\ Class.name \in DOMAIN classes => c0 = classes[Class.name]
          /\ Class.name \notin DOMAIN classes =>
               /\ c0.base = s /\ LaidOut(c0, IF s = None THEN 1 ELSE classes[s].count + 1)
               /\ c0.fields = <<>> /\ c0.statics = <<>> /\ c0.methods = {}
      <3>1. CASE Class.name \in DOMAIN classes
        <4>1. c0 = classes[Class.name]
          BY <3>1 DEF Known
        <4> QED BY <3>1, <4>1 DEF TInv, ClassesOK
      <3>2. CASE Class.name \notin DOMAIN classes
        <4>1. c0 = MakeClass(s, s, "INIT")
          BY <2>4, <3>2 DEF Known
        <4> QED BY <2>2, <2>4, <2>5, <3>2, <4>1
      <3> QED BY <3>1, <3>2
    <2>7. Class.name \in DOMAIN classes => Top.addToExisting
      BY <1>3 DEF Known
    <2> HIDE DEF c0, super
    <2>8. PICK c : c = [c0 EXCEPT !.state = "PARSING"]
      OBVIOUS
    <2>9. Counts(c) /\ c.super = c0.super /\ c.base = c0.base /\ c.state = "PARSING"
          /\ c.count = c0.count /\ c.fields = c0.fields /\ c.statics = c0.statics /\ c.methods = c0.methods
      BY <2>6, <2>8, StateOK
    <2>10. \A start : LaidOut(c0, start) => LaidOut(c, start)
      BY <2>9 DEF LaidOut
    <2>11. classes' = [n \in DOMAIN classes \cup {Class.name} |-> IF n = Class.name THEN c ELSE classes[n]]
      BY <2>1, <2>8 DEF With
    <2>12. /\ Counts(c) /\ c.state \in States
           /\ {c.super, c.base} \subseteq DOMAIN classes \cup {None}
      BY <2>6, <2>9 DEF States
    <2>13. Class.name \in DOMAIN classes =>
             /\ Top.addToExisting
             /\ c.base = classes[Class.name].base
             /\ c.count = classes[Class.name].count /\ c.fields = classes[Class.name].fields
      BY <2>6, <2>7, <2>9
    <2>14. Class.name \notin DOMAIN classes =>
             /\ c.base \in DOMAIN classes => c.base = SuperOf(Class)
             /\ LaidOut(c, IF c.base = None THEN 1 ELSE classes[c.base].count + 1)
             /\ c.fields = <<>> /\ c.statics = <<>> /\ c.methods = {}
      BY <2>2, <2>4, <2>6, <2>9, <2>10
    <2> QED BY <2>1, <2>11, <2>12, <2>13, <2>14
  <1> QED BY <1>2, <1>3

(* The load on top comes to the members of its class. *)
LEMMA MembersOK ==
    ASSUME TInv, loads # <<>>, Become([Top EXCEPT !.step = "members", !.member = 1, !.ref = 1, !.found = Unknown])
    PROVE  Stacked(world, loads', DOMAIN classes \cup {Class.name})
  <1>1. Top \in Frames(world) /\ FrameOK(world, Top, DOMAIN classes) /\ Class = Parsed(world, Top)
        /\ Class.name \notin {None, Unknown}
    BY TopOK
  <1>2. PICK t \in Frames(world) : t = Top
    BY <1>1
  <1>3. PICK l : l = [Top EXCEPT !.step = "members", !.member = 1, !.ref = 1, !.found = Unknown]
    OBVIOUS
  <1>4. l = [name |-> t.name, addToExisting |-> t.addToExisting, class |-> t.class, step |-> "members",
             member |-> 1, ref |-> 1, found |-> Unknown]
    BY <1>2, <1>3 DEF Frames
  <1>5. l \in Frames(world) /\ l.name = Top.name /\ l.addToExisting = Top.addToExisting
        /\ l.class = Top.class /\ l.step = "members" /\ l.found = Unknown
    BY <1>2, <1>4 DEF Frames
  <1>6. FrameOK(world, l, DOMAIN classes \cup {Class.name})
    BY <1>1, <1>5, NoName DEF FrameOK, Parsed
  <1> QED BY <1>1, <1>3, <1>5, <1>6, BecomeOK, NoName

LEMMA BeginClassOK == TInv /\ BeginClass => TInv'
  <1> SUFFICES ASSUME TInv, BeginClass PROVE TInv'
    OBVIOUS
  <1>1. loads # <<>> /\ UNCHANGED <<world, natives>>
    BY DEF BeginClass, Loading
  <1>2. CASE Fail /\ UNCHANGED classes
    <2>1. Return(None)
      BY <1>2 DEF Fail
    <2>2. Stacked(world, loads', DOMAIN classes) /\ Replied(answers')
      BY <1>1, <2>1, ReturnOK
    <2> QED BY <1>1, <1>2, <2>2 DEF TInv
  <1>3. CASE ~(Fail /\ UNCHANGED classes)
    <2>1. PICK c :
            /\ Counts(c) /\ c.state \in States
            /\ {c.super, c.base} \subseteq DOMAIN classes \cup {None}
            /\ classes' = [n \in DOMAIN classes \cup {Class.name} |-> IF n = Class.name THEN c ELSE classes[n]]
            /\ Become([Top EXCEPT !.step = "members", !.member = 1, !.ref = 1, !.found = Unknown])
            /\ UNCHANGED answers
      BY <1>3, BeginEffect
    <2>2. PICK cl, d, name : cl = classes /\ d = classes' /\ name = Class.name
      OBVIOUS
    <2>3. d = [n \in DOMAIN cl \cup {name} |-> IF n = name THEN c ELSE cl[n]]
      BY <2>1, <2>2
    <2>4. name \in ClassNames(world) /\ ClassesOK(world, cl) /\ {c.super, c.base} \subseteq DOMAIN cl \cup {None}
      BY <1>1, <2>1, <2>2, TopOK DEF TInv
    <2>5. ClassesOK(world, d) /\ DOMAIN d = DOMAIN cl \cup {name}
      BY <2>1, <2>3, <2>4, ClassPut
    <2>6. Stacked(world, loads', DOMAIN classes')
      BY <1>1, <2>1, <2>2, <2>5, MembersOK
    <2> QED BY <1>1, <2>1, <2>2, <2>5, <2>6 DEF TInv
  <1> QED BY <1>2, <1>3

(* A class that is written in C++ is added, and its script is loaded. *)
LEMMA NativeEffect ==
    ASSUME TInv, AddNative
    PROVE  LET name == Head(natives).name
           IN  /\ loads = <<>> /\ UNCHANGED <<world, answers>>
               /\ name \in Natives(world)
               /\ natives' \in Seq(Range(world.natives))
               /\ \/ UNCHANGED <<classes, loads>>
                  \/ /\ name \notin DOMAIN classes
                     /\ loads' = IF name \in DOMAIN world.files THEN <<Load(name, TRUE)>> ELSE <<>>
                     /\ \E c : /\ Counts(c) /\ LaidOut(c, 1) /\ c.state \in States /\ c.base = None
                               /\ c.super \in DOMAIN classes \cup {None}
                               /\ classes' = [n \in DOMAIN classes \cup {name} |->
                                                IF n = name THEN c ELSE classes[n]]
  <1>1. /\ natives # <<>> /\ loads = <<>> /\ natives' = Tail(natives) /\ UNCHANGED <<world, answers>>
    BY DEF AddNative
  <1>2. PICK S, ns : S = Range(world.natives) /\ ns = natives
    OBVIOUS
  <1>3. ns \in Seq(S) /\ ns # <<>>
    BY <1>1, <1>2 DEF TInv
  <1>4. Head(ns) \in S /\ Tail(ns) \in Seq(S)
    BY <1>3, HeadTailProperties
  <1>5. PICK n \in S : n = Head(natives)
    BY <1>2, <1>4
  <1>6. IsSeq(n.members) /\ \A m \in Range(n.members) : m.kind \in Kinds
    BY <1>2, WorldAssumption DEF TInv
  <1>7. CASE ~Known(n.name) /\
             /\ \E state \in States : classes' = With(n.name, Native(n, ObjectClass, state))
             /\ loads' = IF n.name \in DOMAIN world.files THEN <<Load(n.name, TRUE)>> ELSE <<>>
    <2>1. PICK state \in States : classes' = With(n.name, Native(n, ObjectClass, state))
      BY <1>7
    <2>2. PICK super : super = ObjectClass
      OBVIOUS
    <2>3. PICK c : c = Native(n, super, state)
      OBVIOUS
    <2>4. Counts(c) /\ LaidOut(c, 1) /\ c.super = super /\ c.base = None /\ c.state = state
      BY <1>6, <2>3, NativeOK
    <2>5. super \in DOMAIN classes \cup {None}
      BY <2>2 DEF ObjectClass, Known
    <2>6. classes' = [m \in DOMAIN classes \cup {n.name} |-> IF m = n.name THEN c ELSE classes[m]]
      BY <2>1, <2>2, <2>3 DEF With
    <2> QED BY <1>1, <1>2, <1>4, <1>5, <1>7, <2>4, <2>5, <2>6 DEF Known, Natives
  <1>8. CASE UNCHANGED <<classes, loads>>
    BY <1>1, <1>2, <1>4, <1>5, <1>8 DEF Natives
  <1> QED BY <1>5, <1>7, <1>8 DEF AddNative

LEMMA AddNativeOK == TInv /\ AddNative => TInv'
  <1> SUFFICES ASSUME TInv, AddNative PROVE TInv'
    OBVIOUS
  <1>1. PICK name : name = Head(natives).name
    OBVIOUS
  <1>2. /\ loads = <<>> /\ UNCHANGED <<world, answers>>
        /\ name \in Natives(world)
        /\ natives' \in Seq(Range(world.natives))
    BY <1>1, NativeEffect
  <1>3. CASE UNCHANGED <<classes, loads>>
    BY <1>2, <1>3 DEF TInv
  <1>4. CASE ~UNCHANGED <<classes, loads>>
    <2>1. loads' = IF name \in DOMAIN world.files THEN <<Load(name, TRUE)>> ELSE <<>>
      BY <1>1, <1>4, NativeEffect
    <2>2. PICK c : /\ Counts(c) /\ c.state \in States /\ c.base = None
                   /\ c.super \in DOMAIN classes \cup {None}
                   /\ classes' = [n \in DOMAIN classes \cup {name} |-> IF n = name THEN c ELSE classes[n]]
      BY <1>1, <1>4, NativeEffect DEF Natives
    <2>3. name \in ClassNames(world) /\ name \notin {None, Unknown}
      BY <1>2, WorldAssumption DEF TInv, ClassNames, Natives
    <2>4. PICK cl, d : cl = classes /\ d = classes'
      OBVIOUS
    <2>5. d = [n \in DOMAIN cl \cup {name} |-> IF n = name THEN c ELSE cl[n]]
          /\ {c.super, c.base} \subseteq DOMAIN cl \cup {None}
      BY <2>2, <2>4
    <2>6. ClassesOK(world, d) /\ DOMAIN d = DOMAIN cl \cup {name}
      <3>1. ClassesOK(world, cl)
        BY <2>4 DEF TInv
      <3> QED BY <2>2, <2>3, <2>5, <3>1, ClassPut
    <2>7. Stacked(world, loads', DOMAIN classes')
      <3>1. CASE loads' = <<>>
        BY <3>1 DEF Stacked
      <3>2. CASE name \in DOMAIN world.files /\ loads' = <<Load(name, TRUE)>>
        <4>1. PICK l : l = Load(name, TRUE)
          OBVIOUS
        <4>2. l \in Frames(world) /\ l.name = name /\ l.class = 1 /\ l.step = "super" /\ l.found = Unknown
          BY <3>2, <4>1 DEF Load, Frames
        <4>3. Len(world.files[name]) \in Nat \ {0}
          BY <3>2, RangeMember, WorldAssumption DEF TInv
        <4>4. Unknown \notin DOMAIN classes'
          BY <2>3, <2>4, <2>6, NoName
        <4>5. FrameOK(world, l, DOMAIN classes')
          BY <4>2, <4>3, <4>4 DEF FrameOK
        <4>6. PICK ls : ls = loads'
          OBVIOUS
        <4>7. ls = <<l>> /\ Len(ls) = 1 /\ ls[1] = l /\ ls \in Seq(Frames(world))
          <5>1. PICK F : F = Frames(world)
            OBVIOUS
          <5>2. <<l>> \in Seq(F)
            BY <4>2, <5>1
          <5> QED BY <3>2, <4>1, <4>6, <5>1, <5>2
        <4>8. Stacked(world, ls, DOMAIN classes')
          BY <1>2, <4>2, <4>5, <4>7 DEF Stacked
        <4> QED BY <4>6, <4>8
      <3> QED BY <2>1, <3>1, <3>2
    <2> QED BY <1>2, <2>4, <2>6, <2>7 DEF TInv
  <1> QED BY <1>3, <1>4

LEMMA AskOK == TInv /\ Ask => TInv'
  <1> SUFFICES ASSUME TInv, Ask PROVE TInv'
    OBVIOUS
  <1>1. loads = <<>> /\ UNCHANGED <<world, natives, classes>>
    BY DEF Ask, Idle
  <1>2. PICK name \in Asked :
           \/ /\ name \in DOMAIN world.files
              /\ loads' = <<Load(name, FALSE)>>
              /\ UNCHANGED answers
           \/ /\ answers' = [n \in DOMAIN answers \cup {name} |->
                               IF n # name THEN answers[n] ELSE IF Known(name) THEN name ELSE None]
              /\ UNCHANGED loads
    BY DEF Ask
  <1>3. CASE name \in DOMAIN world.files /\ loads' = <<Load(name, FALSE)>> /\ UNCHANGED answers
    <2>1. PICK l : l = Load(name, FALSE)
      OBVIOUS
    <2>2. l \in Frames(world) /\ l.name = name /\ l.class = 1 /\ l.step = "super" /\ l.found = Unknown
          /\ ~l.addToExisting
      BY <1>3, <2>1 DEF Load, Frames
    <2>3. Len(world.files[name]) \in Nat \ {0}
      BY <1>3, RangeMember, WorldAssumption DEF TInv
    <2>4. FrameOK(world, l, DOMAIN classes)
      BY <2>2, <2>3, NoName DEF FrameOK
    <2>5. PICK ls : ls = loads'
      OBVIOUS
    <2>6. ls = <<l>> /\ Len(ls) = 1 /\ ls[1] = l /\ ls \in Seq(Frames(world))
      <3>1. PICK F : F = Frames(world)
        OBVIOUS
      <3>2. <<l>> \in Seq(F)
        BY <2>2, <3>1
      <3> QED BY <1>3, <2>1, <2>5, <3>1, <3>2
    <2>7. Stacked(world, ls, DOMAIN classes)
      BY <2>2, <2>4, <2>6 DEF Stacked
    <2> QED BY <1>1, <1>3, <2>5, <2>7 DEF TInv
  <1>4. CASE /\ answers' = [n \in DOMAIN answers \cup {name} |->
                              IF n # name THEN answers[n] ELSE IF Known(name) THEN name ELSE None]
             /\ UNCHANGED loads
    <2>1. Replied(answers')
      BY <1>4 DEF TInv, Replied
    <2> QED BY <1>1, <1>4, <2>1 DEF TInv
  <1> QED BY <1>2, <1>3, <1>4

LEMMA TInvStep == TInv /\ [Next]_vars => TInv'
  <1> SUFFICES ASSUME TInv, [Next]_vars PROVE TInv'
    OBVIOUS
  <1>1. CASE AddNative BY <1>1, AddNativeOK
  <1>2. CASE Ask BY <1>2, AskOK
  <1>3. CASE FindSuper BY <1>3, FindSuperOK
  <1>4. CASE BeginClass BY <1>4, BeginClassOK
  <1>5. CASE FindReference BY <1>5, FindReferenceOK
  <1>6. CASE Referred BY <1>6, ReferredOK
  <1>7. CASE AddMember BY <1>7, AddMemberOK
  <1>8. CASE EndClass BY <1>8, EndClassOK
  <1>9. CASE UNCHANGED vars
    BY <1>9 DEF vars, TInv
  <1> QED BY <1>1, <1>2, <1>3, <1>4, <1>5, <1>6, <1>7, <1>8, <1>9 DEF Next, Step, Done

-----------------------------------------------------------------------------
(***************************************************************************)
(* Layout: no class is extended while it may still get members             *)
(***************************************************************************)
Sorted == \A w \in Worlds : Layered(w)
Level(w) == CHOOSE level \in [ClassNames(w) -> 0 .. Cardinality(ClassNames(w))] : Layers(w, level)

(* Where the fields of a class begin, as its base is now. *)
Start(cl, c) == IF c.base = None THEN 1 ELSE cl[c.base].count + 1
Slots(cl) == \A n \in DOMAIN cl : LaidOut(cl[n], Start(cl, cl[n]))

(* What is loaded on top of a class is of no higher level. *)
Deep(w, level, ls) ==
    \A i, j \in 1 .. Len(ls) :
      i < j => \A d \in Range(w.files[ls[j].name]) : level[d.name] <= level[Parsed(w, ls[i]).name]

(* The class that a load has come to gets members, or a class written in C++ may get some. *)
Open(l) == l.step = "members" \/ l.addToExisting
Unextended(w, ls, cl) ==
    \A k \in 1 .. Len(ls) : Open(ls[k]) => \A n \in DOMAIN cl : cl[n].base # Parsed(w, ls[k]).name

LInv ==
    /\ TInv
    /\ Slots(classes)
    /\ Deep(world, Level(world), loads)
    /\ Unextended(world, loads, classes)

LEMMA LevelOK ==
    ASSUME Sorted, NEW w \in Worlds
    PROVE  /\ Layers(w, Level(w)) /\ \A n \in ClassNames(w) : Level(w)[n] \in Nat
           /\ \A n \in Range(w.natives) :
                n.name \in DOMAIN w.files => \A d \in Range(w.files[n.name]) : d.name = n.name
  <1>1. PICK levels : levels = [ClassNames(w) -> 0 .. Cardinality(ClassNames(w))]
    OBVIOUS
  <1>2. \E level \in levels : Layers(w, level)
    BY <1>1 DEF Sorted, Layered
  <1>3. Level(w) = CHOOSE level \in levels : Layers(w, level)
    BY <1>1 DEF Level
  <1>4. Level(w) \in levels /\ Layers(w, Level(w))
    BY <1>2, <1>3, Zenon
  <1>5. \A n \in ClassNames(w) : Level(w)[n] \in Nat
    <2>1. PICK level : level = Level(w)
      OBVIOUS
    <2>2. PICK N, b : N = ClassNames(w) /\ b = Cardinality(N)
      OBVIOUS
    <2>3. level \in [N -> 0 .. b]
      BY <1>1, <1>4, <2>1, <2>2
    <2> QED BY <2>1, <2>2, <2>3
  <1> QED BY <1>4, <1>5 DEF Sorted, Layered, OwnScripts

(* A class changes that nobody extends. *)
LEMMA SlotsChanged ==
    ASSUME NEW w, NEW cl, ClassesOK(w, cl), Slots(cl), NEW name \in DOMAIN cl,
           \A n \in DOMAIN cl : cl[n].base # name,
           NEW c, c.base = cl[name].base, LaidOut(c, Start(cl, cl[name])),
           NEW d, DOMAIN d = DOMAIN cl, d[name] = c, \A n \in DOMAIN cl : n # name => d[n] = cl[n]
    PROVE  Slots(d)
  <1>1. ASSUME NEW n \in DOMAIN cl PROVE LaidOut(d[n], Start(d, d[n]))
    <2>1. d[n].base = cl[n].base
      OBVIOUS
    <2>2. cl[n].base # None => cl[n].base \in DOMAIN cl /\ cl[n].base # name
      BY DEF ClassesOK
    <2>3. Start(d, d[n]) = Start(cl, cl[n])
      BY <2>1, <2>2 DEF Start
    <2>4. CASE n = name
      BY <2>3, <2>4
    <2>5. CASE n # name
      <3>1. d[n] = cl[n] /\ LaidOut(cl[n], Start(cl, cl[n]))
        BY <2>5 DEF Slots
      <3> QED BY <2>3, <3>1
    <2> QED BY <2>4, <2>5
  <1> QED BY <1>1 DEF Slots

(* A class is added, behind its base. *)
LEMMA SlotsAdded ==
    ASSUME NEW w, NEW cl, ClassesOK(w, cl), Slots(cl), NEW name, name \notin DOMAIN cl, None \notin DOMAIN cl,
           name # None, NEW c, c.base \in DOMAIN cl \cup {None}, LaidOut(c, Start(cl, c)),
           NEW d, d = [n \in DOMAIN cl \cup {name} |-> IF n = name THEN c ELSE cl[n]]
    PROVE  Slots(d)
  <1>1. DOMAIN d = DOMAIN cl \cup {name}
    OBVIOUS
  <1>2. ASSUME NEW n \in DOMAIN cl \cup {name} PROVE LaidOut(d[n], Start(d, d[n]))
    <2>1. d[n].base # None => d[n].base \in DOMAIN cl
      BY DEF ClassesOK
    <2>2. Start(d, d[n]) = Start(cl, d[n])
      BY <2>1 DEF Start
    <2>3. CASE n = name
      <3>1. d[n] = c
        BY <2>3
      <3> QED BY <2>2, <3>1
    <2>4. CASE n # name
      <3>1. d[n] = cl[n] /\ n \in DOMAIN cl
        BY <2>4
      <3> QED BY <2>2, <3>1 DEF Slots
    <2> QED BY <2>3, <2>4
  <1> QED BY <1>1, <1>2 DEF Slots

LEMMA DeepGoesOn ==
    ASSUME NEW w, NEW level, NEW S, NEW ls \in Seq(S), ls # <<>>, Deep(w, level, ls),
           NEW l \in S, l.name = Last(ls).name
    PROVE  Deep(w, level, Append(Front(ls), l))
  <1>1. PICK t : t = Append(Front(ls), l)
    OBVIOUS
  <1>2. Len(ls) \in Nat \ {0} /\ Last(ls) = ls[Len(ls)]
    BY FrontProperties
  <1>3. Len(t) = Len(ls) /\ t[Len(ls)] = l /\ \A i \in 1 .. Len(ls) - 1 : t[i] = ls[i]
    BY <1>1, TopReplaced
  <1>4. ASSUME NEW i \in 1 .. Len(t), NEW j \in 1 .. Len(t), i < j, NEW d \in Range(w.files[t[j].name])
        PROVE  level[d.name] <= level[Parsed(w, t[i]).name]
    <2>1. t[i] = ls[i] /\ t[j].name = ls[j].name
      BY <1>2, <1>3, <1>4
    <2> QED BY <1>3, <1>4, <2>1 DEF Deep
  <1> QED BY <1>1, <1>4 DEF Deep

LEMMA DeepPush ==
    ASSUME NEW w \in Worlds, NEW level, Layers(w, level), \A n \in ClassNames(w) : level[n] \in Nat,
           NEW known, NEW ls, Stacked(w, ls, known), ls # <<>>, Deep(w, level, ls),
           Parsed(w, Last(ls)) \in Declared(w), Parsed(w, Last(ls)) \in Range(w.files[Last(ls).name]),
           NEW name \in DOMAIN w.files, name \in AsksFor(Parsed(w, Last(ls)))
    PROVE  Deep(w, level, Append(ls, Load(name, FALSE)))
  <1>1. PICK l : l = Load(name, FALSE)
    OBVIOUS
  <1>2. PICK t : t = Append(ls, l)
    OBVIOUS
  <1>3. ls \in Seq(Frames(w)) /\ Len(ls) \in Nat \ {0} /\ Last(ls) = ls[Len(ls)]
    BY FrontProperties DEF Stacked
  <1>4. Len(t) = Len(ls) + 1 /\ t[Len(ls) + 1] = l /\ \A i \in 1 .. Len(ls) : t[i] = ls[i]
    <2>1. l \in Frames(w) \cup {l} /\ ls \in Seq(Frames(w) \cup {l})
      BY <1>3
    <2> QED BY <1>2, <2>1, AppendProperties
  <1>5. l.name = name
    BY <1>1 DEF Load
  <1>6. ASSUME NEW i \in 1 .. Len(t), NEW j \in 1 .. Len(t), i < j, NEW d \in Range(w.files[t[j].name])
        PROVE  level[d.name] <= level[Parsed(w, t[i]).name]
    <2>1. CASE j <= Len(ls)
      BY <1>3, <1>4, <1>6, <2>1 DEF Deep
    <2>2. CASE j = Len(ls) + 1
      <3>1. d \in Range(w.files[name]) /\ t[i] = ls[i] /\ i \in 1 .. Len(ls)
        BY <1>3, <1>4, <1>5, <1>6, <2>2
      <3>2. level[d.name] <= level[Parsed(w, Last(ls)).name]
        BY <3>1 DEF Layers
      <3>3. CASE i = Len(ls)
        BY <1>3, <3>1, <3>2, <3>3
      <3>4. CASE i # Len(ls)
        <4>1. level[Parsed(w, Last(ls)).name] <= level[Parsed(w, ls[i]).name]
          BY <1>3, <3>1, <3>4 DEF Deep
        <4>2. d \in Declared(w) /\ Parsed(w, ls[i]) \in Declared(w)
          <5>1. ls[i].name \in DOMAIN w.files /\ ls[i].class \in 1 .. Len(w.files[ls[i].name])
            <6>1. PICK F : F = Frames(w)
              OBVIOUS
            <6>2. ls[i] \in F
              BY <1>3, <3>1, <6>1
            <6>3. FrameOK(w, ls[i], known)
              BY <3>1 DEF Stacked
            <6> QED BY <6>1, <6>2, <6>3 DEF Frames, FrameOK
          <5>2. Parsed(w, ls[i]) \in Range(w.files[ls[i].name])
            BY <5>1, RangeMember, WorldAssumption DEF Parsed
          <5> QED BY <3>1, <5>1, <5>2 DEF Declared
        <4>3. level[d.name] \in Nat /\ level[Parsed(w, ls[i]).name] \in Nat /\ level[Parsed(w, Last(ls)).name] \in Nat
          BY <4>2 DEF ClassNames, Natives
        <4> QED BY <3>1, <3>2, <4>1, <4>3
      <3> QED BY <3>3, <3>4
    <2> QED BY <1>3, <1>4, <2>1, <2>2
  <1> QED BY <1>1, <1>2, <1>6 DEF Deep

LEMMA DeepPop ==
    ASSUME NEW w, NEW level, NEW ls \in Seq(Frames(w)), ls # <<>>, Front(ls) # <<>>, Deep(w, level, ls),
           NEW answer \in ClassNames(w) \cup {None}
    PROVE  Deep(w, level, Append(Front(Front(ls)), [Last(Front(ls)) EXCEPT !.found = answer]))
  <1>1. PICK t : t = Front(ls)
    OBVIOUS
  <1>2. t \in Seq(Frames(w)) /\ Len(ls) \in Nat \ {0} /\ Len(t) = Len(ls) - 1
        /\ \A k \in 1 .. Len(ls) - 1 : t[k] = ls[k]
    BY <1>1, FrontProperties
  <1>3. Deep(w, level, t)
    <2>1. \A i \in 1 .. Len(t) : i \in 1 .. Len(ls) /\ t[i] = ls[i]
      BY <1>2
    <2> QED BY <2>1 DEF Deep
  <1>4. Last(t) \in Frames(w) /\ t # <<>>
    BY <1>1, <1>2, FrontProperties
  <1>5. PICK l : l = [Last(t) EXCEPT !.found = answer]
    OBVIOUS
  <1>6. l \in Frames(w) /\ l.name = Last(t).name
    BY <1>4, <1>5 DEF Frames
  <1>7. Deep(w, level, Append(Front(t), l))
    BY <1>2, <1>3, <1>4, <1>6, DeepGoesOn
  <1> QED BY <1>1, <1>5, <1>7

(* The load on top goes on, and classes have changed. *)
LEMMA UnextendedOn ==
    ASSUME NEW w, NEW S, NEW ls \in Seq(S), ls # <<>>, NEW l \in S, NEW cl,
           \A k \in 1 .. Len(ls) - 1 : Open(ls[k]) => \A n \in DOMAIN cl : cl[n].base # Parsed(w, ls[k]).name,
           Open(l) => \A n \in DOMAIN cl : cl[n].base # Parsed(w, l).name
    PROVE  Unextended(w, Append(Front(ls), l), cl)
  <1>1. PICK t : t = Append(Front(ls), l)
    OBVIOUS
  <1>2. Len(ls) \in Nat \ {0} /\ Len(t) = Len(ls) /\ t[Len(ls)] = l /\ \A i \in 1 .. Len(ls) - 1 : t[i] = ls[i]
    BY <1>1, TopReplaced, FrontProperties
  <1>3. ASSUME NEW k \in 1 .. Len(t), Open(t[k]), NEW n \in DOMAIN cl PROVE cl[n].base # Parsed(w, t[k]).name
    <2>1. CASE k = Len(ls)
      BY <1>2, <1>3, <2>1
    <2>2. CASE k # Len(ls)
      <3>1. k \in 1 .. Len(ls) - 1 /\ t[k] = ls[k]
        BY <1>2, <2>2
      <3> QED BY <1>3, <3>1
    <2> QED BY <2>1, <2>2
  <1> QED BY <1>1, <1>3 DEF Unextended

LEMMA SameBases ==
    ASSUME NEW w, NEW ls, NEW cl, NEW d, Unextended(w, ls, cl),
           \A n \in DOMAIN d : n \in DOMAIN cl /\ d[n].base = cl[n].base
    PROVE  Unextended(w, ls, d)
  BY DEF Unextended

LEMMA BecomeLayout ==
    ASSUME LInv, loads # <<>>, NEW l \in Frames(world), l.name = Top.name, Become(l), NEW d,
           \A k \in 1 .. Len(loads) - 1 :
             Open(loads[k]) => \A n \in DOMAIN d : d[n].base # Parsed(world, loads[k]).name,
           Open(l) => \A n \in DOMAIN d : d[n].base # Parsed(world, l).name
    PROVE  Deep(world, Level(world), loads') /\ Unextended(world, loads', d)
  <1>1. PICK ls, F, level : ls = loads /\ F = Frames(world) /\ level = Level(world)
    OBVIOUS
  <1>2. ls \in Seq(F) /\ ls # <<>> /\ l \in F /\ l.name = Last(ls).name /\ loads' = Append(Front(ls), l)
    BY <1>1, TopOK DEF LInv, Become, Below, Top
  <1>3. Deep(world, level, ls)
    BY <1>1 DEF LInv
  <1>4. Deep(world, level, Append(Front(ls), l))
    BY <1>2, <1>3, DeepGoesOn
  <1>5. Unextended(world, Append(Front(ls), l), d)
    BY <1>1, <1>2, UnextendedOn
  <1> QED BY <1>1, <1>2, <1>4, <1>5

(* The same where no class comes or goes to another place. *)
LEMMA BecomeSame ==
    ASSUME LInv, loads # <<>>, NEW l \in Frames(world), l.name = Top.name, l.class = Top.class, Become(l),
           Open(l) => Open(Top), NEW d, \A n \in DOMAIN d : n \in DOMAIN classes /\ d[n].base = classes[n].base
    PROVE  Deep(world, Level(world), loads') /\ Unextended(world, loads', d)
  <1>1. Len(loads) \in Nat \ {0} /\ Top = loads[Len(loads)]
    BY TopOK DEF LInv
  <1>2. Unextended(world, loads, d)
    BY SameBases DEF LInv
  <1>3. Parsed(world, l) = Parsed(world, Top)
    BY DEF Parsed
  <1>4. \A k \in 1 .. Len(loads) : Open(loads[k]) => \A n \in DOMAIN d : d[n].base # Parsed(world, loads[k]).name
    BY <1>2 DEF Unextended
  <1>5. Open(l) => \A n \in DOMAIN d : d[n].base # Parsed(world, l).name
    BY <1>1, <1>3, <1>4
  <1>6. \A k \in 1 .. Len(loads) - 1 :
          Open(loads[k]) => \A n \in DOMAIN d : d[n].base # Parsed(world, loads[k]).name
    BY <1>1, <1>4
  <1> QED BY <1>5, <1>6, BecomeLayout

LEMMA ReturnLayout ==
    ASSUME LInv, loads # <<>>, NEW answer \in ClassNames(world) \cup {None}, Return(answer),
           NEW d, \A n \in DOMAIN d : n \in DOMAIN classes /\ d[n].base = classes[n].base
    PROVE  Deep(world, Level(world), loads') /\ Unextended(world, loads', d)
  <1>1. PICK level : level = Level(world)
    OBVIOUS
  <1>2. CASE Below # <<>>
    <2>1. PICK t : t = Front(loads)
      OBVIOUS
    <2>2. PICK l : l = [Last(t) EXCEPT !.found = answer]
      OBVIOUS
    <2>3. loads' = Append(Front(t), l)
      BY <1>2, <2>1, <2>2 DEF Return, Below
    <2>4. loads \in Seq(Frames(world)) /\ Len(loads) \in Nat \ {0}
      BY TopOK DEF LInv
    <2>5. t \in Seq(Frames(world)) /\ t # <<>> /\ Len(t) = Len(loads) - 1
          /\ \A k \in 1 .. Len(t) : t[k] = loads[k]
      BY <1>2, <2>1, <2>4, FrontProperties DEF Below
    <2>6. Last(t) \in Frames(world) /\ Last(t) = t[Len(t)] /\ Len(t) \in Nat \ {0}
      BY <2>5, FrontProperties
    <2>7. /\ l \in Frames(world) /\ l.name = Last(t).name /\ l.class = Last(t).class
          /\ l.step = Last(t).step /\ l.addToExisting = Last(t).addToExisting
      BY <2>2, <2>6 DEF Frames
    <2>8. Deep(world, level, Append(Front(t), l))
      <3>1. PICK ls : ls = loads
        OBVIOUS
      <3>2. ls \in Seq(Frames(world)) /\ ls # <<>> /\ Front(ls) # <<>> /\ Deep(world, level, ls)
        BY <1>1, <2>1, <2>4, <2>5, <3>1 DEF LInv
      <3>3. Deep(world, level, Append(Front(Front(ls)), [Last(Front(ls)) EXCEPT !.found = answer]))
        BY <3>2, DeepPop
      <3> QED BY <2>1, <2>2, <3>1, <3>3
    <2>9. Unextended(world, loads, d)
      BY SameBases DEF LInv
    <2>10. \A k \in 1 .. Len(t) : Open(t[k]) => \A n \in DOMAIN d : d[n].base # Parsed(world, t[k]).name
      BY <2>4, <2>5, <2>9 DEF Unextended
    <2>11. Open(l) => \A n \in DOMAIN d : d[n].base # Parsed(world, l).name
      <3>1. Parsed(world, l) = Parsed(world, Last(t)) /\ (Open(l) => Open(Last(t)))
        BY <2>7 DEF Parsed, Open
      <3> QED BY <2>6, <2>10, <3>1
    <2>12. \A k \in 1 .. Len(t) - 1 : Open(t[k]) => \A n \in DOMAIN d : d[n].base # Parsed(world, t[k]).name
      BY <2>6, <2>10
    <2>13. Unextended(world, Append(Front(t), l), d)
      <3>1. PICK F : F = Frames(world)
        OBVIOUS
      <3>2. t \in Seq(F) /\ t # <<>> /\ l \in F
        BY <2>5, <2>7, <3>1
      <3> QED BY <2>11, <2>12, <3>2, UnextendedOn
    <2> QED BY <1>1, <2>3, <2>8, <2>13
  <1>3. CASE Below = <<>>
    <2>1. loads' = <<>>
      BY <1>3 DEF Return
    <2> QED BY <2>1 DEF Deep, Unextended
  <1> QED BY <1>2, <1>3

(* A class that is asked for is loaded, or found. *)
LEMMA FindLayout ==
    ASSUME Sorted, LInv, loads # <<>>, NEW name, name \in AsksFor(Class), Find(name),
           Top.step = "super" => name = SuperOf(Class)
    PROVE  LInv'
  <1>1. TInv' /\ UNCHANGED <<world, natives, classes, answers>>
    BY FindOK DEF LInv, Find
  <1>2. Top \in Frames(world) /\ Class = Parsed(world, Top) /\ Class \in Declared(world)
        /\ Class \in Range(world.files[Top.name])
    BY TopOK DEF LInv
  <1>3. Deep(world, Level(world), loads') /\ Unextended(world, loads', classes)
    <2>1. CASE ~Known(name) /\ name \in DOMAIN world.files
      <3>1. PICK ls, l, level : ls = loads /\ l = Load(name, FALSE) /\ level = Level(world)
        OBVIOUS
      <3>2. loads' = Append(ls, l)
        BY <2>1, <3>1 DEF Find
      <3>3. Deep(world, level, Append(ls, Load(name, FALSE)))
        <4>1. PICK known : known = DOMAIN classes
          OBVIOUS
        <4>2. world \in Worlds /\ Stacked(world, ls, known) /\ ls # <<>> /\ Deep(world, level, ls)
          BY <3>1, <4>1 DEF LInv, TInv
        <4>3. Layers(world, level) /\ \A n \in ClassNames(world) : level[n] \in Nat
          BY <3>1, <4>2, LevelOK
        <4>4. /\ Parsed(world, Last(ls)) \in Declared(world)
              /\ Parsed(world, Last(ls)) \in Range(world.files[Last(ls).name])
              /\ name \in AsksFor(Parsed(world, Last(ls)))
          BY <1>2, <3>1 DEF Top
        <4> QED BY <2>1, <4>2, <4>3, <4>4, DeepPush
      <3>4. Len(ls) \in Nat /\ Len(Append(ls, l)) = Len(ls) + 1 /\ Append(ls, l)[Len(ls) + 1] = l
            /\ \A i \in 1 .. Len(ls) : Append(ls, l)[i] = ls[i]
        <4>1. PICK F : F = Frames(world)
          OBVIOUS
        <4>2. ls \in Seq(F)
          BY <3>1, <4>1, TopOK DEF LInv
        <4>3. l \in F \cup {l} /\ ls \in Seq(F \cup {l})
          BY <4>2
        <4> QED BY <4>3, AppendProperties
      <3>5. ~Open(l)
        BY <3>1 DEF Open, Load
      <3>6. Unextended(world, Append(ls, l), classes)
        <4>1. PICK t : t = Append(ls, l)
          OBVIOUS
        <4>2. ASSUME NEW k \in 1 .. Len(t), Open(t[k]) PROVE k \in 1 .. Len(ls) /\ t[k] = ls[k]
          BY <3>4, <3>5, <4>1, <4>2
        <4>3. Unextended(world, ls, classes)
          BY <3>1 DEF LInv
        <4> QED BY <4>1, <4>2, <4>3 DEF Unextended
      <3> QED BY <3>1, <3>2, <3>3, <3>6
    <2>2. CASE ~(~Known(name) /\ name \in DOMAIN world.files)
      <3>1. PICK l : l = [Top EXCEPT !.found = IF Known(name) THEN name ELSE None]
        OBVIOUS
      <3>2. Become(l)
        BY <2>2, <3>1 DEF Find
      <3>3. (IF Known(name) THEN name ELSE None) \in ClassNames(world) \cup {None}
        BY DEF Known, LInv, TInv, ClassesOK
      <3>4. l \in Frames(world) /\ l.name = Top.name /\ l.class = Top.class /\ (Open(l) => Open(Top))
        BY <1>2, <3>1, <3>3 DEF Frames, Open
      <3> QED BY <3>2, <3>4, BecomeSame
    <2> QED BY <2>1, <2>2
  <1> QED BY <1>1, <1>3 DEF LInv

LEMMA FindSuperLayout == ASSUME Sorted, LInv, FindSuper PROVE LInv'
  <1>1. loads # <<>> /\ Top.step = "super" /\ Class.super # None /\ Find(Class.super)
    BY DEF FindSuper, Loading
  <1>2. Class.super = SuperOf(Class) /\ Class.super \in AsksFor(Class)
    BY <1>1 DEF SuperOf, AsksFor
  <1> QED BY <1>1, <1>2, FindLayout

LEMMA FindReferenceLayout == ASSUME Sorted, LInv, FindReference PROVE LInv'
  <1>1. InMember /\ Top.ref <= Len(Member.refs) /\ Find(Member.refs[Top.ref].name)
    BY DEF FindReference
  <1>2. loads # <<>> /\ Top.step = "members" /\ Member \in Range(Class.members) /\ IsSeq(Member.refs)
    BY <1>1, MemberOK DEF LInv
  <1>3. Top.ref \in Nat \ {0}
    BY <1>2, TopOK DEF Frames, LInv
  <1>4. Member.refs[Top.ref] \in Range(Member.refs)
    BY <1>1, <1>2, <1>3, RangeMember
  <1>5. Member.refs[Top.ref].name \in AsksFor(Class)
    BY <1>2, <1>4 DEF AsksFor
  <1> QED BY <1>1, <1>2, <1>5, FindLayout

(* The class that the load on top is at, or a class written in C++ that it adds to: nobody extends it. *)
LEMMA NobodyExtends ==
    ASSUME LInv, loads # <<>>, Open(Top)
    PROVE  \A n \in DOMAIN classes : classes[n].base # Class.name
  <1>1. Len(loads) \in Nat \ {0} /\ Top = loads[Len(loads)] /\ Class = Parsed(world, Top)
    BY TopOK DEF LInv
  <1> QED BY <1>1 DEF LInv, Unextended

(* One class that nobody extends changes in its place. *)
LEMMA ClassLayout ==
    ASSUME LInv, loads # <<>>, Open(Top), Class.name \in DOMAIN classes,
           NEW c, c.base = classes[Class.name].base,
           \A start : LaidOut(classes[Class.name], start) => LaidOut(c, start),
           classes' = [classes EXCEPT ![Class.name] = c]
    PROVE  /\ Slots(classes')
           /\ \A n \in DOMAIN classes' : n \in DOMAIN classes /\ classes'[n].base = classes[n].base
  <1>1. PICK cl, d, name : cl = classes /\ d = classes' /\ name = Class.name
    OBVIOUS
  <1>2. name \in DOMAIN cl /\ d = [cl EXCEPT ![name] = c]
    BY <1>1
  <1>3. DOMAIN d = DOMAIN cl /\ d[name] = c /\ \A n \in DOMAIN cl : n # name => d[n] = cl[n]
    BY <1>2
  <1>4. ClassesOK(world, cl) /\ Slots(cl) /\ \A n \in DOMAIN cl : cl[n].base # name
    BY <1>1, NobodyExtends DEF LInv, TInv
  <1>5. name \in DOMAIN cl /\ c.base = cl[name].base
    BY <1>1
  <1>6. LaidOut(c, Start(cl, cl[name]))
    <2>1. LaidOut(cl[name], Start(cl, cl[name]))
      BY <1>4, <1>5 DEF Slots
    <2> QED BY <1>1, <2>1
  <1>7. Slots(d)
    BY <1>3, <1>4, <1>5, <1>6, SlotsChanged
  <1>8. \A n \in DOMAIN d : n \in DOMAIN cl /\ d[n].base = cl[n].base
    BY <1>3, <1>5
  <1> QED BY <1>1, <1>7, <1>8

LEMMA FailDeletedLayout ==
    ASSUME LInv, loads # <<>>, Top.step = "members", Class.name \in DOMAIN classes, Fail, classes' = Deleted,
           UNCHANGED <<world, natives>>
    PROVE  LInv'
  <1>1. TInv'
    BY FailDeleted DEF LInv
  <1>2. PICK name \in DOMAIN classes : name = Class.name
    OBVIOUS
  <1>3. PICK c : c = [classes[name] EXCEPT !.deleted = TRUE]
    OBVIOUS
  <1>4. SameFrame(classes[name], c) /\ c.count = classes[name].count /\ c.fields = classes[name].fields
    BY <1>3, DeletedOK DEF LInv, TInv, ClassesOK
  <1>5. classes' = [classes EXCEPT ![Class.name] = c]
    BY <1>2, <1>3 DEF Deleted
  <1>6. \A start : LaidOut(classes[name], start) => LaidOut(c, start)
    BY <1>4 DEF LaidOut
  <1>7. Open(Top)
    BY DEF Open
  <1>8. /\ Slots(classes')
        /\ \A n \in DOMAIN classes' : n \in DOMAIN classes /\ classes'[n].base = classes[n].base
    BY <1>2, <1>4, <1>5, <1>6, <1>7, ClassLayout DEF SameFrame
  <1>9. Deep(world, Level(world), loads') /\ Unextended(world, loads', classes')
    <2>1. Return(None)
      BY DEF Fail
    <2> QED BY <1>8, <2>1, ReturnLayout
  <1> QED BY <1>1, <1>8, <1>9 DEF LInv

LEMMA ReferredLayout == ASSUME LInv, Referred PROVE LInv'
  <1>1. InMember /\ UNCHANGED <<world, natives>>
    BY DEF Referred
  <1>2. loads # <<>> /\ Top.step = "members" /\ Class.name \in DOMAIN classes
    BY <1>1, MemberOK DEF LInv
  <1>3. CASE Fail /\ classes' = Deleted
    BY <1>1, <1>2, <1>3, FailDeletedLayout
  <1>4. CASE Become([Top EXCEPT !.ref = @ + 1, !.found = Unknown]) /\ UNCHANGED <<classes, answers>>
    <2>1. PICK l : l = [Top EXCEPT !.ref = @ + 1, !.found = Unknown]
      OBVIOUS
    <2>2. l \in Frames(world) /\ l.name = Top.name /\ l.class = Top.class
      <3>1. PICK t \in Frames(world) : t = Top
        BY <1>2, TopOK DEF LInv
      <3>2. l = [t EXCEPT !.ref = t.ref + 1, !.found = Unknown]
        BY <2>1, <3>1
      <3>3. l = [name |-> t.name, addToExisting |-> t.addToExisting, class |-> t.class, step |-> t.step,
                 member |-> t.member, ref |-> t.ref + 1, found |-> Unknown]
        BY <3>1, <3>2 DEF Frames
      <3> QED BY <3>1, <3>3 DEF Frames
    <2>3. Open(Top)
      BY <1>2 DEF Open
    <2>4. Deep(world, Level(world), loads') /\ Unextended(world, loads', classes)
      BY <1>2, <1>4, <2>1, <2>2, <2>3, BecomeSame
    <2>5. TInv'
      BY ReferredOK DEF LInv
    <2> QED BY <1>1, <1>4, <2>4, <2>5 DEF LInv
  <1> QED BY <1>3, <1>4 DEF Referred

LEMMA AddMemberLayout == ASSUME LInv, AddMember PROVE LInv'
  <1>1. InMember /\ UNCHANGED <<world, natives>>
    BY DEF AddMember
  <1>2. loads # <<>> /\ Top.step = "members" /\ Class.name \in DOMAIN classes /\ Member.kind \in Kinds \cup {"bad"}
    BY <1>1, MemberOK DEF LInv
  <1>3. CASE Member.kind = "bad"
    <2>1. Fail /\ classes' = Deleted
      BY <1>3 DEF AddMember
    <2> QED BY <1>1, <1>2, <2>1, FailDeletedLayout
  <1>4. CASE Member.kind # "bad"
    <2>1. /\ Become([Top EXCEPT !.member = @ + 1, !.ref = 1])
          /\ classes' = [classes EXCEPT ![Class.name] = AddTo(@, Member)]
      BY <1>4 DEF AddMember
    <2>2. PICK l : l = [Top EXCEPT !.member = @ + 1, !.ref = 1]
      OBVIOUS
    <2>3. l \in Frames(world) /\ l.name = Top.name /\ l.class = Top.class
      <3>1. PICK t \in Frames(world) : t = Top
        BY <1>2, TopOK DEF LInv
      <3>2. l = [t EXCEPT !.member = t.member + 1, !.ref = 1]
        BY <2>2, <3>1
      <3>3. l = [name |-> t.name, addToExisting |-> t.addToExisting, class |-> t.class, step |-> t.step,
                 member |-> t.member + 1, ref |-> 1, found |-> t.found]
        BY <3>1, <3>2 DEF Frames
      <3> QED BY <3>1, <3>3 DEF Frames
    <2>4. Open(Top)
      BY <1>2 DEF Open
    <2>5. PICK name \in DOMAIN classes : name = Class.name
      BY <1>2
    <2>6. PICK c : c = AddTo(classes[name], Member)
      OBVIOUS
    <2>7. SameFrame(classes[name], c) /\ \A start : LaidOut(classes[name], start) => LaidOut(c, start)
      BY <1>2, <1>4, <2>6, AddToOK DEF LInv, TInv, ClassesOK
    <2>8. classes' = [classes EXCEPT ![Class.name] = c]
      BY <2>1, <2>5, <2>6
    <2>9. /\ Slots(classes')
          /\ \A n \in DOMAIN classes' : n \in DOMAIN classes /\ classes'[n].base = classes[n].base
      BY <1>2, <2>4, <2>5, <2>7, <2>8, ClassLayout DEF SameFrame
    <2>10. Deep(world, Level(world), loads') /\ Unextended(world, loads', classes')
      BY <1>2, <2>1, <2>2, <2>3, <2>4, <2>9, BecomeSame
    <2>11. TInv'
      BY AddMemberOK DEF LInv
    <2> QED BY <1>1, <2>9, <2>10, <2>11 DEF LInv
  <1> QED BY <1>3, <1>4

(* The script of a class written in C++ goes on with that class only. *)
LEMMA SameClassNext ==
    ASSUME Sorted, LInv, loads # <<>>, Top.addToExisting, Top.class < Len(world.files[Top.name]),
           NEW l, l.name = Top.name, l.class = Top.class + 1
    PROVE  Parsed(world, l).name = Class.name
  <1>1. /\ loads \in Seq(Frames(world)) /\ Len(loads) \in Nat \ {0} /\ Top = loads[Len(loads)]
        /\ Top \in Frames(world) /\ FrameOK(world, Top, DOMAIN classes)
        /\ Class \in Range(world.files[Top.name])
    BY TopOK DEF LInv
  <1>2. Stacked(world, loads, DOMAIN classes) /\ world \in Worlds
    BY DEF LInv, TInv
  <1>3. Len(loads) = 1
    <2>1. ASSUME Len(loads) # 1 PROVE FALSE
      <3>1. Len(loads) \in 2 .. Len(loads)
        <4>1. PICK m \in Nat \ {0} : m = Len(loads)
          BY <1>1
        <4> QED BY <2>1, <4>1
      <3>2. ~loads[Len(loads)].addToExisting
        BY <1>2, <3>1 DEF Stacked
      <3> QED BY <1>1, <3>2
    <2> QED BY <2>1
  <1>4. Top.name \in Natives(world)
    BY <1>1, <1>2, <1>3 DEF Stacked
  <1>5. Top.name \in DOMAIN world.files /\ Top.class \in 1 .. Len(world.files[Top.name])
    BY <1>1 DEF Frames, FrameOK
  <1>6. \A d \in Range(world.files[Top.name]) : d.name = Top.name
    BY <1>2, <1>4, <1>5, LevelOK DEF Natives
  <1>7. Parsed(world, l) \in Range(world.files[Top.name])
    BY <1>2, <1>5, RangeMember, WorldAssumption DEF Parsed
  <1> QED BY <1>1, <1>6, <1>7

LEMMA EndClassLayout == ASSUME Sorted, LInv, EndClass PROVE LInv'
  <1>1. /\ loads # <<>> /\ Top.step = "members" /\ UNCHANGED <<world, natives>>
        /\ classes' = [classes EXCEPT ![Class.name].state = "COMPLETE"]
    BY DEF EndClass, Loading
  <1>2. Class.name \in DOMAIN classes /\ Top \in Frames(world)
    BY <1>1, TopOK DEF FrameOK, LInv
  <1>3. PICK name \in DOMAIN classes : name = Class.name
    BY <1>2
  <1>4. PICK c : c = [classes[name] EXCEPT !.state = "COMPLETE"]
    OBVIOUS
  <1>5. c.base = classes[name].base /\ c.count = classes[name].count /\ c.fields = classes[name].fields
    BY <1>4, StateOK DEF LInv, TInv, ClassesOK
  <1>6. \A start : LaidOut(classes[name], start) => LaidOut(c, start)
    BY <1>5 DEF LaidOut
  <1>7. Open(Top)
    BY <1>1 DEF Open
  <1>8. classes' = [classes EXCEPT ![Class.name] = c]
    BY <1>1, <1>3, <1>4
  <1>9. /\ Slots(classes')
        /\ \A n \in DOMAIN classes' : n \in DOMAIN classes /\ classes'[n].base = classes[n].base
    BY <1>1, <1>3, <1>5, <1>6, <1>7, <1>8, ClassLayout
  <1>10. Deep(world, Level(world), loads') /\ Unextended(world, loads', classes')
    <2>1. CASE Top.class < Len(world.files[Top.name])
      <3>1. PICK l : l = [Top EXCEPT !.class = @ + 1, !.step = "super", !.found = Unknown]
        OBVIOUS
      <3>2. PICK t \in Frames(world) : t = Top
        BY <1>2
      <3>3. l = [t EXCEPT !.class = t.class + 1, !.step = "super", !.found = Unknown]
        BY <3>1, <3>2
      <3>4. l = [name |-> t.name, addToExisting |-> t.addToExisting, class |-> t.class + 1, step |-> "super",
                 member |-> t.member, ref |-> t.ref, found |-> Unknown]
        BY <3>2, <3>3 DEF Frames
      <3>5. /\ l \in Frames(world) /\ l.name = Top.name /\ l.class = Top.class + 1
            /\ l.step = "super" /\ l.addToExisting = Top.addToExisting
        BY <3>2, <3>4 DEF Frames
      <3>6. Become(l)
        BY <2>1, <3>1 DEF EndClass
      <3>7. Unextended(world, loads, classes')
        BY <1>9, SameBases DEF LInv
      <3>8. Len(loads) \in Nat \ {0} /\ Top = loads[Len(loads)] /\ Class = Parsed(world, Top)
        BY <1>1, TopOK DEF LInv
      <3>9. \A k \in 1 .. Len(loads) :
              Open(loads[k]) => \A n \in DOMAIN classes' : classes'[n].base # Parsed(world, loads[k]).name
        BY <3>7 DEF Unextended
      <3>10. \A k \in 1 .. Len(loads) - 1 :
               Open(loads[k]) => \A n \in DOMAIN classes' : classes'[n].base # Parsed(world, loads[k]).name
        BY <3>8, <3>9
      <3>11. Open(l) => \A n \in DOMAIN classes' : classes'[n].base # Parsed(world, l).name
        <4>1. SUFFICES ASSUME Open(l) PROVE \A n \in DOMAIN classes' : classes'[n].base # Parsed(world, l).name
          OBVIOUS
        <4>2. Top.addToExisting
          BY <3>5, <4>1 DEF Open
        <4>3. Parsed(world, l).name = Class.name
          BY <1>1, <2>1, <3>5, <4>2, SameClassNext
        <4> QED BY <1>7, <3>8, <3>9, <4>3
      <3>12. PICK d : d = classes'
        OBVIOUS
      <3>13. \A k \in 1 .. Len(loads) - 1 :
               Open(loads[k]) => \A n \in DOMAIN d : d[n].base # Parsed(world, loads[k]).name
        BY <3>10, <3>12
      <3>14. Open(l) => \A n \in DOMAIN d : d[n].base # Parsed(world, l).name
        BY <3>11, <3>12
      <3>15. Deep(world, Level(world), loads') /\ Unextended(world, loads', d)
        BY <1>1, <3>5, <3>6, <3>13, <3>14, BecomeLayout
      <3> QED BY <3>12, <3>15
    <2>2. CASE ~(Top.class < Len(world.files[Top.name]))
      <3>1. PICK answer : answer = IF Known(Top.name) THEN Top.name ELSE None
        OBVIOUS
      <3>2. Return(answer)
        BY <2>2, <3>1 DEF EndClass
      <3>3. answer \in ClassNames(world) \cup {None}
        BY <3>1 DEF Known, LInv, TInv, ClassesOK
      <3> QED BY <1>1, <1>9, <3>2, <3>3, ReturnLayout
    <2> QED BY <2>1, <2>2
  <1>11. TInv'
    BY EndClassOK DEF LInv
  <1> QED BY <1>1, <1>9, <1>10, <1>11 DEF LInv

(* Below a class is no other, that is being added to, which it could extend. *)
LEMMA BaseIsClosed ==
    ASSUME Sorted, LInv, loads # <<>>, NEW base, base \in DOMAIN classes => base = SuperOf(Class),
           base \in DOMAIN classes \cup {None}, NEW k \in 1 .. Len(loads)
    PROVE  base # Parsed(world, loads[k]).name
  <1>1. PICK level : level = Level(world)
    OBVIOUS
  <1>2. Len(loads) \in Nat \ {0} /\ Top = loads[Len(loads)] /\ Class = Parsed(world, Top)
        /\ Class \in Declared(world) /\ Class \in Range(world.files[Top.name])
    BY TopOK DEF LInv
  <1>3. world \in Worlds /\ Stacked(world, loads, DOMAIN classes) /\ Deep(world, level, loads)
        /\ DOMAIN classes \subseteq ClassNames(world)
    BY <1>1 DEF LInv, TInv, ClassesOK
  <1>4. Layers(world, level) /\ \A n \in ClassNames(world) : level[n] \in Nat
    BY <1>1, <1>3, LevelOK
  <1>5. Parsed(world, loads[k]) \in Declared(world)
    <2>1. PICK F : F = Frames(world)
      OBVIOUS
    <2>2. loads[k] \in F
      BY <1>3, <2>1 DEF Stacked
    <2>3. FrameOK(world, loads[k], DOMAIN classes)
      BY <1>3 DEF Stacked
    <2>4. loads[k].name \in DOMAIN world.files /\ loads[k].class \in 1 .. Len(world.files[loads[k].name])
      BY <2>1, <2>2, <2>3 DEF Frames, FrameOK
    <2>5. Parsed(world, loads[k]) \in Range(world.files[loads[k].name])
      BY <1>3, <2>4, RangeMember, WorldAssumption DEF Parsed
    <2> QED BY <2>4, <2>5 DEF Declared
  <1>6. Parsed(world, loads[k]).name \in ClassNames(world) /\ Class.name \in ClassNames(world)
    BY <1>2, <1>5 DEF ClassNames, Natives
  <1>7. CASE base = None
    BY <1>3, <1>6, <1>7, WorldAssumption
  <1>8. CASE base \in DOMAIN classes
    <2>1. level[base] < level[Class.name]
      BY <1>2, <1>3, <1>4, <1>8 DEF Layers
    <2>2. level[Class.name] <= level[Parsed(world, loads[k]).name]
      <3>1. CASE k = Len(loads)
        BY <1>2, <1>4, <1>6, <3>1
      <3>2. CASE k # Len(loads)
        BY <1>2, <1>3, <3>2 DEF Deep
      <3> QED BY <3>1, <3>2
    <2>3. base \in ClassNames(world)
      BY <1>3, <1>8
    <2>4. level[base] \in Nat /\ level[Class.name] \in Nat /\ level[Parsed(world, loads[k]).name] \in Nat
      BY <1>4, <1>6, <2>3
    <2> QED BY <2>1, <2>2, <2>4
  <1> QED BY <1>7, <1>8

LEMMA BeginClassLayout == ASSUME Sorted, LInv, BeginClass PROVE LInv'
  <1>1. loads # <<>> /\ UNCHANGED <<world, natives>>
    BY DEF BeginClass, Loading
  <1>2. TInv'
    BY BeginClassOK DEF LInv
  <1>3. CASE Fail /\ UNCHANGED classes
    <2>1. Return(None)
      BY <1>3 DEF Fail
    <2>2. Deep(world, Level(world), loads') /\ Unextended(world, loads', classes)
      BY <1>1, <2>1, ReturnLayout
    <2> QED BY <1>1, <1>2, <1>3, <2>2 DEF LInv
  <1>4. CASE ~(Fail /\ UNCHANGED classes)
    <2>1. PICK c :
            /\ Counts(c) /\ {c.super, c.base} \subseteq DOMAIN classes \cup {None}
            /\ Class.name \in DOMAIN classes =>
                 /\ Top.addToExisting
                 /\ c.base = classes[Class.name].base
                 /\ c.count = classes[Class.name].count /\ c.fields = classes[Class.name].fields
            /\ Class.name \notin DOMAIN classes =>
                 /\ c.base \in DOMAIN classes => c.base = SuperOf(Class)
                 /\ LaidOut(c, IF c.base = None THEN 1 ELSE classes[c.base].count + 1)
            /\ classes' = [n \in DOMAIN classes \cup {Class.name} |-> IF n = Class.name THEN c ELSE classes[n]]
            /\ Become([Top EXCEPT !.step = "members", !.member = 1, !.ref = 1, !.found = Unknown])
      BY <1>4, BeginEffect DEF LInv
    <2>2. PICK cl, d, name : cl = classes /\ d = classes' /\ name = Class.name
      OBVIOUS
    <2>3. d = [n \in DOMAIN cl \cup {name} |-> IF n = name THEN c ELSE cl[n]]
      BY <2>1, <2>2
    <2>4. PICK l : l = [Top EXCEPT !.step = "members", !.member = 1, !.ref = 1, !.found = Unknown]
      OBVIOUS
    <2>5. /\ l \in Frames(world) /\ l.name = Top.name /\ l.class = Top.class
          /\ l.step = "members" /\ l.addToExisting = Top.addToExisting
      <3>1. PICK t \in Frames(world) : t = Top
        BY <1>1, TopOK DEF LInv
      <3>2. l = [t EXCEPT !.step = "members", !.member = 1, !.ref = 1, !.found = Unknown]
        BY <2>4, <3>1
      <3>3. l = [name |-> t.name, addToExisting |-> t.addToExisting, class |-> t.class, step |-> "members",
                 member |-> 1, ref |-> 1, found |-> Unknown]
        BY <3>1, <3>2 DEF Frames
      <3> QED BY <3>1, <3>3 DEF Frames
    <2>6. Become(l)
      BY <2>1, <2>4
    <2>7. ClassesOK(world, cl) /\ Slots(cl) /\ Unextended(world, loads, cl) /\ None \notin DOMAIN cl
      BY <2>2, NoName DEF LInv, TInv
    <2>8. CASE name \in DOMAIN cl
      <3>1. /\ Top.addToExisting /\ c.base = cl[name].base
            /\ c.count = cl[name].count /\ c.fields = cl[name].fields
        BY <2>1, <2>2, <2>8
      <3>2. Open(Top)
        BY <3>1 DEF Open
      <3>3. \A n \in DOMAIN cl : cl[n].base # name
        BY <1>1, <2>2, <3>2, NobodyExtends
      <3>4. DOMAIN d = DOMAIN cl /\ d[name] = c /\ \A n \in DOMAIN cl : n # name => d[n] = cl[n]
        BY <2>3, <2>8
      <3>5. LaidOut(c, Start(cl, cl[name]))
        <4>1. LaidOut(cl[name], Start(cl, cl[name]))
          BY <2>7, <2>8 DEF Slots
        <4> QED BY <3>1, <4>1 DEF LaidOut
      <3>6. Slots(d)
        BY <2>7, <2>8, <3>1, <3>3, <3>4, <3>5, SlotsChanged
      <3>7. \A n \in DOMAIN d : n \in DOMAIN classes /\ d[n].base = classes[n].base
        BY <2>2, <3>1, <3>4
      <3>8. Deep(world, Level(world), loads') /\ Unextended(world, loads', d)
        BY <1>1, <2>5, <2>6, <3>2, <3>7, BecomeSame
      <3> QED BY <1>1, <1>2, <2>2, <3>6, <3>8 DEF LInv
    <2>9. CASE name \notin DOMAIN cl
      <3>1. /\ c.base \in DOMAIN cl => c.base = SuperOf(Class)
            /\ LaidOut(c, Start(cl, c)) /\ c.base \in DOMAIN cl \cup {None}
        BY <2>1, <2>2, <2>9 DEF Start
      <3>2. name # None /\ Class = Parsed(world, Top)
        BY <1>1, <2>2, TopOK DEF LInv
      <3>3. Slots(d)
        BY <2>3, <2>7, <2>9, <3>1, <3>2, SlotsAdded
      <3>4. \A k \in 1 .. Len(loads) : c.base # Parsed(world, loads[k]).name
        BY <1>1, <2>2, <3>1, BaseIsClosed
      <3>5. Len(loads) \in Nat \ {0} /\ Top = loads[Len(loads)]
        BY <1>1, TopOK DEF LInv
      <3>6. \A n \in DOMAIN d : d[n] = c \/ (n \in DOMAIN cl /\ d[n] = cl[n])
        BY <2>3
      <3>7. \A k \in 1 .. Len(loads) :
              Open(loads[k]) => \A n \in DOMAIN d : d[n].base # Parsed(world, loads[k]).name
        BY <2>7, <3>4, <3>6 DEF Unextended
      <3>8. \A k \in 1 .. Len(loads) - 1 :
              Open(loads[k]) => \A n \in DOMAIN d : d[n].base # Parsed(world, loads[k]).name
        BY <3>5, <3>7
      <3>9. \A n \in DOMAIN d : d[n].base # Parsed(world, l).name
        <4>1. Parsed(world, l).name = name
          BY <2>2, <2>5, <3>2 DEF Parsed
        <4>2. c.base # name
          BY <2>2, <3>2, <3>4, <3>5
        <4>3. \A n \in DOMAIN cl : cl[n].base # name
          BY <2>7, <2>9, <3>2 DEF ClassesOK
        <4> QED BY <3>6, <4>1, <4>2, <4>3
      <3>10. Deep(world, Level(world), loads') /\ Unextended(world, loads', d)
        BY <1>1, <2>5, <2>6, <3>8, <3>9, BecomeLayout
      <3> QED BY <1>1, <1>2, <2>2, <3>3, <3>10 DEF LInv
    <2> QED BY <2>8, <2>9
  <1> QED BY <1>3, <1>4

(* The only load, which begins its file. *)
LEMMA FirstLoad ==
    ASSUME NEW w, NEW level, NEW cl, NEW l, l.step = "super",
           l.addToExisting => \A n \in DOMAIN cl : cl[n].base # Parsed(w, l).name
    PROVE  Deep(w, level, <<l>>) /\ Unextended(w, <<l>>, cl)
  <1>1. Len(<<l>>) = 1 /\ <<l>>[1] = l
    OBVIOUS
  <1>2. PICK ls : ls = <<l>>
    OBVIOUS
  <1>3. Deep(w, level, ls) /\ Unextended(w, ls, cl)
    BY <1>1, <1>2 DEF Deep, Unextended, Open
  <1> QED BY <1>2, <1>3

LEMMA NoLoad == ASSUME NEW w, NEW level, NEW cl PROVE Deep(w, level, <<>>) /\ Unextended(w, <<>>, cl)
  BY DEF Deep, Unextended

LEMMA AddNativeLayout == ASSUME Sorted, LInv, AddNative PROVE LInv'
  <1>1. TInv'
    BY AddNativeOK DEF LInv
  <1>2. PICK name : name = Head(natives).name
    OBVIOUS
  <1>3. /\ loads = <<>> /\ UNCHANGED <<world, answers>>
        /\ name \in Natives(world)
        /\ \/ UNCHANGED <<classes, loads>>
           \/ /\ name \notin DOMAIN classes
              /\ loads' = IF name \in DOMAIN world.files THEN <<Load(name, TRUE)>> ELSE <<>>
              /\ \E c : /\ LaidOut(c, 1) /\ c.base = None
                        /\ classes' = [n \in DOMAIN classes \cup {name} |-> IF n = name THEN c ELSE classes[n]]
    BY <1>2, NativeEffect DEF LInv, Natives
  <1>4. CASE UNCHANGED <<classes, loads>>
    BY <1>1, <1>3, <1>4 DEF LInv
  <1>5. CASE ~UNCHANGED <<classes, loads>>
    <2>1. PICK c : /\ LaidOut(c, 1) /\ c.base = None
                   /\ classes' = [n \in DOMAIN classes \cup {name} |-> IF n = name THEN c ELSE classes[n]]
      BY <1>3, <1>5
    <2>2. PICK cl, d : cl = classes /\ d = classes'
      OBVIOUS
    <2>3. d = [n \in DOMAIN cl \cup {name} |-> IF n = name THEN c ELSE cl[n]]
      BY <2>1, <2>2
    <2>4. ClassesOK(world, cl) /\ Slots(cl) /\ None \notin DOMAIN cl /\ world \in Worlds
      BY <2>2, NoName DEF LInv, TInv
    <2>5. name \notin DOMAIN cl /\ name # None
      <3>1. name \in ClassNames(world)
        BY <1>3 DEF ClassNames, Natives
      <3> QED BY <1>3, <1>5, <2>2, <2>4, <3>1, WorldAssumption
    <2>6. LaidOut(c, Start(cl, c))
      BY <2>1 DEF Start
    <2>7. Slots(d)
      BY <2>1, <2>3, <2>4, <2>5, <2>6, SlotsAdded
    <2>8. \A n \in DOMAIN d : d[n].base # name
      <3>1. \A n \in DOMAIN d : d[n] = c \/ (n \in DOMAIN cl /\ d[n] = cl[n])
        BY <2>3
      <3>2. \A n \in DOMAIN cl : cl[n].base # name
        BY <2>4, <2>5 DEF ClassesOK
      <3> QED BY <2>1, <2>5, <3>1, <3>2
    <2>9. CASE name \in DOMAIN world.files
      <3>1. PICK l : l = Load(name, TRUE)
        OBVIOUS
      <3>2. l.name = name /\ l.class = 1 /\ l.step = "super"
        BY <3>1 DEF Load
      <3>3. Parsed(world, l).name = name
        <4>1. Parsed(world, l) \in Range(world.files[name])
          BY <2>4, <2>9, <3>2, RangeMember, WorldAssumption DEF Parsed
        <4> QED BY <1>3, <2>4, <2>9, <4>1, LevelOK DEF Natives
      <3>4. loads' = <<l>>
        BY <1>3, <1>5, <2>9, <3>1
      <3>5. Deep(world, Level(world), <<l>>) /\ Unextended(world, <<l>>, d)
        BY <2>8, <3>2, <3>3, FirstLoad
      <3> QED BY <1>1, <1>3, <2>2, <2>7, <3>4, <3>5 DEF LInv
    <2>10. CASE name \notin DOMAIN world.files
      <3>1. loads' = <<>>
        BY <1>3, <1>5, <2>10
      <3> QED BY <1>1, <1>3, <2>2, <2>7, <3>1, NoLoad DEF LInv
    <2> QED BY <2>9, <2>10
  <1> QED BY <1>4, <1>5

LEMMA AskLayout == ASSUME LInv, Ask PROVE LInv'
  <1>1. UNCHANGED <<world, natives, classes>>
    BY DEF Ask
  <1>2. TInv'
    BY AskOK DEF LInv
  <1>3. CASE UNCHANGED loads
    BY <1>1, <1>2, <1>3 DEF LInv
  <1>4. CASE ~UNCHANGED loads
    <2>1. PICK name : loads' = <<Load(name, FALSE)>>
      BY <1>4 DEF Ask
    <2>2. PICK l : l = Load(name, FALSE)
      OBVIOUS
    <2>3. l.step = "super" /\ ~l.addToExisting
      BY <2>2 DEF Load
    <2>4. Deep(world, Level(world), <<l>>) /\ Unextended(world, <<l>>, classes)
      BY <2>3, FirstLoad
    <2> QED BY <1>1, <1>2, <2>1, <2>2, <2>4 DEF LInv
  <1> QED BY <1>3, <1>4

LEMMA InitLInv == Init => LInv
  <1> SUFFICES ASSUME Init PROVE LInv
    OBVIOUS
  <1>1. TInv
    BY InitTInv
  <1>2. classes = <<>> /\ loads = <<>>
    BY DEF Init
  <1>3. Slots(classes)
    BY <1>2 DEF Slots
  <1> QED BY <1>1, <1>2, <1>3, NoLoad DEF LInv

LEMMA LInvStep == ASSUME Sorted, LInv, [Next]_vars PROVE LInv'
  <1>1. CASE AddNative BY <1>1, AddNativeLayout
  <1>2. CASE Ask BY <1>2, AskLayout
  <1>3. CASE FindSuper BY <1>3, FindSuperLayout
  <1>4. CASE BeginClass BY <1>4, BeginClassLayout
  <1>5. CASE FindReference BY <1>5, FindReferenceLayout
  <1>6. CASE Referred BY <1>6, ReferredLayout
  <1>7. CASE AddMember BY <1>7, AddMemberLayout
  <1>8. CASE EndClass BY <1>8, EndClassLayout
  <1>9. CASE UNCHANGED vars
    <2>1. TInv'
      BY <1>9, TInvStep DEF LInv
    <2> QED BY <1>9, <2>1 DEF vars, LInv
  <1> QED BY <1>1, <1>2, <1>3, <1>4, <1>5, <1>6, <1>7, <1>8, <1>9 DEF Next, Step, Done

-----------------------------------------------------------------------------
(***************************************************************************)
(* The classes below a class                                               *)
(***************************************************************************)
LEMMA BaseBelow ==
    ASSUME TInv, NEW n \in DOMAIN classes, NEW m \in Bases(n)
    PROVE  m \in DOMAIN classes /\ classes[m].base \in Bases(n) \cup {None}
  <1>1. m \in DOMAIN classes /\ classes[m].base \in DOMAIN classes \cup {None}
    BY DEF Bases, TInv, ClassesOK
  <1>2. CASE classes[m].base # None
    <2>1. ASSUME NEW S \in SUBSET DOMAIN classes, n \in S, \A k \in S : classes[k].base \in S \cup {None}
          PROVE  classes[m].base \in S
      <3>1. m \in S
        BY <2>1 DEF Bases
      <3> QED BY <1>2, <2>1, <3>1
    <2> QED BY <1>1, <1>2, <2>1 DEF Bases
  <1> QED BY <1>1, <1>2

(* A class, and what its superclass is laid out behind. *)
LEMMA BasesOf ==
    ASSUME TInv, NEW n \in DOMAIN classes, NEW b \in Bases(n), b # n
    PROVE  classes[n].base \in DOMAIN classes /\ b \in Bases(classes[n].base)
  <1>1. classes[n].base \in DOMAIN classes \cup {None}
    BY DEF TInv, ClassesOK
  <1>2. \A S \in SUBSET DOMAIN classes :
          n \in S /\ (\A m \in S : classes[m].base \in S \cup {None}) => b \in S
    BY DEF Bases
  <1>3. CASE classes[n].base = None
    <2>1. {n} \in SUBSET DOMAIN classes /\ \A m \in {n} : classes[m].base \in {n} \cup {None}
      BY <1>3
    <2>2. b \in {n}
      BY <1>2, <2>1
    <2> QED BY <2>2
  <1>4. CASE classes[n].base \in DOMAIN classes
    <2>1. PICK p \in DOMAIN classes : p = classes[n].base
      BY <1>4
    <2>2. PICK S : S = {n} \cup Bases(p)
      OBVIOUS
    <2>3. S \in SUBSET DOMAIN classes
      BY <2>2 DEF Bases
    <2>4. p \in Bases(p)
      BY <2>1 DEF Bases
    <2>5. \A m \in S : classes[m].base \in S \cup {None}
      BY <2>1, <2>2, <2>4, BaseBelow
    <2>6. b \in S
      BY <1>2, <2>2, <2>3, <2>5
    <2> QED BY <2>1, <2>2, <2>6
  <1> QED BY <1>1, <1>3, <1>4

(* The fields of a class and of those below it. *)
Apart(n) ==
    /\ \A b \in Bases(n) : \A e \in Range(classes[b].fields) : e.id \in 1 .. classes[n].count - 1
    /\ \A b, c \in Bases(n) : \A e \in Range(classes[b].fields), f \in Range(classes[c].fields) :
         e.id = f.id => b = c /\ e = f

LEMMA ApartStep ==
    ASSUME LInv, NEW n \in DOMAIN classes,
           classes[n].base # None /\ classes[classes[n].base].count < classes[n].count => Apart(classes[n].base)
    PROVE  Apart(n)
  <1>1. TInv /\ classes[n].base \in DOMAIN classes \cup {None} /\ None \notin DOMAIN classes
    BY NoName DEF LInv, TInv, ClassesOK
  <1>2. PICK start : start = Start(classes, classes[n])
    OBVIOUS
  <1>3. PICK own, count : own = Range(classes[n].fields) /\ count = classes[n].count
    OBVIOUS
  <1>4. /\ start \in Nat \ {0} /\ count \in Nat \ {0} /\ start <= count
        /\ \A e \in own : e.id \in Nat /\ start <= e.id /\ e.id < count
        /\ \A d, e \in own : d.id = e.id => d = e
    BY <1>2, <1>3 DEF LInv, TInv, ClassesOK, Slots, LaidOut, Counts
  <1>5. ASSUME NEW b \in Bases(n), b # n, NEW e \in Range(classes[b].fields)
        PROVE  /\ classes[n].base # None /\ b \in Bases(classes[n].base) /\ Apart(classes[n].base)
               /\ e.id \in Nat /\ 1 <= e.id /\ e.id < start
    <2>1. PICK p \in DOMAIN classes : p = classes[n].base
      BY <1>1, <1>5, BasesOf
    <2>2. b \in Bases(p) /\ p # None
      BY <1>1, <1>5, <2>1, BasesOf
    <2>3. start = classes[p].count + 1 /\ classes[p].count \in Nat
      BY <1>1, <1>2, <2>1, <2>2 DEF Start, TInv, ClassesOK, Counts
    <2>4. Apart(p)
      BY <1>3, <1>4, <2>1, <2>2, <2>3
    <2>5. e.id \in 1 .. classes[p].count - 1
      BY <1>5, <2>2, <2>4 DEF Apart
    <2> QED BY <2>1, <2>2, <2>3, <2>4, <2>5
  <1>6. ASSUME NEW b \in Bases(n), NEW e \in Range(classes[b].fields) PROVE e.id \in 1 .. classes[n].count - 1
    <2>1. CASE b = n
      BY <1>3, <1>4, <1>6, <2>1
    <2>2. CASE b # n
      BY <1>3, <1>4, <1>5, <1>6, <2>2
    <2> QED BY <2>1, <2>2
  <1>7. ASSUME NEW b \in Bases(n), NEW c \in Bases(n),
               NEW e \in Range(classes[b].fields), NEW f \in Range(classes[c].fields), e.id = f.id
        PROVE  b = c /\ e = f
    <2>1. CASE b = n /\ c = n
      BY <1>3, <1>4, <1>7, <2>1
    <2>2. CASE b = n /\ c # n
      <3>1. f.id \in Nat /\ f.id < start
        BY <1>5, <2>2
      <3>2. e.id \in Nat /\ start <= e.id
        BY <1>3, <1>4, <2>2
      <3> QED BY <1>4, <1>7, <3>1, <3>2
    <2>3. CASE b # n /\ c = n
      <3>1. e.id \in Nat /\ e.id < start
        BY <1>5, <2>3
      <3>2. f.id \in Nat /\ start <= f.id
        BY <1>3, <1>4, <2>3
      <3> QED BY <1>4, <1>7, <3>1, <3>2
    <2>4. CASE b # n /\ c # n
      <3>1. b \in Bases(classes[n].base) /\ c \in Bases(classes[n].base) /\ Apart(classes[n].base)
        BY <1>5, <2>4
      <3> QED BY <1>7, <3>1 DEF Apart
    <2> QED BY <2>1, <2>2, <2>3, <2>4
  <1> QED BY <1>6, <1>7 DEF Apart

LEMMA AllApart ==
    ASSUME LInv, NEW n \in DOMAIN classes
    PROVE  Apart(n)
  <1> DEFINE T == {k \in Nat : \A m \in DOMAIN classes : classes[m].count <= k => Apart(m)}
  <1>1. \A m \in DOMAIN classes : classes[m].count \in Nat \ {0}
    BY DEF LInv, TInv, ClassesOK, Counts
  <1>2. 0 \in T
    BY <1>1
  <1>3. ASSUME NEW k \in Nat, \A m \in DOMAIN classes : classes[m].count <= k => Apart(m),
               NEW m \in DOMAIN classes, classes[m].count <= k + 1
        PROVE  Apart(m)
    <2>1. ASSUME classes[m].base # None, classes[classes[m].base].count < classes[m].count
          PROVE  Apart(classes[m].base)
      <3>1. PICK p \in DOMAIN classes : p = classes[m].base
        BY <2>1 DEF LInv, TInv, ClassesOK
      <3>2. classes[p].count <= k
        BY <1>1, <1>3, <2>1, <3>1
      <3> QED BY <1>3, <3>1, <3>2
    <2> QED BY <2>1, ApartStep
  <1>4. \A k \in Nat : k \in T => k + 1 \in T
    BY <1>3
  <1> HIDE DEF T
  <1>5. Nat \subseteq T
    BY <1>2, <1>4, Induction
  <1> QED BY <1>1, <1>5 DEF T

LEMMA LInvFields == LInv => FieldsApart
  <1> SUFFICES ASSUME LInv, NEW n \in DOMAIN classes
               PROVE  LET slots == UNION {{<<b, e.name, e.id>> : e \in Range(classes[b].fields)} : b \in Bases(n)}
                      IN  /\ \A s \in slots : s[3] \in 1 .. classes[n].count - 1
                          /\ \A s, t \in slots : s[3] = t[3] => s = t
    BY DEF FieldsApart
  <1> DEFINE slots == UNION {{<<b, e.name, e.id>> : e \in Range(classes[b].fields)} : b \in Bases(n)}
  <1>1. Apart(n)
    BY AllApart
  <1>2. \A s \in slots : \E b \in Bases(n) : \E e \in Range(classes[b].fields) : s = <<b, e.name, e.id>>
    OBVIOUS
  <1>3. ASSUME NEW s \in slots PROVE s[3] \in 1 .. classes[n].count - 1
    <2>1. PICK b \in Bases(n) : \E e \in Range(classes[b].fields) : s = <<b, e.name, e.id>>
      BY <1>2
    <2>2. PICK e \in Range(classes[b].fields) : s = <<b, e.name, e.id>>
      BY <2>1
    <2> QED BY <1>1, <2>2 DEF Apart
  <1>4. ASSUME NEW s \in slots, NEW t \in slots, s[3] = t[3] PROVE s = t
    <2>1. PICK b \in Bases(n) : \E e \in Range(classes[b].fields) : s = <<b, e.name, e.id>>
      BY <1>2
    <2>2. PICK c \in Bases(n) : \E f \in Range(classes[c].fields) : t = <<c, f.name, f.id>>
      BY <1>2
    <2>3. PICK e \in Range(classes[b].fields) : s = <<b, e.name, e.id>>
      BY <2>1
    <2>4. PICK f \in Range(classes[c].fields) : t = <<c, f.name, f.id>>
      BY <2>2
    <2>5. e.id = f.id
      BY <1>4, <2>3, <2>4
    <2>6. b = c /\ e = f
      BY <1>1, <2>5 DEF Apart
    <2> QED BY <2>3, <2>4, <2>6
  <1> QED BY <1>3, <1>4

LEMMA TInvTypes == TInv => TypeOK
  <1> SUFFICES ASSUME TInv PROVE TypeOK
    OBVIOUS
  <1>1. ASSUME NEW n \in DOMAIN classes
        PROVE  LET c == classes[n]
               IN  /\ {c.super, c.base} \subseteq DOMAIN classes \cup {None}
                   /\ c.state \in States
                   /\ c.count \in Nat /\ c.staticStart \in 0 .. c.staticCount
    <2>1. Counts(classes[n]) /\ {classes[n].super, classes[n].base} \subseteq DOMAIN classes \cup {None}
          /\ classes[n].state \in States
      BY DEF TInv, ClassesOK
    <2> QED BY <2>1 DEF Counts
  <1>2. ASSUME NEW k \in DOMAIN loads PROVE loads[k].name \in DOMAIN world.files
    <2>1. PICK F : F = Frames(world)
      OBVIOUS
    <2>2. loads \in Seq(F)
      BY <2>1 DEF TInv, Stacked
    <2>3. loads[k] \in F
      BY <2>2
    <2> QED BY <2>1, <2>3 DEF Frames
  <1>3. \A n \in DOMAIN answers : answers[n] \in {n, None}
    BY DEF TInv, Replied
  <1> QED BY <1>1, <1>2, <1>3 DEF TypeOK

-----------------------------------------------------------------------------
(***************************************************************************)
(* Members: what a class of a script has got so far                        *)
(***************************************************************************)
Names(entries) == {e.name : e \in Range(entries)}
Given(d, k, kind) == {d.members[i].name : i \in {j \in 1 .. k : d.members[j].kind = kind}}

(* The class c has those of the first k members that d declares, and no other. *)
Has(c, d, k) ==
    /\ IsSeq(c.fields) /\ IsSeq(c.statics)
    /\ c.methods = Given(d, k, "method")
    /\ Names(c.fields) = Given(d, k, "field")
    /\ Names(c.statics) = Given(d, k, "static")

(* No class of a script is declared twice. *)
Once == \A w \in Worlds : DeclaredOnce(w)

(* A load that is among the members of the class n. *)
Fills(w, l, n) == l.step = "members" /\ Parsed(w, l).name = n

Complete(w, c, n) == \E d \in Declared(w) : d.name = n /\ c.state = "COMPLETE" /\ Has(c, d, Len(d.members))

Filled(w, ls, cl) ==
    \A k \in 1 .. Len(ls) : \A n \in DOMAIN cl \ Natives(w) :
      Fills(w, ls[k], n) =>
        ls[k].member <= Len(Parsed(w, ls[k]).members) + 1 /\ Has(cl[n], Parsed(w, ls[k]), ls[k].member - 1)
OneLoad(w, ls) ==
    \A i, j \in 1 .. Len(ls) : ls[i].step = "members" /\ Fills(w, ls[j], Parsed(w, ls[i]).name) => i = j
Settled(w, ls, cl) ==
    \A n \in DOMAIN cl \ Natives(w) :
      cl[n].deleted \/ (\E k \in 1 .. Len(ls) : Fills(w, ls[k], n)) \/ Complete(w, cl[n], n)

WOK(w, ls, cl) == Filled(w, ls, cl) /\ OneLoad(w, ls) /\ Settled(w, ls, cl)
WInv == TInv /\ WOK(world, loads, classes)

LEMMA GivenNext ==
    ASSUME NEW d, NEW k \in Nat, NEW kind
    PROVE  /\ d.members[k + 1].kind = kind =>
                Given(d, k + 1, kind) = Given(d, k, kind) \cup {d.members[k + 1].name}
           /\ d.members[k + 1].kind # kind => Given(d, k + 1, kind) = Given(d, k, kind)
  <1>1. PICK ms : ms = d.members
    OBVIOUS
  <1>2. {j \in 1 .. k + 1 : ms[j].kind = kind} =
           {j \in 1 .. k : ms[j].kind = kind} \cup {j \in {k + 1} : ms[j].kind = kind}
    OBVIOUS
  <1> QED BY <1>1, <1>2 DEF Given

LEMMA Inserted ==
    ASSUME NEW s, IsSeq(s), NEW name, NEW id
    PROVE  IsSeq(Insert(s, name, id)) /\ Names(Insert(s, name, id)) = Names(s) \cup {name}
  <1>1. PICK f : f = Insert(s, name, id)
    OBVIOUS
  <1>2. Len(s) \in Nat /\ DOMAIN s = 1 .. Len(s) /\ (\A i \in 1 .. Len(s) : s[i] \in Range(s))
        /\ \A e \in Range(s) : \E i \in 1 .. Len(s) : s[i] = e
    BY RangeMember
  <1>3. CASE \E j \in DOMAIN s : s[j].name = name
    <2>1. f = s
      BY <1>1, <1>3 DEF Insert
    <2>2. PICK j \in 1 .. Len(s) : s[j].name = name
      BY <1>2, <1>3
    <2>3. name \in Names(s)
      BY <1>2, <2>2 DEF Names
    <2> QED BY <1>1, <2>1, <2>3
  <1>4. CASE ~\E j \in DOMAIN s : s[j].name = name
    <2>1. PICK new : new = [name |-> name, id |-> id]
      OBVIOUS
    <2>2. f = Append(s, new)
      BY <1>1, <1>4, <2>1 DEF Insert
    <2>3. /\ IsSeq(f) /\ Len(f) = Len(s) + 1 /\ f[Len(s) + 1] = new
          /\ \A i \in 1 .. Len(s) : f[i] = s[i]
      <3>1. /\ IsSeq(Append(s, new)) /\ Len(Append(s, new)) = Len(s) + 1
            /\ \A i \in 1 .. Len(s) : Append(s, new)[i] = s[i]
            /\ Append(s, new)[Len(s) + 1] = new
        BY Appended
      <3> QED BY <2>2, <3>1, Zenon
    <2>4. Range(f) = Range(s) \cup {new}
      <3>1. (\A i \in 1 .. Len(f) : f[i] \in Range(f)) /\ \A e \in Range(f) : \E i \in 1 .. Len(f) : f[i] = e
        BY <2>3, RangeMember
      <3>2. \A e \in Range(f) : e \in Range(s) \cup {new}
        BY <1>2, <2>3, <3>1
      <3>3. \A e \in Range(s) : e \in Range(f)
        BY <1>2, <2>3, <3>1
      <3>4. new \in Range(f)
        BY <1>2, <2>3, <3>1
      <3> QED BY <3>2, <3>3, <3>4
    <2>5. new.name = name
      BY <2>1
    <2> QED BY <1>1, <2>3, <2>4, <2>5 DEF Names
  <1> QED BY <1>3, <1>4

(* The next member of a class, whatever its kind. *)
LEMMA HasNext ==
    ASSUME NEW c, Counts(c), NEW d, NEW k \in Nat, Has(c, d, k), NEW m, m = d.members[k + 1], m.kind \in Kinds
    PROVE  Has(AddTo(c, m), d, k + 1)
  <1>1. PICK g : g = AddTo(c, m)
    OBVIOUS
  <1>2. CASE m.kind = "field"
    <2>1. PICK f : f = Insert(c.fields, m.name, c.count)
      OBVIOUS
    <2>2. IsSeq(f) /\ Names(f) = Names(c.fields) \cup {m.name}
      BY <2>1, Inserted DEF Has
    <2>3. g = [super |-> c.super, base |-> c.base, state |-> c.state, deleted |-> c.deleted,
               methods |-> c.methods, count |-> c.count + 1, fields |-> f, staticStart |-> c.staticStart,
               staticCount |-> c.staticCount, statics |-> c.statics, values |-> c.values]
      BY <1>1, <1>2, <2>1 DEF AddTo, AddField, Counts, IsClass
    <2>4. g.fields = f /\ g.statics = c.statics /\ g.methods = c.methods
      BY <2>3
    <2>5. /\ Given(d, k + 1, "field") = Given(d, k, "field") \cup {m.name}
          /\ Given(d, k + 1, "static") = Given(d, k, "static")
          /\ Given(d, k + 1, "method") = Given(d, k, "method")
      BY <1>2, GivenNext
    <2> QED BY <1>1, <2>2, <2>4, <2>5 DEF Has
  <1>3. CASE m.kind = "static"
    <2>1. PICK f : f = Insert(c.statics, m.name, c.staticCount)
      OBVIOUS
    <2>2. IsSeq(f) /\ Names(f) = Names(c.statics) \cup {m.name}
      BY <2>1, Inserted DEF Has
    <2>3. g = [super |-> c.super, base |-> c.base, state |-> c.state, deleted |-> c.deleted,
               methods |-> c.methods, count |-> c.count, fields |-> c.fields, staticStart |-> c.staticStart,
               staticCount |-> c.staticCount + 1, statics |-> f, values |-> c.values + 1]
      BY <1>1, <1>3, <2>1 DEF AddTo, AddStaticField, Counts, IsClass
    <2>4. g.statics = f /\ g.fields = c.fields /\ g.methods = c.methods
      BY <2>3
    <2>5. /\ Given(d, k + 1, "static") = Given(d, k, "static") \cup {m.name}
          /\ Given(d, k + 1, "field") = Given(d, k, "field")
          /\ Given(d, k + 1, "method") = Given(d, k, "method")
      BY <1>3, GivenNext
    <2> QED BY <1>1, <2>2, <2>4, <2>5 DEF Has
  <1>4. CASE m.kind = "method"
    <2>1. g = [super |-> c.super, base |-> c.base, state |-> c.state, deleted |-> c.deleted,
               methods |-> c.methods \cup {m.name}, count |-> c.count, fields |-> c.fields,
               staticStart |-> c.staticStart, staticCount |-> c.staticCount, statics |-> c.statics,
               values |-> c.values]
      BY <1>1, <1>4 DEF AddTo, AddMethod, Counts, IsClass
    <2>2. g.methods = c.methods \cup {m.name} /\ g.fields = c.fields /\ g.statics = c.statics
      BY <2>1
    <2>3. /\ Given(d, k + 1, "method") = Given(d, k, "method") \cup {m.name}
          /\ Given(d, k + 1, "field") = Given(d, k, "field")
          /\ Given(d, k + 1, "static") = Given(d, k, "static")
      BY <1>4, GivenNext
    <2> QED BY <1>1, <2>2, <2>3 DEF Has
  <1> QED BY <1>2, <1>3, <1>4 DEF Kinds

LEMMA HasNone ==
    ASSUME NEW c, c.fields = <<>>, c.statics = <<>>, c.methods = {}, NEW d
    PROVE  Has(c, d, 0)
  <1>1. IsSeq(<<>>) /\ Range(<<>>) = {}
    BY DEF IsSeq, Range
  <1>2. \A kind : {j \in 1 .. 0 : d.members[j].kind = kind} = {}
    OBVIOUS
  <1>3. \A kind : Given(d, 0, kind) = {}
    BY <1>2 DEF Given
  <1> QED BY <1>1, <1>3 DEF Has, Names

(* Two activations at the same place of the same file. *)
SamePlace(l, m) == l.name = m.name /\ l.class = m.class /\ l.step = m.step /\ l.member = m.member

LEMMA SameFills ==
    ASSUME NEW w, NEW l, NEW m, SamePlace(l, m)
    PROVE  /\ Parsed(w, l) = Parsed(w, m) /\ l.step = m.step /\ l.member = m.member
           /\ \A n : Fills(w, l, n) <=> Fills(w, m, n)
  BY DEF SamePlace, Parsed, Fills

(* What is below stays where it is, and what is on top of it has not come to members. *)
LEMMA WholeKept ==
    ASSUME NEW w, NEW ls, NEW t, NEW cl, WOK(w, ls, cl), Len(ls) \in Nat, Len(t) \in Nat, Len(ls) <= Len(t),
           \A k \in 1 .. Len(ls) : SamePlace(t[k], ls[k]),
           \A k \in 1 .. Len(t) : k > Len(ls) => t[k].step = "super"
    PROVE  WOK(w, t, cl)
  <1>1. \A k \in 1 .. Len(t) : t[k].step = "members" => k \in 1 .. Len(ls)
    <2>1. ASSUME NEW k \in 1 .. Len(t), t[k].step = "members", ~(k \in 1 .. Len(ls)) PROVE FALSE
      <3>1. k > Len(ls)
        BY <2>1
      <3>2. t[k].step = "super"
        BY <3>1
      <3> QED BY <2>1, <3>2
    <2> QED BY <2>1
  <1>2. \A k \in 1 .. Len(t) : \A n : Fills(w, t[k], n) =>
           /\ k \in 1 .. Len(ls) /\ Fills(w, ls[k], n)
           /\ Parsed(w, t[k]) = Parsed(w, ls[k]) /\ t[k].member = ls[k].member
    <2>1. SUFFICES ASSUME NEW k \in 1 .. Len(t), NEW n, Fills(w, t[k], n)
                   PROVE  /\ k \in 1 .. Len(ls) /\ Fills(w, ls[k], n)
                          /\ Parsed(w, t[k]) = Parsed(w, ls[k]) /\ t[k].member = ls[k].member
      OBVIOUS
    <2>2. k \in 1 .. Len(ls)
      BY <1>1, <2>1 DEF Fills
    <2> QED BY <2>1, <2>2 DEF SamePlace, Fills, Parsed
  <1>3. Filled(w, t, cl)
    BY <1>2 DEF WOK, Filled
  <1>4. OneLoad(w, t)
    <2>1. SUFFICES ASSUME NEW i \in 1 .. Len(t), NEW j \in 1 .. Len(t), t[i].step = "members",
                          Fills(w, t[j], Parsed(w, t[i]).name)
                   PROVE  i = j
      BY DEF OneLoad
    <2>2. i \in 1 .. Len(ls) /\ Parsed(w, t[i]) = Parsed(w, ls[i]) /\ ls[i].step = "members"
      BY <1>1, <2>1, SameFills
    <2>3. j \in 1 .. Len(ls) /\ Fills(w, ls[j], Parsed(w, ls[i]).name)
      BY <1>2, <2>1, <2>2
    <2> QED BY <2>2, <2>3 DEF WOK, OneLoad
  <1>5. Settled(w, t, cl)
    <2>1. SUFFICES ASSUME NEW n \in DOMAIN cl \ Natives(w), NEW k \in 1 .. Len(ls), Fills(w, ls[k], n)
                   PROVE  \E i \in 1 .. Len(t) : Fills(w, t[i], n)
      BY DEF WOK, Settled
    <2>2. k \in 1 .. Len(t) /\ SamePlace(t[k], ls[k])
      BY <2>1
    <2>3. Fills(w, t[k], n)
      BY <2>1, <2>2 DEF SamePlace, Fills, Parsed
    <2> QED BY <2>2, <2>3
  <1> QED BY <1>3, <1>4, <1>5 DEF WOK

(* The load on top ends its class, or all of its file. *)
LEMMA WholeEnded ==
    ASSUME NEW w, NEW ls, NEW t, NEW cl, NEW d, WOK(w, ls, cl), Len(ls) \in Nat \ {0}, Len(t) \in Nat,
           Len(t) = Len(ls) \/ Len(t) = Len(ls) - 1,
           \A k \in 1 .. Len(ls) - 1 : SamePlace(t[k], ls[k]),
           Len(t) = Len(ls) => t[Len(ls)].step = "super",
           DOMAIN d = DOMAIN cl,
           \A n \in DOMAIN cl : ~Fills(w, ls[Len(ls)], n) => d[n] = cl[n],
           \A n \in DOMAIN cl \ Natives(w) : Fills(w, ls[Len(ls)], n) => d[n].deleted \/ Complete(w, d[n], n)
    PROVE  WOK(w, t, d)
  <1>1. PICK m \in Nat \ {0} : m = Len(ls)
    OBVIOUS
  <1>2. \A k \in 1 .. Len(t) : t[k].step = "members" => k \in 1 .. m - 1
    <2>1. SUFFICES ASSUME NEW k \in 1 .. Len(t), t[k].step = "members" PROVE k \in 1 .. m - 1
      OBVIOUS
    <2>2. CASE Len(t) = m
      <3>1. k # m
        BY <1>1, <2>1, <2>2
      <3> QED BY <2>1, <2>2, <3>1
    <2>3. CASE Len(t) = m - 1
      BY <2>1, <2>3
    <2> QED BY <1>1, <2>2, <2>3
  <1>3. \A k \in 1 .. Len(t) : \A n : Fills(w, t[k], n) =>
           /\ k \in 1 .. m - 1 /\ Fills(w, ls[k], n)
           /\ Parsed(w, t[k]) = Parsed(w, ls[k]) /\ t[k].member = ls[k].member
    <2>1. SUFFICES ASSUME NEW k \in 1 .. Len(t), NEW n, Fills(w, t[k], n)
                   PROVE  /\ k \in 1 .. m - 1 /\ Fills(w, ls[k], n)
                          /\ Parsed(w, t[k]) = Parsed(w, ls[k]) /\ t[k].member = ls[k].member
      OBVIOUS
    <2>2. k \in 1 .. m - 1
      BY <1>2, <2>1 DEF Fills
    <2>3. SamePlace(t[k], ls[k])
      BY <1>1, <2>2
    <2> QED BY <2>1, <2>2, <2>3 DEF SamePlace, Fills, Parsed
  <1>4. \A k \in 1 .. m - 1 : \A n : Fills(w, ls[k], n) => ~Fills(w, ls[m], n)
    <2>1. SUFFICES ASSUME NEW k \in 1 .. m - 1, NEW n, Fills(w, ls[k], n), Fills(w, ls[m], n) PROVE FALSE
      OBVIOUS
    <2>2. ls[k].step = "members" /\ Parsed(w, ls[k]).name = n
      BY <2>1 DEF Fills
    <2>3. k = m
      BY <1>1, <2>1, <2>2 DEF WOK, OneLoad
    <2> QED BY <2>3
  <1>5. Filled(w, t, d)
    <2>1. SUFFICES ASSUME NEW k \in 1 .. Len(t), NEW n \in DOMAIN cl \ Natives(w), Fills(w, t[k], n)
                   PROVE  /\ t[k].member <= Len(Parsed(w, t[k]).members) + 1
                          /\ Has(d[n], Parsed(w, t[k]), t[k].member - 1)
      BY DEF Filled
    <2>2. /\ k \in 1 .. m - 1 /\ Fills(w, ls[k], n)
          /\ Parsed(w, t[k]) = Parsed(w, ls[k]) /\ t[k].member = ls[k].member
      BY <1>3, <2>1
    <2>3. d[n] = cl[n]
      BY <1>1, <1>4, <2>2
    <2>4. k \in 1 .. Len(ls)
      BY <1>1, <2>2
    <2> QED BY <2>2, <2>3, <2>4 DEF WOK, Filled
  <1>6. OneLoad(w, t)
    <2>1. SUFFICES ASSUME NEW i \in 1 .. Len(t), NEW j \in 1 .. Len(t), t[i].step = "members",
                          Fills(w, t[j], Parsed(w, t[i]).name)
                   PROVE  i = j
      BY DEF OneLoad
    <2>2. i \in 1 .. m - 1
      BY <1>2, <2>1
    <2>3. SamePlace(t[i], ls[i])
      BY <1>1, <2>2
    <2>4. Parsed(w, t[i]) = Parsed(w, ls[i]) /\ ls[i].step = "members"
      BY <2>1, <2>3, SameFills
    <2>5. j \in 1 .. m - 1 /\ Fills(w, ls[j], Parsed(w, ls[i]).name)
      BY <1>3, <2>1, <2>4
    <2>6. i \in 1 .. Len(ls) /\ j \in 1 .. Len(ls)
      BY <1>1, <2>2, <2>5
    <2> QED BY <2>4, <2>5, <2>6 DEF WOK, OneLoad
  <1>7. Settled(w, t, d)
    <2>1. SUFFICES ASSUME NEW n \in DOMAIN cl \ Natives(w)
                   PROVE  d[n].deleted \/ (\E k \in 1 .. Len(t) : Fills(w, t[k], n)) \/ Complete(w, d[n], n)
      BY DEF Settled
    <2>2. CASE Fills(w, ls[m], n)
      BY <1>1, <2>2
    <2>3. CASE ~Fills(w, ls[m], n)
      <3>1. d[n] = cl[n]
        BY <1>1, <2>3
      <3>2. ASSUME NEW k \in 1 .. Len(ls), Fills(w, ls[k], n)
            PROVE  \E i \in 1 .. Len(t) : Fills(w, t[i], n)
        <4>1. k \in 1 .. m - 1
          BY <1>1, <2>3, <3>2
        <4>2. SamePlace(t[k], ls[k]) /\ k \in 1 .. Len(t)
          BY <1>1, <4>1
        <4> QED BY <3>2, <4>2, SameFills
      <3> QED BY <3>1, <3>2 DEF WOK, Settled
    <2> QED BY <2>2, <2>3
  <1> QED BY <1>5, <1>6, <1>7 DEF WOK

(* The load on top comes to the next member of its class, or to the first. *)
LEMMA WholeTop ==
    ASSUME NEW w, NEW ls, NEW t, NEW cl, NEW d, WOK(w, ls, cl), NEW m \in Nat \ {0}, Len(ls) = m, Len(t) = m,
           \A k \in 1 .. m - 1 : SamePlace(t[k], ls[k]),
           NEW b, Fills(w, t[m], b), b = Parsed(w, ls[m]).name,
           \A k \in 1 .. m - 1 : ~Fills(w, ls[k], b),
           DOMAIN d = DOMAIN cl \cup {b}, \A n \in DOMAIN cl : n # b => d[n] = cl[n],
           b \notin Natives(w) =>
             t[m].member <= Len(Parsed(w, t[m]).members) + 1 /\ Has(d[b], Parsed(w, t[m]), t[m].member - 1)
    PROVE  WOK(w, t, d)
  <1>1. \A n : Fills(w, t[m], n) => n = b
    BY DEF Fills
  <1>2. \A k \in 1 .. m - 1 : \A n : Fills(w, t[k], n) =>
           /\ Fills(w, ls[k], n) /\ n # b
           /\ Parsed(w, t[k]) = Parsed(w, ls[k]) /\ t[k].member = ls[k].member
    <2>1. SUFFICES ASSUME NEW k \in 1 .. m - 1, NEW n, Fills(w, t[k], n)
                   PROVE  /\ Fills(w, ls[k], n) /\ n # b
                          /\ Parsed(w, t[k]) = Parsed(w, ls[k]) /\ t[k].member = ls[k].member
      OBVIOUS
    <2>2. SamePlace(t[k], ls[k])
      OBVIOUS
    <2>3. Fills(w, ls[k], n) /\ Parsed(w, t[k]) = Parsed(w, ls[k]) /\ t[k].member = ls[k].member
      BY <2>1, <2>2 DEF SamePlace, Fills, Parsed
    <2> QED BY <2>3
  <1>3. Filled(w, t, d)
    <2>1. SUFFICES ASSUME NEW k \in 1 .. m, NEW n \in DOMAIN d \ Natives(w), Fills(w, t[k], n)
                   PROVE  /\ t[k].member <= Len(Parsed(w, t[k]).members) + 1
                          /\ Has(d[n], Parsed(w, t[k]), t[k].member - 1)
      BY DEF Filled
    <2>2. CASE k = m
      BY <1>1, <2>1, <2>2
    <2>3. CASE k # m
      <3>1. k \in 1 .. m - 1
        BY <2>3
      <3>2. /\ Fills(w, ls[k], n) /\ n # b
            /\ Parsed(w, t[k]) = Parsed(w, ls[k]) /\ t[k].member = ls[k].member
        BY <1>2, <2>1, <3>1
      <3>3. n \in DOMAIN cl \ Natives(w) /\ d[n] = cl[n] /\ k \in 1 .. Len(ls)
        BY <3>1, <3>2
      <3> QED BY <3>2, <3>3 DEF WOK, Filled
    <2> QED BY <2>2, <2>3
  <1>4. OneLoad(w, t)
    <2>1. SUFFICES ASSUME NEW i \in 1 .. m, NEW j \in 1 .. m, t[i].step = "members",
                          Fills(w, t[j], Parsed(w, t[i]).name)
                   PROVE  i = j
      BY DEF OneLoad
    <2>2. CASE i = m
      <3>1. Fills(w, t[j], b)
        BY <2>1, <2>2 DEF Fills
      <3>2. ~(j \in 1 .. m - 1)
        BY <1>2, <3>1
      <3> QED BY <2>2, <3>2
    <2>3. CASE i # m
      <3>1. i \in 1 .. m - 1
        BY <2>3
      <3>2. Fills(w, t[i], Parsed(w, t[i]).name)
        BY <2>1 DEF Fills
      <3>3. /\ Fills(w, ls[i], Parsed(w, t[i]).name) /\ Parsed(w, t[i]).name # b
            /\ Parsed(w, t[i]) = Parsed(w, ls[i])
        BY <1>2, <3>1, <3>2
      <3>4. j \in 1 .. m - 1
        <4>1. j # m
          BY <1>1, <2>1, <3>3
        <4> QED BY <4>1
      <3>5. Fills(w, ls[j], Parsed(w, ls[i]).name) /\ ls[i].step = "members"
        BY <1>2, <2>1, <3>3, <3>4 DEF Fills
      <3>6. i \in 1 .. Len(ls) /\ j \in 1 .. Len(ls)
        OBVIOUS
      <3> QED BY <3>5, <3>6 DEF WOK, OneLoad
    <2> QED BY <2>2, <2>3
  <1>5. Settled(w, t, d)
    <2>1. SUFFICES ASSUME NEW n \in DOMAIN d \ Natives(w)
                   PROVE  d[n].deleted \/ (\E k \in 1 .. m : Fills(w, t[k], n)) \/ Complete(w, d[n], n)
      BY DEF Settled
    <2>2. CASE n = b
      BY <2>2
    <2>3. CASE n # b
      <3>1. n \in DOMAIN cl \ Natives(w) /\ d[n] = cl[n]
        BY <2>3
      <3>2. ASSUME NEW k \in 1 .. Len(ls), Fills(w, ls[k], n)
            PROVE  \E i \in 1 .. m : Fills(w, t[i], n)
        <4>1. k # m
          BY <2>3, <3>2 DEF Fills
        <4>2. k \in 1 .. m - 1
          BY <4>1
        <4>3. SamePlace(t[k], ls[k]) /\ k \in 1 .. m
          BY <4>2
        <4>4. Fills(w, t[k], n)
          BY <3>2, <4>3 DEF SamePlace, Fills, Parsed
        <4> QED BY <4>3, <4>4
      <3> QED BY <3>1, <3>2 DEF WOK, Settled
    <2> QED BY <2>2, <2>3
  <1> QED BY <1>3, <1>4, <1>5 DEF WOK

(* What Become and Return do to the stack. *)
LEMMA BecomeStack ==
    ASSUME TInv, loads # <<>>, NEW l \in Frames(world), Become(l)
    PROVE  /\ Len(loads') = Len(loads) /\ loads'[Len(loads)] = l
           /\ \A k \in 1 .. Len(loads) - 1 : SamePlace(loads'[k], loads[k])
  <1>1. PICK ls, F, t : ls = loads /\ F = Frames(world) /\ t = loads'
    OBVIOUS
  <1>2. ls \in Seq(F) /\ ls # <<>> /\ l \in F /\ t = Append(Front(ls), l)
    BY <1>1, TopOK DEF Become, Below
  <1>3. Len(t) = Len(ls) /\ t[Len(ls)] = l /\ \A k \in 1 .. Len(ls) - 1 : t[k] = ls[k]
    BY <1>2, TopReplaced
  <1> QED BY <1>1, <1>3 DEF SamePlace

LEMMA ReturnStack ==
    ASSUME TInv, loads # <<>>, NEW answer, Return(answer)
    PROVE  /\ Len(loads') \in Nat /\ Len(loads') = Len(loads) - 1
           /\ \A k \in 1 .. Len(loads) - 1 : SamePlace(loads'[k], loads[k])
  <1>1. loads \in Seq(Frames(world)) /\ Len(loads) \in Nat \ {0}
    BY TopOK
  <1>2. PICK t, F : t = Front(loads) /\ F = Frames(world)
    OBVIOUS
  <1>3. t \in Seq(F) /\ Len(t) = Len(loads) - 1 /\ \A k \in 1 .. Len(t) : t[k] = loads[k]
    BY <1>1, <1>2, FrontProperties
  <1>4. CASE Below # <<>>
    <2>1. PICK l : l = [Last(t) EXCEPT !.found = answer]
      OBVIOUS
    <2>2. loads' = Append(Front(t), l) /\ t # <<>>
      BY <1>2, <1>4, <2>1 DEF Return, Below
    <2>3. Last(t) \in F /\ Last(t) = t[Len(t)] /\ Len(t) \in Nat \ {0}
      BY <1>3, <2>2, FrontProperties
    <2>4. SamePlace(l, Last(t))
      BY <1>2, <2>1, <2>3 DEF SamePlace, Frames
    <2>5. PICK G : G = F \cup {l}
      OBVIOUS
    <2>6. t \in Seq(G) /\ l \in G
      BY <1>3, <2>5
    <2>7. PICK u : u = loads'
      OBVIOUS
    <2>8. Len(u) = Len(t) /\ u[Len(t)] = l /\ \A k \in 1 .. Len(t) - 1 : u[k] = t[k]
      BY <2>2, <2>6, <2>7, TopReplaced
    <2>9. ASSUME NEW k \in 1 .. Len(t) PROVE SamePlace(u[k], loads[k])
      <3>1. CASE k = Len(t)
        BY <1>3, <2>3, <2>4, <2>8, <3>1
      <3>2. CASE k # Len(t)
        BY <1>3, <2>3, <2>8, <3>2 DEF SamePlace
      <3> QED BY <3>1, <3>2
    <2> QED BY <1>3, <2>3, <2>7, <2>8, <2>9
  <1>5. CASE Below = <<>>
    <2>1. loads' = <<>> /\ t = <<>>
      BY <1>2, <1>5 DEF Return, Below
    <2>2. Len(loads) = 1 /\ Len(loads') = 0
      BY <1>1, <1>3, <2>1
    <2> QED BY <2>2
  <1> QED BY <1>4, <1>5

(* The load on top stays at its place. *)
LEMMA TopStays ==
    ASSUME TInv, WOK(world, loads, classes), loads # <<>>, NEW l \in Frames(world), SamePlace(l, Top), Become(l)
    PROVE  WOK(world, loads', classes)
  <1>1. Len(loads) \in Nat \ {0} /\ Top = loads[Len(loads)]
    BY TopOK
  <1>2. Len(loads') = Len(loads) /\ loads'[Len(loads)] = l
        /\ \A k \in 1 .. Len(loads) - 1 : SamePlace(loads'[k], loads[k])
    BY BecomeStack
  <1>3. PICK ls, t, m : ls = loads /\ t = loads' /\ m = Len(loads) /\ m \in Nat \ {0}
    BY <1>1
  <1>4. \A k \in 1 .. m : SamePlace(t[k], ls[k])
    <2>1. \A k \in 1 .. m : k = m \/ k \in 1 .. m - 1
      BY <1>3
    <2> QED BY <1>1, <1>2, <1>3, <2>1
  <1>5. Len(t) = m /\ Len(ls) = m /\ \A k \in 1 .. Len(t) : k > Len(ls) => t[k].step = "super"
    BY <1>2, <1>3
  <1>6. WOK(world, t, classes)
    BY <1>3, <1>4, <1>5, WholeKept
  <1> QED BY <1>3, <1>6

(* A class is looked for. *)
LEMMA FindWhole ==
    ASSUME WInv, loads # <<>>, NEW name, Find(name)
    PROVE  WOK(world, loads', classes')
  <1>1. TInv /\ WOK(world, loads, classes) /\ classes' = classes
    BY DEF WInv, Find
  <1>2. loads \in Seq(Frames(world)) /\ Len(loads) \in Nat \ {0} /\ Top \in Frames(world) /\ Top = loads[Len(loads)]
    BY <1>1, TopOK
  <1>3. PICK ls, F, t : ls = loads /\ F = Frames(world) /\ t = loads'
    OBVIOUS
  <1>4. CASE ~Known(name) /\ name \in DOMAIN world.files
    <2>1. PICK l : l = Load(name, FALSE)
      OBVIOUS
    <2>2. l \in F /\ l.step = "super"
      BY <1>3, <1>4, <2>1 DEF Load, Frames
    <2>3. t = Append(ls, l)
      BY <1>3, <1>4, <2>1 DEF Find
    <2>4. Len(t) = Len(ls) + 1 /\ (\A i \in 1 .. Len(ls) : t[i] = ls[i]) /\ t[Len(ls) + 1] = l
      BY <1>2, <1>3, <2>2, <2>3, AppendProperties
    <2>5. PICK m \in Nat : m = Len(ls)
      BY <1>2, <1>3
    <2>6. /\ Len(t) \in Nat /\ Len(ls) <= Len(t)
          /\ \A k \in 1 .. Len(ls) : SamePlace(t[k], ls[k])
          /\ \A k \in 1 .. Len(t) : k > Len(ls) => t[k].step = "super"
      <3>1. \A k \in 1 .. m + 1 : k > m => k = m + 1
        OBVIOUS
      <3> QED BY <2>2, <2>4, <2>5, <3>1 DEF SamePlace
    <2>7. WOK(world, t, classes)
      BY <1>1, <1>2, <1>3, <2>6, WholeKept
    <2> QED BY <1>1, <1>3, <2>7
  <1>5. CASE ~(~Known(name) /\ name \in DOMAIN world.files)
    <2>1. PICK l : l = [Top EXCEPT !.found = IF Known(name) THEN name ELSE None]
      OBVIOUS
    <2>2. Become(l)
      BY <1>5, <2>1 DEF Find
    <2>3. PICK f : f = IF Known(name) THEN name ELSE None
      OBVIOUS
    <2>4. f \in ClassNames(world) \cup {None, Unknown}
      BY <1>1, <2>3 DEF Known, TInv, ClassesOK
    <2>5. l \in Frames(world) /\ SamePlace(l, Top)
      BY <1>2, <2>1, <2>3, <2>4 DEF Frames, SamePlace
    <2>6. WOK(world, loads', classes)
      BY <1>1, <2>2, <2>5, TopStays
    <2> QED BY <1>1, <2>6
  <1> QED BY <1>4, <1>5

LEMMA FindSuperWhole == ASSUME WInv, FindSuper PROVE WOK(world, loads', classes')
  <1>1. loads # <<>> /\ Find(Class.super)
    BY DEF FindSuper, Loading
  <1> QED BY <1>1, FindWhole

LEMMA FindReferenceWhole == ASSUME WInv, FindReference PROVE WOK(world, loads', classes')
  <1>1. loads # <<>> /\ Find(Member.refs[Top.ref].name)
    BY DEF FindReference, InMember, Loading
  <1> QED BY <1>1, FindWhole

(* A failed member deletes the class that its load has come to. *)
LEMMA FailDeletedWhole ==
    ASSUME WInv, loads # <<>>, Top.step = "members", Class.name \in DOMAIN classes, Fail, classes' = Deleted
    PROVE  WOK(world, loads', classes')
  <1>1. TInv /\ WOK(world, loads, classes)
    BY DEF WInv
  <1>2. Len(loads) \in Nat \ {0} /\ Top = loads[Len(loads)] /\ Class = Parsed(world, Top)
    BY <1>1, TopOK
  <1>3. /\ Len(loads') \in Nat /\ Len(loads') = Len(loads) - 1
        /\ \A k \in 1 .. Len(loads) - 1 : SamePlace(loads'[k], loads[k])
    <2>1. Return(None)
      BY DEF Fail
    <2> QED BY <1>1, <2>1, ReturnStack
  <1>4. PICK cl, d, name : cl = classes /\ d = classes' /\ name = Class.name
    OBVIOUS
  <1>5. PICK c : c = [cl[name] EXCEPT !.deleted = TRUE]
    OBVIOUS
  <1>6. c.deleted
    <2>1. Counts(cl[name])
      BY <1>1, <1>4 DEF TInv, ClassesOK
    <2> QED BY <1>5, <2>1, DeletedOK
  <1>7. d = [cl EXCEPT ![name] = c]
    BY <1>4, <1>5 DEF Deleted
  <1>8. DOMAIN d = DOMAIN cl /\ d[name] = c /\ \A n \in DOMAIN cl : n # name => d[n] = cl[n]
    BY <1>4, <1>7
  <1>9. \A n : Fills(world, loads[Len(loads)], n) <=> n = name
    BY <1>2, <1>4 DEF Fills
  <1>10. /\ \A n \in DOMAIN cl : ~Fills(world, loads[Len(loads)], n) => d[n] = cl[n]
         /\ \A n \in DOMAIN cl \ Natives(world) :
              Fills(world, loads[Len(loads)], n) => d[n].deleted \/ Complete(world, d[n], n)
    BY <1>6, <1>8, <1>9
  <1>11. PICK ls, t, m : ls = loads /\ t = loads' /\ m = Len(loads) /\ m \in Nat \ {0}
    BY <1>2
  <1>12. /\ WOK(world, ls, cl) /\ Len(ls) \in Nat \ {0} /\ Len(t) \in Nat /\ Len(t) = Len(ls) - 1
         /\ \A k \in 1 .. Len(ls) - 1 : SamePlace(t[k], ls[k])
         /\ Len(t) # Len(ls)
    BY <1>1, <1>2, <1>3, <1>4, <1>11
  <1>13. WOK(world, t, d)
    BY <1>8, <1>10, <1>11, <1>12, WholeEnded
  <1> QED BY <1>4, <1>11, <1>13

LEMMA ReferredWhole == ASSUME WInv, Referred PROVE WOK(world, loads', classes')
  <1>1. TInv /\ WOK(world, loads, classes)
    BY DEF WInv
  <1>2. InMember
    BY DEF Referred
  <1>3. loads # <<>> /\ Top.step = "members" /\ Class.name \in DOMAIN classes
    BY <1>1, <1>2, MemberOK
  <1>4. CASE Fail /\ classes' = Deleted
    BY <1>3, <1>4, FailDeletedWhole
  <1>5. CASE Become([Top EXCEPT !.ref = @ + 1, !.found = Unknown]) /\ UNCHANGED <<classes, answers>>
    <2>1. PICK l : l = [Top EXCEPT !.ref = @ + 1, !.found = Unknown]
      OBVIOUS
    <2>2. l \in Frames(world) /\ SamePlace(l, Top)
      <3>1. PICK t \in Frames(world) : t = Top
        BY <1>1, <1>3, TopOK
      <3>2. l = [t EXCEPT !.ref = t.ref + 1, !.found = Unknown]
        BY <2>1, <3>1
      <3>3. l = [name |-> t.name, addToExisting |-> t.addToExisting, class |-> t.class, step |-> t.step,
                 member |-> t.member, ref |-> t.ref + 1, found |-> Unknown]
        BY <3>1, <3>2 DEF Frames
      <3> QED BY <3>1, <3>3 DEF Frames, SamePlace
    <2>3. WOK(world, loads', classes)
      BY <1>1, <1>3, <1>5, <2>1, <2>2, TopStays
    <2> QED BY <1>5, <2>3
  <1> QED BY <1>4, <1>5 DEF Referred

(* No load below is among the members of the class that the load on top is among those of. *)
LEMMA TopAlone ==
    ASSUME TInv, WOK(world, loads, classes), loads # <<>>, Top.step = "members"
    PROVE  \A k \in 1 .. Len(loads) - 1 : ~Fills(world, loads[k], Class.name)
  <1>1. Len(loads) \in Nat \ {0} /\ Top = loads[Len(loads)] /\ Class = Parsed(world, Top)
    BY TopOK
  <1>2. PICK ls, m : ls = loads /\ m = Len(ls) /\ m \in Nat \ {0}
    BY <1>1
  <1>3. \A k \in 1 .. m - 1 : k \in 1 .. Len(ls) /\ m \in 1 .. Len(ls) /\ k # m
    BY <1>2
  <1>4. OneLoad(world, ls) /\ ls[m].step = "members"
    BY <1>1, <1>2 DEF WOK
  <1>5. ASSUME NEW k \in 1 .. m - 1, Fills(world, ls[k], Parsed(world, ls[m]).name) PROVE FALSE
    BY <1>3, <1>4, <1>5 DEF OneLoad
  <1> QED BY <1>1, <1>2, <1>5

LEMMA AddMemberWhole == ASSUME WInv, AddMember PROVE WOK(world, loads', classes')
  <1>1. TInv /\ WOK(world, loads, classes)
    BY DEF WInv
  <1>2. InMember
    BY DEF AddMember
  <1>3. loads # <<>> /\ Top.step = "members" /\ Class.name \in DOMAIN classes /\ Member.kind \in Kinds \cup {"bad"}
    BY <1>1, <1>2, MemberOK
  <1>4. CASE Member.kind = "bad"
    <2>1. Fail /\ classes' = Deleted
      BY <1>4 DEF AddMember
    <2> QED BY <1>3, <2>1, FailDeletedWhole
  <1>5. CASE Member.kind # "bad"
    <2>1. /\ Become([Top EXCEPT !.member = @ + 1, !.ref = 1])
          /\ classes' = [classes EXCEPT ![Class.name] = AddTo(@, Member)]
      BY <1>5 DEF AddMember
    <2>2. PICK l : l = [Top EXCEPT !.member = @ + 1, !.ref = 1]
      OBVIOUS
    <2>3. /\ Len(loads) \in Nat \ {0} /\ Top = loads[Len(loads)] /\ Class = Parsed(world, Top)
          /\ Top \in Frames(world) /\ IsSeq(Class.members)
      BY <1>1, <1>3, TopOK
    <2>4. /\ l \in Frames(world) /\ l.name = Top.name /\ l.class = Top.class /\ l.step = Top.step
          /\ l.member = Top.member + 1 /\ Top.member \in Nat \ {0}
      <3>1. PICK t \in Frames(world) : t = Top
        BY <2>3
      <3>2. l = [t EXCEPT !.member = t.member + 1, !.ref = 1]
        BY <2>2, <3>1
      <3>3. l = [name |-> t.name, addToExisting |-> t.addToExisting, class |-> t.class, step |-> t.step,
                 member |-> t.member + 1, ref |-> 1, found |-> t.found]
        BY <3>1, <3>2 DEF Frames
      <3> QED BY <3>1, <3>3 DEF Frames
    <2>5. /\ Len(loads') = Len(loads) /\ loads'[Len(loads)] = l
          /\ \A k \in 1 .. Len(loads) - 1 : SamePlace(loads'[k], loads[k])
      BY <1>1, <1>3, <2>1, <2>2, <2>4, BecomeStack
    <2>6. \A k \in 1 .. Len(loads) - 1 : ~Fills(world, loads[k], Class.name)
      BY <1>1, <1>3, TopAlone
    <2>7. PICK ls, t, m : ls = loads /\ t = loads' /\ m = Len(loads) /\ m \in Nat \ {0}
      BY <2>3
    <2>8. PICK cl, d, b : cl = classes /\ d = classes' /\ b = Class.name
      OBVIOUS
    <2>9. PICK c : c = AddTo(cl[b], Member)
      OBVIOUS
    <2>10. DOMAIN d = DOMAIN cl \cup {b} /\ d[b] = c /\ \A n \in DOMAIN cl : n # b => d[n] = cl[n]
      <3>1. d = [cl EXCEPT ![b] = c] /\ b \in DOMAIN cl
        BY <1>3, <2>1, <2>8, <2>9
      <3> QED BY <3>1
    <2>11. Parsed(world, l) = Class /\ Fills(world, l, b)
      BY <1>3, <2>3, <2>4, <2>8 DEF Parsed, Fills
    <2>12. b \notin Natives(world) =>
             l.member <= Len(Parsed(world, l).members) + 1 /\ Has(d[b], Parsed(world, l), l.member - 1)
      <3>1. SUFFICES ASSUME b \notin Natives(world)
                     PROVE  l.member <= Len(Class.members) + 1 /\ Has(c, Class, l.member - 1)
        BY <2>10, <2>11
      <3>2. PICK k \in Nat : k = Top.member - 1
        BY <2>4
      <3>3. m \in 1 .. Len(ls) /\ ls[m] = Top /\ b \in DOMAIN cl \ Natives(world)
        BY <1>3, <2>3, <2>7, <2>8, <3>1
      <3>4. Fills(world, ls[m], b) /\ Parsed(world, ls[m]) = Class
        BY <1>3, <2>3, <2>8, <3>3 DEF Fills
      <3>5. Filled(world, ls, cl)
        BY <1>1, <2>7, <2>8 DEF WOK
      <3>6. Has(cl[b], Class, k)
        BY <3>2, <3>3, <3>4, <3>5 DEF Filled
      <3>7. Counts(cl[b])
        BY <1>1, <1>3, <2>8 DEF TInv, ClassesOK
      <3>8. Member = Class.members[k + 1] /\ Member.kind \in Kinds
        <4>1. k + 1 = Top.member
          BY <2>4, <3>2
        <4> QED BY <1>3, <1>5, <4>1 DEF Member
      <3>9. Has(c, Class, k + 1)
        BY <2>9, <3>6, <3>7, <3>8, HasNext
      <3>10. l.member - 1 = k + 1 /\ l.member <= Len(Class.members) + 1
        <4>1. Len(Class.members) \in Nat /\ Top.member <= Len(Class.members)
          BY <1>2, <2>3, RangeMember DEF InMember
        <4> QED BY <2>4, <3>2, <4>1
      <3> QED BY <3>9, <3>10
    <2>13. /\ Len(ls) = m /\ Len(t) = m /\ t[m] = l /\ WOK(world, ls, cl)
           /\ \A k \in 1 .. m - 1 : SamePlace(t[k], ls[k])
           /\ b = Parsed(world, ls[m]).name
           /\ \A k \in 1 .. m - 1 : ~Fills(world, ls[k], b)
      BY <1>1, <2>3, <2>5, <2>6, <2>7, <2>8
    <2>14. WOK(world, t, d)
      BY <2>7, <2>10, <2>11, <2>12, <2>13, WholeTop
    <2> QED BY <2>7, <2>8, <2>14
  <1> QED BY <1>4, <1>5

(* Behind its last member a class has what its file declares. *)
LEMMA EndClassWhole == ASSUME WInv, EndClass PROVE WOK(world, loads', classes')
  <1>1. TInv /\ WOK(world, loads, classes)
    BY DEF WInv
  <1>2. /\ loads # <<>> /\ Top.step = "members" /\ Top.member > Len(Class.members)
        /\ classes' = [classes EXCEPT ![Class.name].state = "COMPLETE"]
    BY DEF EndClass, Loading
  <1>3. /\ Len(loads) \in Nat \ {0} /\ Top = loads[Len(loads)] /\ Class = Parsed(world, Top)
        /\ Top \in Frames(world) /\ IsSeq(Class.members) /\ Class \in Declared(world)
        /\ FrameOK(world, Top, DOMAIN classes)
    BY <1>1, <1>2, TopOK
  <1>4. PICK cl, d, b : cl = classes /\ d = classes' /\ b = Class.name
    OBVIOUS
  <1>5. b \in DOMAIN cl /\ Counts(cl[b])
    BY <1>1, <1>2, <1>3, <1>4 DEF FrameOK, TInv, ClassesOK
  <1>6. PICK c : c = [cl[b] EXCEPT !.state = "COMPLETE"]
    OBVIOUS
  <1>7. c.state = "COMPLETE" /\ c.fields = cl[b].fields /\ c.statics = cl[b].statics /\ c.methods = cl[b].methods
    BY <1>5, <1>6, StateOK
  <1>8. DOMAIN d = DOMAIN cl /\ d[b] = c /\ \A n \in DOMAIN cl : n # b => d[n] = cl[n]
    <2>1. d = [cl EXCEPT ![b] = c]
      BY <1>2, <1>4, <1>6
    <2> QED BY <1>5, <2>1
  <1>9. PICK ls, t, m : ls = loads /\ t = loads' /\ m = Len(loads) /\ m \in Nat \ {0}
    BY <1>3
  <1>10. \A n : Fills(world, ls[m], n) <=> n = b
    BY <1>2, <1>3, <1>4, <1>9 DEF Fills
  <1>11. ASSUME b \notin Natives(world) PROVE Complete(world, c, b)
    <2>1. m \in 1 .. Len(ls) /\ b \in DOMAIN cl \ Natives(world) /\ Filled(world, ls, cl)
      BY <1>1, <1>4, <1>5, <1>9, <1>11 DEF WOK
    <2>2. Top.member <= Len(Class.members) + 1 /\ Has(cl[b], Class, Top.member - 1)
      <3>1. Fills(world, ls[m], b) /\ ls[m] = Top
        BY <1>3, <1>9, <1>10
      <3> QED BY <1>3, <2>1, <3>1 DEF Filled
    <2>3. Top.member - 1 = Len(Class.members)
      <3>1. Len(Class.members) \in Nat /\ Top.member \in Nat
        BY <1>3, RangeMember DEF Frames
      <3> QED BY <1>2, <2>2, <3>1
    <2>4. Has(c, Class, Len(Class.members))
      BY <1>7, <2>2, <2>3 DEF Has
    <2> QED BY <1>3, <1>4, <1>7, <2>4 DEF Complete
  <1>12. /\ \A n \in DOMAIN cl : ~Fills(world, ls[m], n) => d[n] = cl[n]
         /\ \A n \in DOMAIN cl \ Natives(world) : Fills(world, ls[m], n) => d[n].deleted \/ Complete(world, d[n], n)
    BY <1>8, <1>10, <1>11
  <1>13. /\ Len(t) \in Nat /\ (Len(t) = m \/ Len(t) = m - 1)
         /\ \A k \in 1 .. m - 1 : SamePlace(t[k], ls[k])
         /\ Len(t) = m => t[m].step = "super"
    <2>1. CASE Top.class < Len(world.files[Top.name])
      <3>1. PICK l : l = [Top EXCEPT !.class = @ + 1, !.step = "super", !.found = Unknown]
        OBVIOUS
      <3>2. PICK u \in Frames(world) : u = Top
        BY <1>3
      <3>3. l = [u EXCEPT !.class = u.class + 1, !.step = "super", !.found = Unknown]
        BY <3>1, <3>2
      <3>4. l = [name |-> u.name, addToExisting |-> u.addToExisting, class |-> u.class + 1, step |-> "super",
                 member |-> u.member, ref |-> u.ref, found |-> Unknown]
        BY <3>2, <3>3 DEF Frames
      <3>5. l \in Frames(world) /\ l.step = "super"
        BY <3>2, <3>4 DEF Frames
      <3>6. Become(l)
        BY <2>1, <3>1 DEF EndClass
      <3>7. Len(loads') = Len(loads) /\ loads'[Len(loads)] = l
            /\ \A k \in 1 .. Len(loads) - 1 : SamePlace(loads'[k], loads[k])
        BY <1>1, <1>2, <3>5, <3>6, BecomeStack
      <3> QED BY <1>9, <3>5, <3>7
    <2>2. CASE ~(Top.class < Len(world.files[Top.name]))
      <3>1. PICK answer : Return(answer)
        BY <2>2 DEF EndClass
      <3>2. /\ Len(loads') \in Nat /\ Len(loads') = Len(loads) - 1
            /\ \A k \in 1 .. Len(loads) - 1 : SamePlace(loads'[k], loads[k])
        BY <1>1, <1>2, <3>1, ReturnStack
      <3> QED BY <1>9, <3>2
    <2> QED BY <2>1, <2>2
  <1>14. WOK(world, ls, cl) /\ Len(ls) = m
    BY <1>1, <1>4, <1>9
  <1>15. WOK(world, t, d)
    BY <1>8, <1>9, <1>12, <1>13, <1>14, WholeEnded
  <1> QED BY <1>4, <1>9, <1>15

(* A class that is there is begun only by the script of a class written in C++. *)
LEMMA KnownIsNative ==
    ASSUME Once, TInv, loads # <<>>, Top.addToExisting
    PROVE  Len(loads) = 1 /\ Class.name \in Natives(world)
  <1>1. /\ loads \in Seq(Frames(world)) /\ Len(loads) \in Nat \ {0} /\ Top = loads[Len(loads)]
        /\ Top \in Frames(world) /\ Class \in Range(world.files[Top.name])
    BY TopOK
  <1>2. Stacked(world, loads, DOMAIN classes) /\ world \in Worlds
    BY DEF TInv
  <1>3. Len(loads) = 1
    <2>1. ASSUME Len(loads) # 1 PROVE FALSE
      <3>1. Len(loads) \in 2 .. Len(loads)
        <4>1. PICK m \in Nat \ {0} : m = Len(loads)
          BY <1>1
        <4> QED BY <2>1, <4>1
      <3>2. ~loads[Len(loads)].addToExisting
        BY <1>2, <3>1 DEF Stacked
      <3> QED BY <1>1, <3>2
    <2> QED BY <2>1
  <1>4. Top.name \in Natives(world)
    BY <1>1, <1>2, <1>3 DEF Stacked, Natives
  <1>5. Top.name \in DOMAIN world.files
    BY <1>1 DEF Frames
  <1>6. PICK n \in Range(world.natives) : n.name = Top.name
    BY <1>4 DEF Natives
  <1>7. Class.name = Top.name
    BY <1>1, <1>2, <1>5, <1>6 DEF Once, DeclaredOnce, OwnScripts
  <1> QED BY <1>3, <1>4, <1>7

LEMMA BeginClassWhole == ASSUME Once, WInv, BeginClass PROVE WOK(world, loads', classes')
  <1>1. TInv /\ WOK(world, loads, classes)
    BY DEF WInv
  <1>2. loads # <<>> /\ Top.step = "super"
    BY DEF BeginClass, Loading
  <1>3. /\ Len(loads) \in Nat \ {0} /\ Top = loads[Len(loads)] /\ Class = Parsed(world, Top)
        /\ Top \in Frames(world) /\ IsSeq(Class.members)
    BY <1>1, <1>2, TopOK
  <1>4. PICK ls, t, m : ls = loads /\ t = loads' /\ m = Len(loads) /\ m \in Nat \ {0}
    BY <1>3
  <1>5. CASE Fail /\ UNCHANGED classes
    <2>1. Return(None)
      BY <1>5 DEF Fail
    <2>2. /\ Len(loads') \in Nat /\ Len(loads') = Len(loads) - 1
          /\ \A k \in 1 .. Len(loads) - 1 : SamePlace(loads'[k], loads[k])
      BY <1>1, <1>2, <2>1, ReturnStack
    <2>3. \A n : ~Fills(world, ls[m], n)
      BY <1>2, <1>3, <1>4 DEF Fills
    <2>4. /\ Len(t) \in Nat /\ Len(t) = Len(ls) - 1 /\ Len(ls) = m /\ Len(t) # Len(ls)
          /\ \A k \in 1 .. m - 1 : SamePlace(t[k], ls[k])
      BY <1>4, <2>2
    <2>5. WOK(world, t, classes)
      BY <1>1, <1>4, <2>3, <2>4, WholeEnded
    <2> QED BY <1>4, <1>5, <2>5
  <1>6. CASE ~(Fail /\ UNCHANGED classes)
    <2>1. PICK c :
            /\ Class.name \in DOMAIN classes => Top.addToExisting
            /\ Class.name \notin DOMAIN classes => c.fields = <<>> /\ c.statics = <<>> /\ c.methods = {}
            /\ classes' = [n \in DOMAIN classes \cup {Class.name} |-> IF n = Class.name THEN c ELSE classes[n]]
            /\ Become([Top EXCEPT !.step = "members", !.member = 1, !.ref = 1, !.found = Unknown])
      BY <1>1, <1>6, BeginEffect
    <2>2. PICK l : l = [Top EXCEPT !.step = "members", !.member = 1, !.ref = 1, !.found = Unknown]
      OBVIOUS
    <2>3. /\ l \in Frames(world) /\ l.name = Top.name /\ l.class = Top.class
          /\ l.step = "members" /\ l.member = 1
      <3>1. PICK u \in Frames(world) : u = Top
        BY <1>3
      <3>2. l = [u EXCEPT !.step = "members", !.member = 1, !.ref = 1, !.found = Unknown]
        BY <2>2, <3>1
      <3>3. l = [name |-> u.name, addToExisting |-> u.addToExisting, class |-> u.class, step |-> "members",
                 member |-> 1, ref |-> 1, found |-> Unknown]
        BY <3>1, <3>2 DEF Frames
      <3> QED BY <3>1, <3>3 DEF Frames
    <2>4. /\ Len(loads') = Len(loads) /\ loads'[Len(loads)] = l
          /\ \A k \in 1 .. Len(loads) - 1 : SamePlace(loads'[k], loads[k])
      BY <1>1, <1>2, <2>1, <2>2, <2>3, BecomeStack
    <2>5. PICK cl, d, b : cl = classes /\ d = classes' /\ b = Class.name
      OBVIOUS
    <2>6. DOMAIN d = DOMAIN cl \cup {b} /\ d[b] = c /\ \A n \in DOMAIN cl : n # b => d[n] = cl[n]
      <3>1. d = [n \in DOMAIN cl \cup {b} |-> IF n = b THEN c ELSE cl[n]]
        BY <2>1, <2>5
      <3> QED BY <3>1
    <2>7. Parsed(world, l) = Class /\ Fills(world, l, b)
      BY <1>3, <2>3, <2>5 DEF Parsed, Fills
    <2>8. b \in DOMAIN cl => m = 1 /\ b \in Natives(world)
      BY <1>1, <1>2, <1>4, <2>1, <2>5, KnownIsNative
    <2>9. \A k \in 1 .. m - 1 : ~Fills(world, ls[k], b)
      <3>1. SUFFICES ASSUME NEW k \in 1 .. m - 1, Fills(world, ls[k], b) PROVE FALSE
        OBVIOUS
      <3>2. k \in 1 .. Len(ls) /\ m # 1
        BY <1>4
      <3>3. FrameOK(world, ls[k], DOMAIN cl)
        BY <1>1, <1>4, <2>5, <3>2 DEF TInv, Stacked
      <3>4. b \in DOMAIN cl
        BY <3>1, <3>3 DEF Fills, FrameOK
      <3> QED BY <2>8, <3>2, <3>4
    <2>10. b \notin Natives(world) =>
             l.member <= Len(Parsed(world, l).members) + 1 /\ Has(d[b], Parsed(world, l), l.member - 1)
      <3>1. SUFFICES ASSUME b \notin Natives(world)
                     PROVE  1 <= Len(Class.members) + 1 /\ Has(c, Class, 0)
        BY <2>3, <2>6, <2>7
      <3>2. Len(Class.members) \in Nat
        BY <1>3, RangeMember
      <3>3. c.fields = <<>> /\ c.statics = <<>> /\ c.methods = {}
        BY <2>1, <2>5, <2>8, <3>1
      <3> QED BY <3>2, <3>3, HasNone
    <2>11. /\ Len(ls) = m /\ Len(t) = m /\ t[m] = l /\ WOK(world, ls, cl)
           /\ \A k \in 1 .. m - 1 : SamePlace(t[k], ls[k])
           /\ b = Parsed(world, ls[m]).name
      BY <1>1, <1>3, <1>4, <2>4, <2>5
    <2>12. WOK(world, t, d)
      BY <1>4, <2>6, <2>7, <2>9, <2>10, <2>11, WholeTop
    <2> QED BY <1>4, <2>5, <2>12
  <1> QED BY <1>5, <1>6

(* The first load begins, or there is none. *)
LEMMA FirstWhole ==
    ASSUME NEW w, NEW cl, WOK(w, <<>>, cl), NEW l, l.step = "super"
    PROVE  WOK(w, <<l>>, cl)
  <1>1. Len(<<l>>) = 1 /\ <<l>>[1] = l /\ Len(<<>>) = 0
    OBVIOUS
  <1>2. PICK ls, t : ls = <<>> /\ t = <<l>>
    OBVIOUS
  <1>3. /\ Len(ls) = 0 /\ Len(t) = 1 /\ t[1] = l
    BY <1>1, <1>2
  <1>4. WOK(w, t, cl)
    BY <1>2, <1>3, WholeKept
  <1> QED BY <1>2, <1>4

LEMMA AskWhole == ASSUME WInv, Ask PROVE WOK(world, loads', classes')
  <1>1. WOK(world, <<>>, classes) /\ classes' = classes /\ loads = <<>>
    BY DEF WInv, Ask, Idle
  <1>2. PICK name : loads' = <<Load(name, FALSE)>> \/ loads' = loads
    BY DEF Ask
  <1>3. Load(name, FALSE).step = "super"
    BY DEF Load
  <1>4. PICK l : l = Load(name, FALSE)
    OBVIOUS
  <1>5. WOK(world, <<l>>, classes)
    BY <1>1, <1>3, <1>4, FirstWhole
  <1> QED BY <1>1, <1>2, <1>4, <1>5

LEMMA AddNativeWhole == ASSUME WInv, AddNative PROVE WOK(world, loads', classes')
  <1>1. TInv /\ WOK(world, loads, classes)
    BY DEF WInv
  <1>2. PICK name : name = Head(natives).name
    OBVIOUS
  <1>3. /\ loads = <<>> /\ name \in Natives(world)
        /\ \/ UNCHANGED <<classes, loads>>
           \/ /\ name \notin DOMAIN classes
              /\ loads' = IF name \in DOMAIN world.files THEN <<Load(name, TRUE)>> ELSE <<>>
              /\ \E c : classes' = [n \in DOMAIN classes \cup {name} |-> IF n = name THEN c ELSE classes[n]]
    BY <1>1, <1>2, NativeEffect DEF Natives
  <1>4. CASE UNCHANGED <<classes, loads>>
    BY <1>1, <1>4
  <1>5. CASE ~UNCHANGED <<classes, loads>>
    <2>1. PICK c : classes' = [n \in DOMAIN classes \cup {name} |-> IF n = name THEN c ELSE classes[n]]
      BY <1>3, <1>5
    <2>2. PICK cl, d : cl = classes /\ d = classes'
      OBVIOUS
    <2>3. DOMAIN d = DOMAIN cl \cup {name} /\ \A n \in DOMAIN cl : n # name => d[n] = cl[n]
      <3>1. d = [n \in DOMAIN cl \cup {name} |-> IF n = name THEN c ELSE cl[n]]
        BY <2>1, <2>2
      <3> QED BY <3>1
    <2>4. \A n \in DOMAIN d \ Natives(world) : n \in DOMAIN cl \ Natives(world) /\ d[n] = cl[n]
      BY <1>3, <2>3
    <2>5. Settled(world, <<>>, d)
      <3>1. Settled(world, <<>>, cl)
        BY <1>1, <1>3, <2>2 DEF WOK
      <3> QED BY <2>4, <3>1 DEF Settled
    <2>6. WOK(world, <<>>, d)
      BY <2>5 DEF WOK, Filled, OneLoad
    <2>7. PICK l : l = Load(name, TRUE)
      OBVIOUS
    <2>8. WOK(world, <<l>>, d)
      BY <2>6, <2>7, FirstWhole DEF Load
    <2> QED BY <1>3, <1>5, <2>2, <2>6, <2>7, <2>8
  <1> QED BY <1>4, <1>5

LEMMA InitWInv == Init => WInv
  <1> SUFFICES ASSUME Init PROVE WInv
    OBVIOUS
  <1>2. TInv /\ classes = <<>> /\ loads = <<>>
    BY InitTInv DEF Init
  <1>3. DOMAIN classes = {} /\ Len(loads) = 0
    BY <1>2
  <1> QED BY <1>2, <1>3 DEF WInv, WOK, Filled, OneLoad, Settled

LEMMA WInvStep == ASSUME Once, WInv, [Next]_vars PROVE WInv'
  <1>1. TInv'
    BY TInvStep DEF WInv
  <1>2. world' = world
    BY DEF Next, Step, Done, vars, AddNative, Ask, FindSuper, BeginClass, FindReference, Referred, AddMember,
           EndClass, Find
  <1>3. WOK(world, loads', classes')
    <2>1. CASE AddNative BY <2>1, AddNativeWhole
    <2>2. CASE Ask BY <2>2, AskWhole
    <2>3. CASE FindSuper BY <2>3, FindSuperWhole
    <2>4. CASE BeginClass BY <2>4, BeginClassWhole
    <2>5. CASE FindReference BY <2>5, FindReferenceWhole
    <2>6. CASE Referred BY <2>6, ReferredWhole
    <2>7. CASE AddMember BY <2>7, AddMemberWhole
    <2>8. CASE EndClass BY <2>8, EndClassWhole
    <2>9. CASE UNCHANGED vars
      BY <2>9 DEF vars, WInv
    <2> QED BY <2>1, <2>2, <2>3, <2>4, <2>5, <2>6, <2>7, <2>8, <2>9 DEF Next, Step, Done
  <1> QED BY <1>1, <1>2, <1>3 DEF WInv

(* All members that a class declares, of one kind. *)
LEMMA GivenAll ==
    ASSUME NEW d, IsSeq(d.members), NEW kind
    PROVE  Given(d, Len(d.members), kind) = {m.name : m \in {mem \in Range(d.members) : mem.kind = kind}}
  <1>1. /\ \A i \in 1 .. Len(d.members) : d.members[i] \in Range(d.members)
        /\ \A e \in Range(d.members) : \E i \in 1 .. Len(d.members) : d.members[i] = e
    BY RangeMember
  <1>2. PICK ms, R, k : ms = d.members /\ R = Range(d.members) /\ k = Len(d.members)
    OBVIOUS
  <1>3. (\A i \in 1 .. k : ms[i] \in R) /\ \A e \in R : \E i \in 1 .. k : ms[i] = e
    BY <1>1, <1>2
  <1>4. {ms[i].name : i \in {j \in 1 .. k : ms[j].kind = kind}} = {m.name : m \in {mem \in R : mem.kind = kind}}
    BY <1>3
  <1> QED BY <1>2, <1>4 DEF Given

LEMMA WInvWhole == ASSUME Once, WInv PROVE ScriptsWhole
  <1>1. SUFFICES ASSUME Idle, NEW d \in Declared(world),
                        d.name \in DOMAIN classes \ NativeNames, ~classes[d.name].deleted
                 PROVE  LET c == classes[d.name]
                            Members(kind) == {m.name : m \in {mem \in Range(d.members) : mem.kind = kind}}
                        IN  c.state = "COMPLETE" /\ c.methods = Members("method")
                              /\ Names(c.fields) = Members("field") /\ Names(c.statics) = Members("static")
    BY DEF ScriptsWhole, Names
  <1>2. NativeNames = Natives(world)
    BY DEF NativeNames, Natives
  <1>3. world \in Worlds /\ loads = <<>> /\ Settled(world, loads, classes)
    BY <1>1 DEF WInv, TInv, WOK, Idle
  <1>4. Complete(world, classes[d.name], d.name)
    BY <1>1, <1>2, <1>3 DEF Settled
  <1>5. PICK e \in Declared(world) : e.name = d.name /\ classes[d.name].state = "COMPLETE"
                                     /\ Has(classes[d.name], e, Len(e.members))
    BY <1>4 DEF Complete
  <1>6. e = d
    BY <1>1, <1>2, <1>3, <1>5 DEF Once, DeclaredOnce
  <1>7. IsSeq(d.members)
    BY <1>3, WorldAssumption
  <1> QED BY <1>5, <1>6, <1>7, GivenAll DEF Has

-----------------------------------------------------------------------------
(***************************************************************************)
(* Theorems                                                                *)
(***************************************************************************)
(***************************************************************************)
(* The class table is well formed however the loads are nested, and where  *)
(* one of them fails: a class that another refers to is in m_classes, and  *)
(* findClass answers with the class that it was asked for, or with none    *)
(* (Runtime::addClass, findClass and loadClass, Parser::parseClass).       *)
(***************************************************************************)
THEOREM TypeTheorem == Spec => []TypeOK
  <1>1. TInv /\ [Next]_vars => TInv'
    BY TInvStep
  <1> QED BY InitTInv, <1>1, TInvTypes, PTL DEF Spec

(***************************************************************************)
(* No two fields of an object share a slot, and none is outside of it:     *)
(* Class::Class begins a class behind its superclass, as it is then, and   *)
(* no class that may still get fields is ever extended.  The files have to *)
(* be layered: no class is reached, while it is parsed, from a class that  *)
(* extends it.                                                             *)
(***************************************************************************)
THEOREM FieldsTheorem == ASSUME Sorted PROVE Spec => []FieldsApart
  <1>1. LInv /\ [Next]_vars => LInv'
    BY LInvStep
  <1> QED BY InitLInv, <1>1, LInvFields, PTL DEF Spec

(***************************************************************************)
(* However the loads of the classes interrupt each other, and fail, no     *)
(* class of a script is left half there when all of them are over: it has  *)
(* just the members that its file declares and is COMPLETE, or delete was  *)
(* called for it (Parser::parse and parseClass, Runtime::loadClass).  The  *)
(* class path declares no class twice, and the script of a class written   *)
(* in C++ is about that class.                                             *)
(***************************************************************************)
THEOREM WholeTheorem == ASSUME Once PROVE Spec => []ScriptsWhole
  <1>1. WInv /\ [Next]_vars => WInv'
    BY WInvStep
  <1>2. WInv => ScriptsWhole
    BY WInvWhole
  <1> QED BY InitWInv, <1>1, <1>2, PTL DEF Spec
=============================================================================
