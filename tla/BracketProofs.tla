----------------------------- MODULE BracketProofs -----------------------------
(***************************************************************************)
(* That the parser accepts no source whose brackets do not match, for      *)
(* every source: what is open behind the tokens that were read is what the *)
(* activations on the stack hold (Ledger).                                 *)
(***************************************************************************)
EXTENDS ParserProofs

-----------------------------------------------------------------------------
(***************************************************************************)
(* Brackets.  Depth is how many brackets of a pair are open behind the     *)
(* first n tokens.                                                         *)
(***************************************************************************)
OfKind(ts, kind, n) == {j \in 1 .. n : ts[j].k = kind}
Count(ts, kind, n) == Cardinality(OfKind(ts, kind, n))
Depth(ts, pair, n) == Count(ts, pair[1], n) - Count(ts, pair[2], n)

Weight(pair, kind) == IF kind = pair[1] THEN 1 ELSE IF kind = pair[2] THEN -1 ELSE 0

BracketKinds == {"(", ")", "[", "]", "{", "}"}

LEMMA PairsAre ==
    ASSUME NEW pair \in Pairs
    PROVE  /\ pair[1] \in {"(", "[", "{"} /\ pair[1] # pair[2] /\ pair[2] \in {")", "]", "}"}
           /\ pair[1] = "(" <=> pair[2] = ")"
           /\ pair[1] = "[" <=> pair[2] = "]"
           /\ pair[1] = "{" <=> pair[2] = "}"
  <1>1. pair = <<"(", ")">> \/ pair = <<"[", "]">> \/ pair = <<"{", "}">>
    BY DEF Pairs
  <1>2. CASE pair = <<"(", ")">>
    <2>1. pair[1] = "(" /\ pair[2] = ")"
      BY <1>2
    <2> QED BY <2>1
  <1>3. CASE pair = <<"[", "]">>
    <2>1. pair[1] = "[" /\ pair[2] = "]"
      BY <1>3
    <2> QED BY <2>1
  <1>4. CASE pair = <<"{", "}">>
    <2>1. pair[1] = "{" /\ pair[2] = "}"
      BY <1>4
    <2> QED BY <2>1
  <1> QED BY <1>1, <1>2, <1>3, <1>4

LEMMA CountStep ==
    ASSUME NEW ts, NEW kind, NEW n \in Nat
    PROVE  /\ Count(ts, kind, n) \in Nat
           /\ ts[n + 1].k = kind => Count(ts, kind, n + 1) = Count(ts, kind, n) + 1
           /\ ts[n + 1].k # kind => Count(ts, kind, n + 1) = Count(ts, kind, n)
  <1>1. PICK A, B : A = OfKind(ts, kind, n) /\ B = OfKind(ts, kind, n + 1)
    OBVIOUS
  <1>2. IsFiniteSet(A) /\ Cardinality(A) \in Nat
    <2>1. IsFiniteSet(1 .. n)
      BY FS_Interval
    <2>2. A \subseteq 1 .. n
      BY <1>1 DEF OfKind
    <2> QED BY <2>1, <2>2, FS_Subset, FS_CardinalityType
  <1>3. ASSUME ts[n + 1].k = kind PROVE Cardinality(B) = Cardinality(A) + 1
    <2>1. B = A \cup {n + 1} /\ n + 1 \notin A
      BY <1>1, <1>3 DEF OfKind
    <2> QED BY <1>2, <2>1, FS_AddElement
  <1>4. ASSUME ts[n + 1].k # kind PROVE B = A
    BY <1>1, <1>4 DEF OfKind
  <1> QED BY <1>1, <1>2, <1>3, <1>4 DEF Count

LEMMA DepthStep ==
    ASSUME NEW ts, NEW pair \in Pairs, NEW n \in Nat
    PROVE  /\ Depth(ts, pair, n) \in Int
           /\ Depth(ts, pair, n + 1) = Depth(ts, pair, n) + Weight(pair, ts[n + 1].k)
  <1>1. PICK open, close : open = pair[1] /\ close = pair[2] /\ open # close
    BY PairsAre
  <1>2. PICK a \in Nat : a = Count(ts, open, n)
    BY CountStep
  <1>3. PICK b \in Nat : b = Count(ts, close, n)
    BY CountStep
  <1>4. /\ ts[n + 1].k = open => Count(ts, open, n + 1) = a + 1
        /\ ts[n + 1].k # open => Count(ts, open, n + 1) = a
    BY <1>2, CountStep
  <1>5. /\ ts[n + 1].k = close => Count(ts, close, n + 1) = b + 1
        /\ ts[n + 1].k # close => Count(ts, close, n + 1) = b
    BY <1>3, CountStep
  <1>6. Depth(ts, pair, n) = a - b
    BY <1>1, <1>2, <1>3 DEF Depth
  <1>7. Depth(ts, pair, n + 1) = Count(ts, open, n + 1) - Count(ts, close, n + 1)
    BY <1>1 DEF Depth
  <1>8. CASE ts[n + 1].k = open
    BY <1>1, <1>4, <1>5, <1>6, <1>7, <1>8 DEF Weight
  <1>9. CASE ts[n + 1].k = close
    BY <1>1, <1>4, <1>5, <1>6, <1>7, <1>9 DEF Weight
  <1>10. CASE ts[n + 1].k # open /\ ts[n + 1].k # close
    BY <1>1, <1>4, <1>5, <1>6, <1>7, <1>10 DEF Weight
  <1> QED BY <1>8, <1>9, <1>10

LEMMA DepthNone ==
    ASSUME NEW ts, NEW pair \in Pairs
    PROVE  Depth(ts, pair, 0) = 0
  <1>1. \A kind : OfKind(ts, kind, 0) = {}
    BY DEF OfKind
  <1>2. Cardinality({}) = 0
    BY FS_EmptySet
  <1> QED BY <1>1, <1>2 DEF Depth, Count

(* Tokens that are no brackets change nothing. *)
LEMMA DepthSame ==
    ASSUME NEW ts, NEW pair \in Pairs, NEW m \in Nat, NEW n \in Nat, m <= n,
           \A j \in m + 1 .. n : ts[j].k \notin BracketKinds
    PROVE  Depth(ts, pair, n) = Depth(ts, pair, m)
  <1>1. pair[1] \in BracketKinds /\ pair[2] \in BracketKinds
    BY PairsAre DEF BracketKinds
  <1>2. ASSUME NEW kind \in BracketKinds
        PROVE  Count(ts, kind, n) = Count(ts, kind, m)
    <2>1. \A j \in 1 .. n : j \in 1 .. m \/ j \in m + 1 .. n
      OBVIOUS
    <2>2. \A j \in 1 .. m : j \in 1 .. n
      OBVIOUS
    <2>3. OfKind(ts, kind, n) = OfKind(ts, kind, m)
      BY <2>1, <2>2 DEF OfKind
    <2> QED BY <2>3 DEF Count
  <1> QED BY <1>1, <1>2 DEF Depth

-----------------------------------------------------------------------------
(***************************************************************************)
(* What is open belongs to the activations: a statement is between its     *)
(* brackets or in front of a block, an expression counts its brackets, a   *)
(* list, an index and a block of an else hold the one that they began      *)
(* with.                                                                   *)
(***************************************************************************)
Between(form) ==
    CASE form \in {"if", "while"} -> 2 .. 3
      [] form = "for" -> 2 .. 7
      [] form = "try" -> 5 .. 6
      [] OTHER -> {}

Bracketed(form, at) == IF at \in Between(form) THEN 1 ELSE 0
Braced(form, at) == IF at <= Len(Forms[form]) /\ Forms[form][at] = "BLOCK" THEN 1 ELSE 0

(* f is called by b. *)
Holds(b, f, open) ==
    CASE f.kind = "statement" -> IF open = "(" THEN Bracketed(f.form, f.at)
                                 ELSE IF open = "{" THEN Braced(f.form, f.at) ELSE 0
      [] f.kind = "block" -> IF open = "{" /\ ~f.single /\ Asks(b) = "ELSE" THEN 1 ELSE 0
      [] f.kind = "expression" -> IF open = "(" THEN f.brackets ELSE 0
      [] f.kind = "list" -> IF open = "(" THEN 1 ELSE 0
      [] f.kind = "index" -> IF open = "[" THEN 1 ELSE 0

(* d brackets are open in s. *)
Level(s, open, d) ==
    \E L \in [Nat -> Nat] :
      /\ L[1] = 0 /\ L[Len(s) + 1] = d
      /\ \A k \in 1 .. Len(s) : L[k + 1] = L[k] + Holds(Under(s, k), s[k], open)

LEMMA HoldsNat ==
    ASSUME NEW b, NEW f, IsActivation(f), NEW open
    PROVE  Holds(b, f, open) \in Nat
  <1>1. CASE IsStatement(f)
    <2>1. f.kind = "statement"
      BY <1>1 DEF IsStatement
    <2> QED BY <2>1 DEF Holds, Bracketed, Braced
  <1>2. CASE IsBlock(f)
    <2>1. f.kind = "block"
      BY <1>2 DEF IsBlock
    <2> QED BY <2>1 DEF Holds
  <1>3. CASE IsExpression(f)
    <2>1. f.kind = "expression"
      BY <1>3 DEF IsExpression
    <2>2. f.brackets \in Nat
      BY <1>3, BracketsFinite DEF IsExpression
    <2> QED BY <2>1, <2>2 DEF Holds
  <1>4. CASE IsList(f)
    <2>1. f.kind = "list"
      BY <1>4 DEF IsList
    <2> QED BY <2>1 DEF Holds
  <1>5. CASE IsIndex(f)
    <2>1. f.kind = "index"
      BY <1>5 DEF IsIndex
    <2> QED BY <2>1 DEF Holds
  <1> QED BY <1>1, <1>2, <1>3, <1>4, <1>5 DEF IsActivation

LEMMA LevelPush ==
    ASSUME NEW s, Stacked(s), NEW open, NEW d, Level(s, open, d), NEW f, IsActivation(f)
    PROVE  Level(Append(s, f), open, d + Holds(Last(s), f, open))
  <1>1. PICK n \in Nat \ {0} : n = Len(s) /\ IsSeq(s) /\ Last(s) = s[n]
    BY TopOf
  <1>2. PICK L \in [Nat -> Nat] :
           /\ L[1] = 0 /\ L[n + 1] = d
           /\ \A k \in 1 .. n : L[k + 1] = L[k] + Holds(Under(s, k), s[k], open)
    BY <1>1 DEF Level
  <1>3. PICK h \in Nat : h = Holds(Last(s), f, open)
    BY HoldsNat
  <1>4. PICK M : M = [k \in Nat |-> IF k = n + 2 THEN L[n + 1] + h ELSE L[k]]
    OBVIOUS
  <1>5. M \in [Nat -> Nat] /\ M[1] = 0 /\ M[n + 2] = d + h /\ \A k \in 1 .. n + 1 : M[k] = L[k]
    BY <1>2, <1>3, <1>4
  <1>6. PICK t : t = Append(s, f)
    OBVIOUS
  <1>7. Len(t) = n + 1 /\ (\A k \in 1 .. n : t[k] = s[k]) /\ t[n + 1] = f
    BY <1>1, <1>6, Appended
  <1>8. ASSUME NEW k \in 1 .. n + 1 PROVE M[k + 1] = M[k] + Holds(Under(t, k), t[k], open)
    <2>1. CASE k \in 1 .. n
      <3>1. Under(t, k) = Under(s, k)
        <4>1. k = 1 \/ k - 1 \in 1 .. n
          BY <2>1
        <4> QED BY <1>7, <4>1 DEF Under
      <3>2. M[k + 1] = L[k + 1] /\ M[k] = L[k] /\ t[k] = s[k]
        <4>1. k \in 1 .. n + 1 /\ k + 1 \in 1 .. n + 1
          BY <2>1
        <4> QED BY <1>5, <1>7, <2>1, <4>1
      <3> QED BY <1>2, <2>1, <3>1, <3>2
    <2>2. CASE k = n + 1
      <3>1. Under(t, k) = s[n] /\ t[k] = f
        <4>1. k # 1 /\ k - 1 = n /\ n \in 1 .. n
          BY <2>2
        <4> QED BY <1>7, <2>2, <4>1 DEF Under
      <3>2. M[k + 1] = d + h /\ M[k] = d
        <4>1. k + 1 = n + 2 /\ n + 1 \in 1 .. n + 1
          BY <2>2
        <4> QED BY <1>2, <1>5, <2>2, <4>1
      <3> QED BY <1>1, <1>3, <3>1, <3>2
    <2> QED BY <2>1, <2>2
  <1>9. n + 1 + 1 = n + 2
    OBVIOUS
  <1>10. Level(t, open, d + h)
    <2>1. \A k \in 1 .. Len(t) : M[k + 1] = M[k] + Holds(Under(t, k), t[k], open)
      BY <1>7, <1>8
    <2>2. M[Len(t) + 1] = d + h
      BY <1>5, <1>7, <1>9
    <2> QED BY <1>5, <2>1, <2>2, Zenon DEF Level
  <1> QED BY <1>3, <1>6, <1>10

(* What the last one holds is counted last. *)
LEMMA LevelPop ==
    ASSUME NEW s, Stacked(s), Len(s) > 1, NEW open, NEW d, Level(s, open, d)
    PROVE  \E c \in Nat : Level(Front(s), open, c) /\ d = c + Holds(Last(Front(s)), Last(s), open)
  <1>1. PICK n \in Nat \ {0} : n = Len(s) /\ IsSeq(s) /\ Last(s) = s[n] /\ s # <<>>
    BY TopOf
  <1>2. PICK L \in [Nat -> Nat] :
           /\ L[1] = 0 /\ L[n + 1] = d
           /\ \A k \in 1 .. n : L[k + 1] = L[k] + Holds(Under(s, k), s[k], open)
    BY <1>1 DEF Level
  <1>3. PICK t : t = Front(s)
    OBVIOUS
  <1>4. Len(t) = n - 1 /\ \A i \in 1 .. n - 1 : t[i] = s[i]
    BY <1>1, <1>3, Fronts
  <1>5. ASSUME NEW k \in 1 .. n - 1 PROVE L[k + 1] = L[k] + Holds(Under(t, k), t[k], open)
    <2>1. Under(t, k) = Under(s, k)
      <3>1. k = 1 \/ k - 1 \in 1 .. n - 1
        OBVIOUS
      <3> QED BY <1>4, <3>1 DEF Under
    <2>2. k \in 1 .. n
      OBVIOUS
    <2> QED BY <1>2, <1>4, <2>1, <2>2
  <1>6. Level(t, open, L[n])
    <2>1. n - 1 + 1 = n
      OBVIOUS
    <2> QED BY <1>2, <1>4, <1>5, <2>1 DEF Level
  <1>7. d = L[n] + Holds(Last(t), Last(s), open)
    <2>1. Under(s, n) = Last(t)
      BY <1>1, <1>3, TopOf
    <2>2. n \in 1 .. n
      OBVIOUS
    <2> QED BY <1>1, <1>2, <2>1, <2>2
  <1>8. L[n] \in Nat
    BY <1>2
  <1> QED BY <1>3, <1>6, <1>7, <1>8

LEMMA LevelOne ==
    ASSUME NEW s, Stacked(s), Len(s) = 1, NEW open, NEW d
    PROVE  Level(s, open, d) <=> d = Holds(Ground, Last(s), open)
  <1>1. Last(s) = s[1] /\ IsActivation(Last(s))
    BY TopOf
  <1>2. PICK h \in Nat : h = Holds(Ground, Last(s), open)
    BY <1>1, HoldsNat
  <1>3. Under(s, 1) = Ground
    BY DEF Under
  <1>4. ASSUME Level(s, open, d) PROVE d = h
    <2>1. PICK L \in [Nat -> Nat] :
           /\ L[1] = 0 /\ L[1 + 1] = d
           /\ \A k \in 1 .. 1 : L[k + 1] = L[k] + Holds(Under(s, k), s[k], open)
      BY <1>4 DEF Level
    <2>2. 1 \in 1 .. 1
      OBVIOUS
    <2>3. L[1 + 1] = L[1] + h
      BY <1>1, <1>2, <1>3, <2>1, <2>2
    <2> QED BY <1>2, <2>1, <2>3
  <1>5. ASSUME d = h PROVE Level(s, open, d)
    <2>1. PICK L : L = [k \in Nat |-> IF k = 1 THEN 0 ELSE h]
      OBVIOUS
    <2>2. L \in [Nat -> Nat] /\ L[1] = 0 /\ L[1 + 1] = h
      BY <2>1
    <2>3. \A k \in 1 .. 1 : L[k + 1] = L[k] + Holds(Under(s, k), s[k], open)
      <3>1. L[1 + 1] = L[1] + Holds(Under(s, 1), s[1], open)
        BY <1>1, <1>2, <1>3, <2>2
      <3> QED BY <3>1
    <2> QED BY <1>5, <2>2, <2>3 DEF Level
  <1> QED BY <1>2, <1>4, <1>5

(* The last one is replaced. *)
LEMMA LevelReplace ==
    ASSUME NEW s, Stacked(s), NEW open, NEW d, Level(s, open, d), NEW f, IsActivation(f), Alike(Last(s), f)
    PROVE  /\ Holds(Under(s, Len(s)), Last(s), open) \in Nat
           /\ d \in Nat
           /\ Level(Append(Front(s), f), open,
                    d - Holds(Under(s, Len(s)), Last(s), open) + Holds(Under(s, Len(s)), f, open))
  <1>1. PICK u : u = Under(s, Len(s))
    OBVIOUS
  <1>2. PICK h \in Nat : h = Holds(u, Last(s), open)
    BY TopOf, HoldsNat
  <1>3. PICK g \in Nat : g = Holds(u, f, open)
    BY HoldsNat
  <1>4. CASE Len(s) = 1
    <2>1. u = Ground
      BY <1>1, <1>4 DEF Under
    <2>2. d = h
      BY <1>2, <1>4, <2>1, LevelOne
    <2>3. PICK t : t = Append(Front(s), f)
      OBVIOUS
    <2>4. Stacked(t)
      BY <2>3, Replaced
    <2>5. Len(t) = 1 /\ Last(t) = f
      <3>1. IsSeq(Front(s)) /\ Len(Front(s)) = 0
        BY <1>4, TopOf, Fronts
      <3>2. 0 + 1 = 1
        OBVIOUS
      <3> QED BY <2>3, <3>1, <3>2, Appended
    <2>6. Level(t, open, g)
      BY <1>3, <2>1, <2>4, <2>5, LevelOne
    <2>7. d - h + g = g
      BY <2>2
    <2> QED BY <1>1, <1>2, <1>3, <2>2, <2>3, <2>6, <2>7
  <1>5. CASE Len(s) # 1
    <2>1. Len(s) > 1
      <3>1. PICK n \in Nat \ {0} : n = Len(s)
        BY TopOf
      <3> QED BY <1>5, <3>1
    <2>2. PICK t : t = Front(s)
      OBVIOUS
    <2>3. Stacked(t) /\ u = Last(t)
      BY <1>1, <2>1, <2>2, Popped, TopOf
    <2>4. PICK c \in Nat : Level(t, open, c) /\ d = c + h
      BY <1>2, <2>1, <2>2, <2>3, LevelPop
    <2>5. Level(Append(t, f), open, c + g)
      BY <1>3, <2>3, <2>4, LevelPush
    <2>6. d - h + g = c + g /\ d \in Nat
      BY <2>4
    <2> QED BY <1>1, <1>2, <1>3, <2>2, <2>5, <2>6
  <1> QED BY <1>4, <1>5

-----------------------------------------------------------------------------
(***************************************************************************)
(* What an item of a statement changes: g brackets and i blocks are held   *)
(* at it, h and j behind it.                                               *)
(***************************************************************************)
Shift(item, g, h, i, j) ==
    /\ g \in Nat /\ h \in Nat
    /\ item = "(" => h = g + 1
    /\ item = ")" => g = h + 1
    /\ item \notin {"(", ")"} => h = g
    /\ i = (IF item = "BLOCK" THEN 1 ELSE 0)
    /\ j = (IF item = "{" THEN 1 ELSE 0)
    /\ item \notin {"[", "]", "}"}

LEMMA Shifts ==
    ASSUME NEW form \in DOMAIN Forms, NEW at \in 1 .. Len(Forms[form])
    PROVE  /\ Shift(Forms[form][at], Bracketed(form, at), Bracketed(form, at + 1),
                    Braced(form, at), Braced(form, at + 1))
           /\ Bracketed(form, 1) = 0 /\ Braced(form, 1) = 0
           /\ Bracketed(form, Len(Forms[form]) + 1) = 0
  <1> DEFINE goal(a) == Shift(Forms[form][a], Bracketed(form, a), Bracketed(form, a + 1),
                              Braced(form, a), Braced(form, a + 1))
             ends(n) == Bracketed(form, 1) = 0 /\ Braced(form, 1) = 0 /\ Bracketed(form, n + 1) = 0
  <1>1. form \in {"function", "var", "if", "for", "while", "return", "try", "throw", "expression"}
    BY FormNames
  <1>2. PICK n \in Nat : n = Len(Forms[form])
    BY FormLength
  <1>3. at \in 1 .. n
    BY <1>2
  <1>4. CASE form = "function"
    <2>1. n = 3
      BY <1>2, <1>4, FormFunction
    <2>2. Bracketed(form, 1) = 0 /\ Bracketed(form, 2) = 0 /\ Bracketed(form, 3) = 0 /\ Bracketed(form, 4) = 0
      BY <1>4 DEF Bracketed, Between
    <2>3. Forms[form][1] = "PARAMS" /\ Forms[form][2] = "{" /\ Forms[form][3] = "BLOCK"
      BY <1>4, FormFunction
    <2>4. Braced(form, 1) = 0 /\ Braced(form, 2) = 0 /\ Braced(form, 3) = 1 /\ Braced(form, 4) = 0
      <3>1. Braced(form, 1) = 0
        BY <1>2, <2>1, <2>3 DEF Braced
      <3>2. Braced(form, 2) = 0
        BY <1>2, <2>1, <2>3 DEF Braced
      <3>3. Braced(form, 3) = 1
        <4>1. 3 <= Len(Forms[form])
          BY <1>2, <2>1
        <4>2. Forms[form][3] = "BLOCK"
          BY <2>3, Zenon
        <4> QED BY <4>1, <4>2, Zenon DEF Braced
      <3>4. Braced(form, 4) = 0
        BY <1>2, <2>1 DEF Braced
      <3> QED BY <3>1, <3>2, <3>3, <3>4
    <2>5. at \in {1, 2, 3}
      BY <1>3, <2>1
    <2>6. goal(1)
      <3>1. Shift("PARAMS", 0, 0, 0, 0)
        BY DEF Shift
      <3>2. 1 + 1 = 2
        OBVIOUS
      <3> QED BY <2>2, <2>3, <2>4, <3>1, <3>2, Zenon
    <2>7. goal(2)
      <3>1. Shift("{", 0, 0, 0, 1)
        BY DEF Shift
      <3>2. 2 + 1 = 3
        OBVIOUS
      <3> QED BY <2>2, <2>3, <2>4, <3>1, <3>2, Zenon
    <2>8. goal(3)
      <3>1. Shift("BLOCK", 0, 0, 1, 0)
        BY DEF Shift
      <3>2. 3 + 1 = 4
        OBVIOUS
      <3> QED BY <2>2, <2>3, <2>4, <3>1, <3>2, Zenon
    <2>9. ends(n)
      <3>1. n + 1 = 4
        BY <2>1
      <3> QED BY <2>2, <2>4, <3>1, Zenon
    <2> QED BY <1>2, <2>5, <2>6, <2>7, <2>8, <2>9, Zenon
  <1>5. CASE form = "var"
    <2>1. n = 3
      BY <1>2, <1>5, FormVar
    <2>2. Bracketed(form, 1) = 0 /\ Bracketed(form, 2) = 0 /\ Bracketed(form, 3) = 0 /\ Bracketed(form, 4) = 0
      BY <1>5 DEF Bracketed, Between
    <2>3. Forms[form][1] = "DECLARE" /\ Forms[form][2] = "EXPR" /\ Forms[form][3] = ";"
      BY <1>5, FormVar
    <2>4. Braced(form, 1) = 0 /\ Braced(form, 2) = 0 /\ Braced(form, 3) = 0 /\ Braced(form, 4) = 0
      <3>1. Braced(form, 1) = 0
        BY <1>2, <2>1, <2>3 DEF Braced
      <3>2. Braced(form, 2) = 0
        BY <1>2, <2>1, <2>3 DEF Braced
      <3>3. Braced(form, 3) = 0
        BY <1>2, <2>1, <2>3 DEF Braced
      <3>4. Braced(form, 4) = 0
        BY <1>2, <2>1 DEF Braced
      <3> QED BY <3>1, <3>2, <3>3, <3>4
    <2>5. at \in {1, 2, 3}
      BY <1>3, <2>1
    <2>6. goal(1)
      <3>1. Shift("DECLARE", 0, 0, 0, 0)
        BY DEF Shift
      <3>2. 1 + 1 = 2
        OBVIOUS
      <3> QED BY <2>2, <2>3, <2>4, <3>1, <3>2, Zenon
    <2>7. goal(2)
      <3>1. Shift("EXPR", 0, 0, 0, 0)
        BY DEF Shift
      <3>2. 2 + 1 = 3
        OBVIOUS
      <3> QED BY <2>2, <2>3, <2>4, <3>1, <3>2, Zenon
    <2>8. goal(3)
      <3>1. Shift(";", 0, 0, 0, 0)
        BY DEF Shift
      <3>2. 3 + 1 = 4
        OBVIOUS
      <3> QED BY <2>2, <2>3, <2>4, <3>1, <3>2, Zenon
    <2>9. ends(n)
      <3>1. n + 1 = 4
        BY <2>1
      <3> QED BY <2>2, <2>4, <3>1, Zenon
    <2> QED BY <1>2, <2>5, <2>6, <2>7, <2>8, <2>9, Zenon
  <1>6. CASE form = "if"
    <2>1. n = 6
      BY <1>2, <1>6, FormIf
    <2>2. Bracketed(form, 1) = 0 /\ Bracketed(form, 2) = 1 /\ Bracketed(form, 3) = 1 /\ Bracketed(form, 4) = 0
          /\ Bracketed(form, 5) = 0 /\ Bracketed(form, 6) = 0 /\ Bracketed(form, 7) = 0
      BY <1>6 DEF Bracketed, Between
    <2>3. Forms[form][1] = "(" /\ Forms[form][2] = "EXPR" /\ Forms[form][3] = ")" /\ Forms[form][4] = "{"
          /\ Forms[form][5] = "BLOCK" /\ Forms[form][6] = "ELSE"
      BY <1>6, FormIf
    <2>4. Braced(form, 1) = 0 /\ Braced(form, 2) = 0 /\ Braced(form, 3) = 0 /\ Braced(form, 4) = 0
          /\ Braced(form, 5) = 1 /\ Braced(form, 6) = 0 /\ Braced(form, 7) = 0
      <3>1. Braced(form, 1) = 0
        BY <1>2, <2>1, <2>3 DEF Braced
      <3>2. Braced(form, 2) = 0
        BY <1>2, <2>1, <2>3 DEF Braced
      <3>3. Braced(form, 3) = 0
        BY <1>2, <2>1, <2>3 DEF Braced
      <3>4. Braced(form, 4) = 0
        BY <1>2, <2>1, <2>3 DEF Braced
      <3>5. Braced(form, 5) = 1
        <4>1. 5 <= Len(Forms[form])
          BY <1>2, <2>1
        <4>2. Forms[form][5] = "BLOCK"
          BY <2>3, Zenon
        <4> QED BY <4>1, <4>2, Zenon DEF Braced
      <3>6. Braced(form, 6) = 0
        BY <1>2, <2>1, <2>3 DEF Braced
      <3>7. Braced(form, 7) = 0
        BY <1>2, <2>1 DEF Braced
      <3> QED BY <3>1, <3>2, <3>3, <3>4, <3>5, <3>6, <3>7
    <2>5. at \in {1, 2, 3, 4, 5, 6}
      BY <1>3, <2>1
    <2>6. goal(1)
      <3>1. Shift("(", 0, 1, 0, 0)
        BY DEF Shift
      <3>2. 1 + 1 = 2
        OBVIOUS
      <3> QED BY <2>2, <2>3, <2>4, <3>1, <3>2, Zenon
    <2>7. goal(2)
      <3>1. Shift("EXPR", 1, 1, 0, 0)
        BY DEF Shift
      <3>2. 2 + 1 = 3
        OBVIOUS
      <3> QED BY <2>2, <2>3, <2>4, <3>1, <3>2, Zenon
    <2>8. goal(3)
      <3>1. Shift(")", 1, 0, 0, 0)
        BY DEF Shift
      <3>2. 3 + 1 = 4
        OBVIOUS
      <3> QED BY <2>2, <2>3, <2>4, <3>1, <3>2, Zenon
    <2>9. goal(4)
      <3>1. Shift("{", 0, 0, 0, 1)
        BY DEF Shift
      <3>2. 4 + 1 = 5
        OBVIOUS
      <3> QED BY <2>2, <2>3, <2>4, <3>1, <3>2, Zenon
    <2>10. goal(5)
      <3>1. Shift("BLOCK", 0, 0, 1, 0)
        BY DEF Shift
      <3>2. 5 + 1 = 6
        OBVIOUS
      <3> QED BY <2>2, <2>3, <2>4, <3>1, <3>2, Zenon
    <2>11. goal(6)
      <3>1. Shift("ELSE", 0, 0, 0, 0)
        BY DEF Shift
      <3>2. 6 + 1 = 7
        OBVIOUS
      <3> QED BY <2>2, <2>3, <2>4, <3>1, <3>2, Zenon
    <2>12. ends(n)
      <3>1. n + 1 = 7
        BY <2>1
      <3> QED BY <2>2, <2>4, <3>1, Zenon
    <2> QED BY <1>2, <2>5, <2>6, <2>7, <2>8, <2>9, <2>10, <2>11, <2>12, Zenon
  <1>7. CASE form = "for"
    <2>1. n = 9
      BY <1>2, <1>7, FormFor
    <2>2. Bracketed(form, 1) = 0 /\ Bracketed(form, 2) = 1 /\ Bracketed(form, 3) = 1 /\ Bracketed(form, 4) = 1
          /\ Bracketed(form, 5) = 1 /\ Bracketed(form, 6) = 1 /\ Bracketed(form, 7) = 1
          /\ Bracketed(form, 8) = 0 /\ Bracketed(form, 9) = 0 /\ Bracketed(form, 10) = 0
      BY <1>7 DEF Bracketed, Between
    <2>3. Forms[form][1] = "(" /\ Forms[form][2] = "EXPR" /\ Forms[form][3] = ";" /\ Forms[form][4] = "EXPR"
          /\ Forms[form][5] = ";" /\ Forms[form][6] = "EXPR" /\ Forms[form][7] = ")" /\ Forms[form][8] = "{"
          /\ Forms[form][9] = "BLOCK"
      BY <1>7, FormFor
    <2>4. Braced(form, 1) = 0 /\ Braced(form, 2) = 0 /\ Braced(form, 3) = 0 /\ Braced(form, 4) = 0
          /\ Braced(form, 5) = 0 /\ Braced(form, 6) = 0 /\ Braced(form, 7) = 0 /\ Braced(form, 8) = 0
          /\ Braced(form, 9) = 1 /\ Braced(form, 10) = 0
      <3>1. Braced(form, 1) = 0
        BY <1>2, <2>1, <2>3 DEF Braced
      <3>2. Braced(form, 2) = 0
        BY <1>2, <2>1, <2>3 DEF Braced
      <3>3. Braced(form, 3) = 0
        BY <1>2, <2>1, <2>3 DEF Braced
      <3>4. Braced(form, 4) = 0
        BY <1>2, <2>1, <2>3 DEF Braced
      <3>5. Braced(form, 5) = 0
        BY <1>2, <2>1, <2>3 DEF Braced
      <3>6. Braced(form, 6) = 0
        BY <1>2, <2>1, <2>3 DEF Braced
      <3>7. Braced(form, 7) = 0
        BY <1>2, <2>1, <2>3 DEF Braced
      <3>8. Braced(form, 8) = 0
        BY <1>2, <2>1, <2>3 DEF Braced
      <3>9. Braced(form, 9) = 1
        <4>1. 9 <= Len(Forms[form])
          BY <1>2, <2>1
        <4>2. Forms[form][9] = "BLOCK"
          BY <2>3, Zenon
        <4> QED BY <4>1, <4>2, Zenon DEF Braced
      <3>10. Braced(form, 10) = 0
        BY <1>2, <2>1 DEF Braced
      <3> QED BY <3>1, <3>2, <3>3, <3>4, <3>5, <3>6, <3>7, <3>8, <3>9, <3>10
    <2>5. at \in {1, 2, 3, 4, 5, 6, 7, 8, 9}
      BY <1>3, <2>1
    <2>6. goal(1)
      <3>1. Shift("(", 0, 1, 0, 0)
        BY DEF Shift
      <3>2. 1 + 1 = 2
        OBVIOUS
      <3> QED BY <2>2, <2>3, <2>4, <3>1, <3>2, Zenon
    <2>7. goal(2)
      <3>1. Shift("EXPR", 1, 1, 0, 0)
        BY DEF Shift
      <3>2. 2 + 1 = 3
        OBVIOUS
      <3> QED BY <2>2, <2>3, <2>4, <3>1, <3>2, Zenon
    <2>8. goal(3)
      <3>1. Shift(";", 1, 1, 0, 0)
        BY DEF Shift
      <3>2. 3 + 1 = 4
        OBVIOUS
      <3> QED BY <2>2, <2>3, <2>4, <3>1, <3>2, Zenon
    <2>9. goal(4)
      <3>1. Shift("EXPR", 1, 1, 0, 0)
        BY DEF Shift
      <3>2. 4 + 1 = 5
        OBVIOUS
      <3> QED BY <2>2, <2>3, <2>4, <3>1, <3>2, Zenon
    <2>10. goal(5)
      <3>1. Shift(";", 1, 1, 0, 0)
        BY DEF Shift
      <3>2. 5 + 1 = 6
        OBVIOUS
      <3> QED BY <2>2, <2>3, <2>4, <3>1, <3>2, Zenon
    <2>11. goal(6)
      <3>1. Shift("EXPR", 1, 1, 0, 0)
        BY DEF Shift
      <3>2. 6 + 1 = 7
        OBVIOUS
      <3> QED BY <2>2, <2>3, <2>4, <3>1, <3>2, Zenon
    <2>12. goal(7)
      <3>1. Shift(")", 1, 0, 0, 0)
        BY DEF Shift
      <3>2. 7 + 1 = 8
        OBVIOUS
      <3> QED BY <2>2, <2>3, <2>4, <3>1, <3>2, Zenon
    <2>13. goal(8)
      <3>1. Shift("{", 0, 0, 0, 1)
        BY DEF Shift
      <3>2. 8 + 1 = 9
        OBVIOUS
      <3> QED BY <2>2, <2>3, <2>4, <3>1, <3>2, Zenon
    <2>14. goal(9)
      <3>1. Shift("BLOCK", 0, 0, 1, 0)
        BY DEF Shift
      <3>2. 9 + 1 = 10
        OBVIOUS
      <3> QED BY <2>2, <2>3, <2>4, <3>1, <3>2, Zenon
    <2>15. ends(n)
      <3>1. n + 1 = 10
        BY <2>1
      <3> QED BY <2>2, <2>4, <3>1, Zenon
    <2> QED BY <1>2, <2>5, <2>6, <2>7, <2>8, <2>9, <2>10, <2>11, <2>12, <2>13, <2>14, <2>15, Zenon
  <1>8. CASE form = "while"
    <2>1. n = 5
      BY <1>2, <1>8, FormWhile
    <2>2. Bracketed(form, 1) = 0 /\ Bracketed(form, 2) = 1 /\ Bracketed(form, 3) = 1 /\ Bracketed(form, 4) = 0
          /\ Bracketed(form, 5) = 0 /\ Bracketed(form, 6) = 0
      BY <1>8 DEF Bracketed, Between
    <2>3. Forms[form][1] = "(" /\ Forms[form][2] = "EXPR" /\ Forms[form][3] = ")" /\ Forms[form][4] = "{"
          /\ Forms[form][5] = "BLOCK"
      BY <1>8, FormWhile
    <2>4. Braced(form, 1) = 0 /\ Braced(form, 2) = 0 /\ Braced(form, 3) = 0 /\ Braced(form, 4) = 0
          /\ Braced(form, 5) = 1 /\ Braced(form, 6) = 0
      <3>1. Braced(form, 1) = 0
        BY <1>2, <2>1, <2>3 DEF Braced
      <3>2. Braced(form, 2) = 0
        BY <1>2, <2>1, <2>3 DEF Braced
      <3>3. Braced(form, 3) = 0
        BY <1>2, <2>1, <2>3 DEF Braced
      <3>4. Braced(form, 4) = 0
        BY <1>2, <2>1, <2>3 DEF Braced
      <3>5. Braced(form, 5) = 1
        <4>1. 5 <= Len(Forms[form])
          BY <1>2, <2>1
        <4>2. Forms[form][5] = "BLOCK"
          BY <2>3, Zenon
        <4> QED BY <4>1, <4>2, Zenon DEF Braced
      <3>6. Braced(form, 6) = 0
        BY <1>2, <2>1 DEF Braced
      <3> QED BY <3>1, <3>2, <3>3, <3>4, <3>5, <3>6
    <2>5. at \in {1, 2, 3, 4, 5}
      BY <1>3, <2>1
    <2>6. goal(1)
      <3>1. Shift("(", 0, 1, 0, 0)
        BY DEF Shift
      <3>2. 1 + 1 = 2
        OBVIOUS
      <3> QED BY <2>2, <2>3, <2>4, <3>1, <3>2, Zenon
    <2>7. goal(2)
      <3>1. Shift("EXPR", 1, 1, 0, 0)
        BY DEF Shift
      <3>2. 2 + 1 = 3
        OBVIOUS
      <3> QED BY <2>2, <2>3, <2>4, <3>1, <3>2, Zenon
    <2>8. goal(3)
      <3>1. Shift(")", 1, 0, 0, 0)
        BY DEF Shift
      <3>2. 3 + 1 = 4
        OBVIOUS
      <3> QED BY <2>2, <2>3, <2>4, <3>1, <3>2, Zenon
    <2>9. goal(4)
      <3>1. Shift("{", 0, 0, 0, 1)
        BY DEF Shift
      <3>2. 4 + 1 = 5
        OBVIOUS
      <3> QED BY <2>2, <2>3, <2>4, <3>1, <3>2, Zenon
    <2>10. goal(5)
      <3>1. Shift("BLOCK", 0, 0, 1, 0)
        BY DEF Shift
      <3>2. 5 + 1 = 6
        OBVIOUS
      <3> QED BY <2>2, <2>3, <2>4, <3>1, <3>2, Zenon
    <2>11. ends(n)
      <3>1. n + 1 = 6
        BY <2>1
      <3> QED BY <2>2, <2>4, <3>1, Zenon
    <2> QED BY <1>2, <2>5, <2>6, <2>7, <2>8, <2>9, <2>10, <2>11, Zenon
  <1>9. CASE form = "return"
    <2>1. n = 2
      BY <1>2, <1>9, FormReturn
    <2>2. Bracketed(form, 1) = 0 /\ Bracketed(form, 2) = 0 /\ Bracketed(form, 3) = 0
      BY <1>9 DEF Bracketed, Between
    <2>3. Forms[form][1] = "VALUE" /\ Forms[form][2] = ";"
      BY <1>9, FormReturn
    <2>4. Braced(form, 1) = 0 /\ Braced(form, 2) = 0 /\ Braced(form, 3) = 0
      <3>1. Braced(form, 1) = 0
        BY <1>2, <2>1, <2>3 DEF Braced
      <3>2. Braced(form, 2) = 0
        BY <1>2, <2>1, <2>3 DEF Braced
      <3>3. Braced(form, 3) = 0
        BY <1>2, <2>1 DEF Braced
      <3> QED BY <3>1, <3>2, <3>3
    <2>5. at \in {1, 2}
      BY <1>3, <2>1
    <2>6. goal(1)
      <3>1. Shift("VALUE", 0, 0, 0, 0)
        BY DEF Shift
      <3>2. 1 + 1 = 2
        OBVIOUS
      <3> QED BY <2>2, <2>3, <2>4, <3>1, <3>2, Zenon
    <2>7. goal(2)
      <3>1. Shift(";", 0, 0, 0, 0)
        BY DEF Shift
      <3>2. 2 + 1 = 3
        OBVIOUS
      <3> QED BY <2>2, <2>3, <2>4, <3>1, <3>2, Zenon
    <2>8. ends(n)
      <3>1. n + 1 = 3
        BY <2>1
      <3> QED BY <2>2, <2>4, <3>1, Zenon
    <2> QED BY <1>2, <2>5, <2>6, <2>7, <2>8, Zenon
  <1>10. CASE form = "try"
    <2>1. n = 8
      BY <1>2, <1>10, FormTry
    <2>2. Bracketed(form, 1) = 0 /\ Bracketed(form, 2) = 0 /\ Bracketed(form, 3) = 0 /\ Bracketed(form, 4) = 0
          /\ Bracketed(form, 5) = 1 /\ Bracketed(form, 6) = 1 /\ Bracketed(form, 7) = 0
          /\ Bracketed(form, 8) = 0 /\ Bracketed(form, 9) = 0
      BY <1>10 DEF Bracketed, Between
    <2>3. Forms[form][1] = "{" /\ Forms[form][2] = "BLOCK" /\ Forms[form][3] = "catch" /\ Forms[form][4] = "("
          /\ Forms[form][5] = "NAME" /\ Forms[form][6] = ")" /\ Forms[form][7] = "{" /\ Forms[form][8] = "BLOCK"
      BY <1>10, FormTry
    <2>4. Braced(form, 1) = 0 /\ Braced(form, 2) = 1 /\ Braced(form, 3) = 0 /\ Braced(form, 4) = 0
          /\ Braced(form, 5) = 0 /\ Braced(form, 6) = 0 /\ Braced(form, 7) = 0 /\ Braced(form, 8) = 1
          /\ Braced(form, 9) = 0
      <3>1. Braced(form, 1) = 0
        BY <1>2, <2>1, <2>3 DEF Braced
      <3>2. Braced(form, 2) = 1
        <4>1. 2 <= Len(Forms[form])
          BY <1>2, <2>1
        <4>2. Forms[form][2] = "BLOCK"
          BY <2>3, Zenon
        <4> QED BY <4>1, <4>2, Zenon DEF Braced
      <3>3. Braced(form, 3) = 0
        BY <1>2, <2>1, <2>3 DEF Braced
      <3>4. Braced(form, 4) = 0
        BY <1>2, <2>1, <2>3 DEF Braced
      <3>5. Braced(form, 5) = 0
        BY <1>2, <2>1, <2>3 DEF Braced
      <3>6. Braced(form, 6) = 0
        BY <1>2, <2>1, <2>3 DEF Braced
      <3>7. Braced(form, 7) = 0
        BY <1>2, <2>1, <2>3 DEF Braced
      <3>8. Braced(form, 8) = 1
        <4>1. 8 <= Len(Forms[form])
          BY <1>2, <2>1
        <4>2. Forms[form][8] = "BLOCK"
          BY <2>3, Zenon
        <4> QED BY <4>1, <4>2, Zenon DEF Braced
      <3>9. Braced(form, 9) = 0
        BY <1>2, <2>1 DEF Braced
      <3> QED BY <3>1, <3>2, <3>3, <3>4, <3>5, <3>6, <3>7, <3>8, <3>9
    <2>5. at \in {1, 2, 3, 4, 5, 6, 7, 8}
      BY <1>3, <2>1
    <2>6. goal(1)
      <3>1. Shift("{", 0, 0, 0, 1)
        BY DEF Shift
      <3>2. 1 + 1 = 2
        OBVIOUS
      <3> QED BY <2>2, <2>3, <2>4, <3>1, <3>2, Zenon
    <2>7. goal(2)
      <3>1. Shift("BLOCK", 0, 0, 1, 0)
        BY DEF Shift
      <3>2. 2 + 1 = 3
        OBVIOUS
      <3> QED BY <2>2, <2>3, <2>4, <3>1, <3>2, Zenon
    <2>8. goal(3)
      <3>1. Shift("catch", 0, 0, 0, 0)
        BY DEF Shift
      <3>2. 3 + 1 = 4
        OBVIOUS
      <3> QED BY <2>2, <2>3, <2>4, <3>1, <3>2, Zenon
    <2>9. goal(4)
      <3>1. Shift("(", 0, 1, 0, 0)
        BY DEF Shift
      <3>2. 4 + 1 = 5
        OBVIOUS
      <3> QED BY <2>2, <2>3, <2>4, <3>1, <3>2, Zenon
    <2>10. goal(5)
      <3>1. Shift("NAME", 1, 1, 0, 0)
        BY DEF Shift
      <3>2. 5 + 1 = 6
        OBVIOUS
      <3> QED BY <2>2, <2>3, <2>4, <3>1, <3>2, Zenon
    <2>11. goal(6)
      <3>1. Shift(")", 1, 0, 0, 0)
        BY DEF Shift
      <3>2. 6 + 1 = 7
        OBVIOUS
      <3> QED BY <2>2, <2>3, <2>4, <3>1, <3>2, Zenon
    <2>12. goal(7)
      <3>1. Shift("{", 0, 0, 0, 1)
        BY DEF Shift
      <3>2. 7 + 1 = 8
        OBVIOUS
      <3> QED BY <2>2, <2>3, <2>4, <3>1, <3>2, Zenon
    <2>13. goal(8)
      <3>1. Shift("BLOCK", 0, 0, 1, 0)
        BY DEF Shift
      <3>2. 8 + 1 = 9
        OBVIOUS
      <3> QED BY <2>2, <2>3, <2>4, <3>1, <3>2, Zenon
    <2>14. ends(n)
      <3>1. n + 1 = 9
        BY <2>1
      <3> QED BY <2>2, <2>4, <3>1, Zenon
    <2> QED BY <1>2, <2>5, <2>6, <2>7, <2>8, <2>9, <2>10, <2>11, <2>12, <2>13, <2>14, Zenon
  <1>11. CASE form = "throw"
    <2>1. n = 2
      BY <1>2, <1>11, FormThrow
    <2>2. Bracketed(form, 1) = 0 /\ Bracketed(form, 2) = 0 /\ Bracketed(form, 3) = 0
      BY <1>11 DEF Bracketed, Between
    <2>3. Forms[form][1] = "EXPR" /\ Forms[form][2] = ";"
      BY <1>11, FormThrow
    <2>4. Braced(form, 1) = 0 /\ Braced(form, 2) = 0 /\ Braced(form, 3) = 0
      <3>1. Braced(form, 1) = 0
        BY <1>2, <2>1, <2>3 DEF Braced
      <3>2. Braced(form, 2) = 0
        BY <1>2, <2>1, <2>3 DEF Braced
      <3>3. Braced(form, 3) = 0
        BY <1>2, <2>1 DEF Braced
      <3> QED BY <3>1, <3>2, <3>3
    <2>5. at \in {1, 2}
      BY <1>3, <2>1
    <2>6. goal(1)
      <3>1. Shift("EXPR", 0, 0, 0, 0)
        BY DEF Shift
      <3>2. 1 + 1 = 2
        OBVIOUS
      <3> QED BY <2>2, <2>3, <2>4, <3>1, <3>2, Zenon
    <2>7. goal(2)
      <3>1. Shift(";", 0, 0, 0, 0)
        BY DEF Shift
      <3>2. 2 + 1 = 3
        OBVIOUS
      <3> QED BY <2>2, <2>3, <2>4, <3>1, <3>2, Zenon
    <2>8. ends(n)
      <3>1. n + 1 = 3
        BY <2>1
      <3> QED BY <2>2, <2>4, <3>1, Zenon
    <2> QED BY <1>2, <2>5, <2>6, <2>7, <2>8, Zenon
  <1>12. CASE form = "expression"
    <2>1. n = 2
      BY <1>2, <1>12, FormExpression
    <2>2. Bracketed(form, 1) = 0 /\ Bracketed(form, 2) = 0 /\ Bracketed(form, 3) = 0
      BY <1>12 DEF Bracketed, Between
    <2>3. Forms[form][1] = "EXPR" /\ Forms[form][2] = ";"
      BY <1>12, FormExpression
    <2>4. Braced(form, 1) = 0 /\ Braced(form, 2) = 0 /\ Braced(form, 3) = 0
      <3>1. Braced(form, 1) = 0
        BY <1>2, <2>1, <2>3 DEF Braced
      <3>2. Braced(form, 2) = 0
        BY <1>2, <2>1, <2>3 DEF Braced
      <3>3. Braced(form, 3) = 0
        BY <1>2, <2>1 DEF Braced
      <3> QED BY <3>1, <3>2, <3>3
    <2>5. at \in {1, 2}
      BY <1>3, <2>1
    <2>6. goal(1)
      <3>1. Shift("EXPR", 0, 0, 0, 0)
        BY DEF Shift
      <3>2. 1 + 1 = 2
        OBVIOUS
      <3> QED BY <2>2, <2>3, <2>4, <3>1, <3>2, Zenon
    <2>7. goal(2)
      <3>1. Shift(";", 0, 0, 0, 0)
        BY DEF Shift
      <3>2. 2 + 1 = 3
        OBVIOUS
      <3> QED BY <2>2, <2>3, <2>4, <3>1, <3>2, Zenon
    <2>8. ends(n)
      <3>1. n + 1 = 3
        BY <2>1
      <3> QED BY <2>2, <2>4, <3>1, Zenon
    <2> QED BY <1>2, <2>5, <2>6, <2>7, <2>8, Zenon
  <1> QED BY <1>1, <1>4, <1>5, <1>6, <1>7, <1>8, <1>9, <1>10, <1>11, <1>12

-----------------------------------------------------------------------------
(***************************************************************************)
(* What becomes of the brackets that are held                              *)
(***************************************************************************)
LEMMA LevelIsNat ==
    ASSUME NEW s, Stacked(s), NEW open, NEW d, Level(s, open, d)
    PROVE  d \in Nat
  <1>1. PICK n \in Nat \ {0} : n = Len(s)
    BY TopOf
  <1>2. PICK L \in [Nat -> Nat] : L[n + 1] = d
    BY <1>1 DEF Level
  <1> QED BY <1>1, <1>2

(* What a statement holds more when item is behind it *)
Due(pair, item) == IF item = "BLOCK" THEN (IF pair[1] = "{" THEN -1 ELSE 0) ELSE Weight(pair, item)

LEMMA DueCases ==
    ASSUME NEW pair, NEW item
    PROVE  /\ item = "BLOCK" /\ pair[1] = "{" => Due(pair, item) = -1
           /\ item = "BLOCK" /\ pair[1] # "{" => Due(pair, item) = 0
           /\ item # "BLOCK" => Due(pair, item) = Weight(pair, item)
           /\ item = pair[1] => Weight(pair, item) = 1
           /\ item # pair[1] /\ item = pair[2] => Weight(pair, item) = -1
           /\ item # pair[1] /\ item # pair[2] => Weight(pair, item) = 0
  BY Zenon DEF Due, Weight

LEMMA DueIs ==
    ASSUME NEW pair \in Pairs, NEW item
    PROVE  /\ Due(pair, item) \in Int
           /\ item \in {"EXPR", "VALUE", "ELSE", "PARAMS", "NAME", "DECLARE"} => Due(pair, item) = 0
           /\ item \in {"(", ")", "{", ";", "catch"} => Due(pair, item) = Weight(pair, item)
  <1>1. /\ pair[1] \in {"(", "[", "{"} /\ pair[2] \in {")", "]", "}"}
    BY PairsAre
  <1>2. PICK open, close : open = pair[1] /\ close = pair[2]
    OBVIOUS
  <1>3. PICK D, W : D = Due(pair, item) /\ W = Weight(pair, item)
    OBVIOUS
  <1>4. /\ item = "BLOCK" /\ open = "{" => D = -1
        /\ item = "BLOCK" /\ open # "{" => D = 0
        /\ item # "BLOCK" => D = W
        /\ item = open => W = 1
        /\ item # open /\ item = close => W = -1
        /\ item # open /\ item # close => W = 0
    BY <1>2, <1>3, DueCases
  <1>5. D \in Int
    <2>1. W = 1 \/ W = -1 \/ W = 0
      BY <1>4, Zenon
    <2>2. D = -1 \/ D = 0 \/ D = W
      BY <1>4, Zenon
    <2> QED BY <2>1, <2>2
  <1>6. item \in {"EXPR", "VALUE", "ELSE", "PARAMS", "NAME", "DECLARE"} => D = 0
    <2>1. item \in {"EXPR", "VALUE", "ELSE", "PARAMS", "NAME", "DECLARE"} => item # "BLOCK" /\ item # open
          /\ item # close
      BY <1>1, <1>2
    <2> QED BY <1>4, <2>1, Zenon
  <1>7. item \in {"(", ")", "{", ";", "catch"} => D = W
    <2>1. item \in {"(", ")", "{", ";", "catch"} => item # "BLOCK"
      OBVIOUS
    <2> QED BY <1>4, <2>1, Zenon
  <1> QED BY <1>3, <1>5, <1>6, <1>7, Zenon

LEMMA DueAt ==
    ASSUME NEW pair \in Pairs, NEW item, item \notin {"[", "]", "}"}
    PROVE  /\ pair[1] = "(" /\ item = "(" => Due(pair, item) = 1
           /\ pair[1] = "(" /\ item = ")" => Due(pair, item) = -1
           /\ pair[1] = "(" /\ item \notin {"(", ")"} => Due(pair, item) = 0
           /\ pair[1] = "[" => Due(pair, item) = 0
           /\ pair[1] = "{" /\ item = "BLOCK" => Due(pair, item) = -1
           /\ pair[1] = "{" /\ item = "{" => Due(pair, item) = 1
           /\ pair[1] = "{" /\ item \notin {"BLOCK", "{"} => Due(pair, item) = 0
  <1>1. PICK open, close : open = pair[1] /\ close = pair[2]
    OBVIOUS
  <1>2. PICK D, W : D = Due(pair, item) /\ W = Weight(pair, item)
    OBVIOUS
  <1>3. /\ item = "BLOCK" /\ open = "{" => D = -1
        /\ item = "BLOCK" /\ open # "{" => D = 0
        /\ item # "BLOCK" => D = W
        /\ item = open => W = 1
        /\ item # open /\ item = close => W = -1
        /\ item # open /\ item # close => W = 0
    BY <1>1, <1>2, DueCases
  <1>4. CASE open = "(" /\ close = ")"
    <2>1. item = "(" => item # "BLOCK" /\ item = open
      BY <1>4
    <2>2. item = ")" => item # "BLOCK" /\ item # open /\ item = close
      BY <1>4
    <2>3. item \notin {"(", ")"} => open # "{" /\ item # open /\ item # close
      BY <1>4
    <2>4. open # "[" /\ open # "{"
      BY <1>4
    <2> QED BY <1>1, <1>2, <1>3, <2>1, <2>2, <2>3, <2>4, Zenon
  <1>5. CASE open = "[" /\ close = "]"
    <2>1. open # "{" /\ item # open /\ item # close /\ open # "("
      BY <1>5
    <2> QED BY <1>1, <1>2, <1>3, <2>1, Zenon
  <1>6. CASE open = "{" /\ close = "}"
    <2>1. item = "{" => item # "BLOCK" /\ item = open
      BY <1>6
    <2>2. item \notin {"BLOCK", "{"} => item # "BLOCK" /\ item # open /\ item # close
      BY <1>6
    <2>3. open # "(" /\ open # "["
      BY <1>6
    <2> QED BY <1>1, <1>2, <1>3, <1>6, <2>1, <2>2, <2>3, Zenon
  <1> QED BY <1>1, <1>4, <1>5, <1>6, PairsAre

LEMMA Passed ==
    ASSUME NEW f, IsStatement(f), Waits(f),
           NEW g, g.kind = "statement", g.form = f.form, g.at = f.at + 1,
           NEW pair \in Pairs, NEW b
    PROVE  /\ Holds(b, f, pair[1]) \in Nat
           /\ Holds(b, g, pair[1]) = Holds(b, f, pair[1]) + Due(pair, Asks(f))
  <1>1. PICK form \in DOMAIN Forms : form = f.form
    BY DEF IsStatement
  <1>2. PICK n \in Nat : n = Len(Forms[form])
    BY FormLength
  <1>3. PICK at \in 1 .. n : at = f.at
    <2>1. f.at \in 1 .. n + 1 /\ f.at <= n
      BY <1>1, <1>2 DEF IsStatement, Waits
    <2> QED BY <1>2, <2>1
  <1>4. PICK item : item = Forms[form][at]
    OBVIOUS
  <1>5. PICK g0, h0, i0, j0 :
           /\ g0 = Bracketed(form, at) /\ h0 = Bracketed(form, at + 1)
           /\ i0 = Braced(form, at) /\ j0 = Braced(form, at + 1)
    OBVIOUS
  <1>6. Shift(item, g0, h0, i0, j0)
    BY <1>2, <1>3, <1>4, <1>5, Shifts
  <1>7. PICK open, close : open = pair[1] /\ close = pair[2]
    OBVIOUS
  <1>8. PICK hf, hg : hf = Holds(b, f, pair[1]) /\ hg = Holds(b, g, pair[1])
    OBVIOUS
  <1>9. /\ open = "(" => hf = g0 /\ hg = h0
        /\ open # "(" /\ open = "{" => hf = i0 /\ hg = j0
        /\ open # "(" /\ open # "{" => hf = 0 /\ hg = 0
    <2>1. f.kind = "statement"
      BY DEF IsStatement
    <2> QED BY <1>1, <1>3, <1>5, <1>7, <1>8, <2>1, Zenon DEF Holds
  <1>10. Asks(f) = item
    BY <1>1, <1>3, <1>4 DEF Asks
  <1>11. PICK w : w = Due(pair, item)
    OBVIOUS
  <1>12. SUFFICES hf \in Nat /\ hg = hf + w
    BY <1>8, <1>10, <1>11
  <1>13. /\ g0 \in Nat /\ h0 \in Nat
         /\ item = "(" => h0 = g0 + 1
         /\ item = ")" => g0 = h0 + 1
         /\ item \notin {"(", ")"} => h0 = g0
         /\ item = "BLOCK" => i0 = 1
         /\ item # "BLOCK" => i0 = 0
         /\ item = "{" => j0 = 1
         /\ item # "{" => j0 = 0
         /\ item \notin {"[", "]", "}"}
    BY <1>6 DEF Shift
  <1>14. /\ open = "(" /\ item = "(" => w = 1
         /\ open = "(" /\ item = ")" => w = -1
         /\ open = "(" /\ item \notin {"(", ")"} => w = 0
         /\ open = "[" => w = 0
         /\ open = "{" /\ item = "BLOCK" => w = -1
         /\ open = "{" /\ item = "{" => w = 1
         /\ open = "{" /\ item \notin {"BLOCK", "{"} => w = 0
    BY <1>7, <1>11, <1>13, DueAt
  <1>15. CASE open = "("
    <2>1. hf = g0 /\ hg = h0 /\ g0 \in Nat /\ h0 \in Nat
      BY <1>9, <1>13, <1>15
    <2>2. CASE item = "("
      <3>1. w = 1 /\ h0 = g0 + 1
        BY <1>13, <1>14, <1>15, <2>2
      <3> QED BY <2>1, <3>1
    <2>3. CASE item = ")"
      <3>1. w = -1 /\ g0 = h0 + 1
        BY <1>13, <1>14, <1>15, <2>3
      <3> QED BY <2>1, <3>1
    <2>4. CASE item \notin {"(", ")"}
      <3>1. w = 0 /\ h0 = g0
        BY <1>13, <1>14, <1>15, <2>4
      <3> QED BY <2>1, <3>1
    <2> QED BY <2>2, <2>3, <2>4
  <1>16. CASE open = "["
    BY <1>9, <1>14, <1>16
  <1>17. CASE open = "{"
    <2>1. hf = i0 /\ hg = j0
      BY <1>9, <1>17
    <2>2. CASE item = "BLOCK"
      <3>1. w = -1 /\ i0 = 1 /\ j0 = 0
        BY <1>13, <1>14, <1>17, <2>2
      <3> QED BY <2>1, <3>1
    <2>3. CASE item = "{"
      <3>1. w = 1 /\ i0 = 0 /\ j0 = 1
        BY <1>13, <1>14, <1>17, <2>3
      <3> QED BY <2>1, <3>1
    <2>4. CASE item \notin {"BLOCK", "{"}
      <3>1. w = 0 /\ i0 = 0 /\ j0 = 0
        BY <1>13, <1>14, <1>17, <2>4
      <3> QED BY <2>1, <3>1
    <2> QED BY <2>2, <2>3, <2>4
  <1> QED BY <1>7, <1>15, <1>16, <1>17, PairsAre

(* What a caller holds more when it has the value it called for *)
Paid(pair, f) == IF f.kind = "statement" THEN Due(pair, Asks(f)) ELSE 0

LEMMA HoldsReceived ==
    ASSUME NEW f, IsActivation(f), f.kind = "statement" => Waits(f), NEW e, NEW pair \in Pairs, NEW b
    PROVE  /\ Holds(b, f, pair[1]) \in Nat
           /\ Holds(b, Received(f, e), pair[1]) = Holds(b, f, pair[1]) + Paid(pair, f)
  <1>1. f.kind \in {"statement", "block", "expression", "list", "index"}
    BY DEF IsActivation, IsStatement, IsBlock, IsExpression, IsList, IsIndex
  <1>2. PICK h \in Nat : h = Holds(b, f, pair[1])
    BY HoldsNat
  <1>3. PICK g : g = Received(f, e)
    OBVIOUS
  <1>4. CASE f.kind = "statement"
    <2>1. IsStatement(f)
      BY <1>4 DEF IsActivation, IsStatement, IsBlock, IsExpression, IsList, IsIndex
    <2>2. PICK form, at, parts : f = [kind |-> "statement", form |-> form, at |-> at, parts |-> parts]
      BY <2>1 DEF IsStatement
    <2>3. g.kind = "statement" /\ g.form = form /\ g.at = at + 1
      BY <1>3, <2>2 DEF Received
    <2>4. f.form = form /\ f.at = at
      BY <2>2
    <2> QED BY <1>3, <1>4, <2>1, <2>3, <2>4, Passed DEF Paid
  <1>5. CASE f.kind = "expression"
    <2>1. PICK end, queue, ops, brackets :
             f = [kind |-> "expression", end |-> end, queue |-> queue, ops |-> ops, brackets |-> brackets]
      BY <1>5 DEF IsActivation, IsStatement, IsBlock, IsExpression, IsList, IsIndex
    <2>2. PICK more : more = Append(queue, e)
      OBVIOUS
    <2>3. g = [kind |-> "expression", end |-> end, queue |-> more, ops |-> ops, brackets |-> brackets]
      BY <1>3, <2>1, <2>2 DEF Received
    <2>4. g.kind = "expression" /\ g.brackets = f.brackets
      BY <2>1, <2>3
    <2>5. Holds(b, g, pair[1]) = h
      BY <1>2, <1>5, <2>4 DEF Holds
    <2> QED BY <1>2, <1>3, <1>5, <2>5 DEF Paid
  <1>6. CASE f.kind \in {"block", "list", "index"}
    <2>1. g.kind = f.kind /\ (f.kind = "block" => g.single = f.single)
      BY <1>3, ReceivedOK DEF Alike
    <2>2. Holds(b, g, pair[1]) = h
      BY <1>2, <1>6, <2>1 DEF Holds
    <2> QED BY <1>2, <1>3, <1>6, <2>2 DEF Paid
  <1> QED BY <1>1, <1>4, <1>5, <1>6

LEMMA PaidInt ==
    ASSUME NEW pair \in Pairs, NEW f
    PROVE  Paid(pair, f) \in Int
  BY DueIs DEF Paid

LEMMA LevelReturned ==
    ASSUME NEW s, Stacked(s), Last(s).kind = "statement" => Waits(Last(s)), NEW e,
           NEW pair \in Pairs, NEW d, Level(s, pair[1], d)
    PROVE  Level(Returned(s, e), pair[1], d + Paid(pair, Last(s)))
  <1>1. PICK f, g, b : f = Last(s) /\ g = Received(f, e) /\ b = Under(s, Len(s))
    OBVIOUS
  <1>2. IsActivation(f)
    BY <1>1, TopOf
  <1>3. IsActivation(g) /\ Alike(f, g)
    BY <1>1, <1>2, ReceivedOK
  <1>4. PICK h \in Nat : h = Holds(b, f, pair[1])
    BY <1>2, HoldsNat
  <1>5. PICK p \in Int : p = Paid(pair, f)
    BY PaidInt
  <1>6. Holds(b, g, pair[1]) = h + p
    BY <1>1, <1>2, <1>4, <1>5, HoldsReceived
  <1>7. d \in Nat /\ Level(Append(Front(s), g), pair[1], d - h + (h + p))
    BY <1>1, <1>3, <1>4, <1>6, LevelReplace
  <1>8. d - h + (h + p) = d + p
    BY <1>7
  <1> QED BY <1>1, <1>5, <1>7, <1>8 DEF Returned

LEMMA LevelEnds ==
    ASSUME NEW s, Stacked(s), Len(s) > 1, NEW e, NEW pair \in Pairs, NEW d, Level(s, pair[1], d)
    PROVE  /\ Holds(Last(Front(s)), Last(s), pair[1]) \in Nat
           /\ Level(Returned(Front(s), e), pair[1],
                    d - Holds(Last(Front(s)), Last(s), pair[1]) + Paid(pair, Last(Front(s))))
  <1>1. PICK t, b, f : t = Front(s) /\ b = Last(t) /\ f = Last(s)
    OBVIOUS
  <1>2. Stacked(t) /\ Calls(b, f) /\ IsActivation(f)
    BY <1>1, Popped, TopOf
  <1>3. b.kind = "statement" => Waits(b)
    BY <1>2, CallerWaits
  <1>4. PICK h \in Nat : h = Holds(b, f, pair[1])
    BY <1>2, HoldsNat
  <1>5. PICK c \in Nat : Level(t, pair[1], c) /\ d = c + h
    BY <1>1, <1>4, LevelPop
  <1>6. Level(Returned(t, e), pair[1], c + Paid(pair, b))
    BY <1>1, <1>2, <1>3, <1>5, LevelReturned
  <1>7. d - h = c
    BY <1>5
  <1> QED BY <1>1, <1>4, <1>6, <1>7

-----------------------------------------------------------------------------
(***************************************************************************)
(* What an activation holds when it begins and when it is over             *)
(***************************************************************************)
LEMMA WeightIs ==
    ASSUME NEW pair \in Pairs, NEW kind
    PROVE  /\ Weight(pair, kind) \in Int
           /\ kind \notin BracketKinds => Weight(pair, kind) = 0
  <1>1. /\ pair[1] \in {"(", "[", "{"} /\ pair[2] \in {")", "]", "}"}
    BY PairsAre
  <1>2. kind \notin BracketKinds => kind # pair[1] /\ kind # pair[2]
    BY <1>1 DEF BracketKinds
  <1>3. \/ Weight(pair, kind) = 1 \/ Weight(pair, kind) = -1 \/ Weight(pair, kind) = 0
    BY Zenon, DueCases
  <1>4. kind \notin BracketKinds => Weight(pair, kind) = 0
    BY <1>2, DueCases, Zenon
  <1> QED BY <1>3, <1>4

LEMMA WeightOf ==
    ASSUME NEW pair \in Pairs
    PROVE  /\ Weight(pair, "(") = (IF pair[1] = "(" THEN 1 ELSE 0)
           /\ Weight(pair, ")") = (IF pair[1] = "(" THEN -1 ELSE 0)
           /\ Weight(pair, "[") = (IF pair[1] = "[" THEN 1 ELSE 0)
           /\ Weight(pair, "]") = (IF pair[1] = "[" THEN -1 ELSE 0)
           /\ Weight(pair, "{") = (IF pair[1] = "{" THEN 1 ELSE 0)
           /\ Weight(pair, "}") = (IF pair[1] = "{" THEN -1 ELSE 0)
  <1>1. pair = <<"(", ")">> \/ pair = <<"[", "]">> \/ pair = <<"{", "}">>
    BY DEF Pairs
  <1>2. CASE pair = <<"(", ")">>
    <2>1. pair[1] = "(" /\ pair[2] = ")"
      BY <1>2
    <2> QED BY <2>1 DEF Weight
  <1>3. CASE pair = <<"[", "]">>
    <2>1. pair[1] = "[" /\ pair[2] = "]"
      BY <1>3
    <2> QED BY <2>1 DEF Weight
  <1>4. CASE pair = <<"{", "}">>
    <2>1. pair[1] = "{" /\ pair[2] = "}"
      BY <1>4
    <2> QED BY <2>1 DEF Weight
  <1> QED BY <1>1, <1>2, <1>3, <1>4

LEMMA FormBegins ==
    ASSUME NEW form \in DOMAIN Forms
    PROVE  1 \in 1 .. Len(Forms[form])
  <1>1. PICK n \in Nat : n = Len(Forms[form])
    BY FormLength
  <1>2. form \in {"function", "var", "if", "for", "while", "return", "try", "throw", "expression"}
    BY FormNames
  <1>3. ASSUME form = "function" PROVE n = 3
    BY <1>1, <1>3, FormFunction
  <1>4. ASSUME form = "var" PROVE n = 3
    BY <1>1, <1>4, FormVar
  <1>5. ASSUME form = "if" PROVE n = 6
    BY <1>1, <1>5, FormIf
  <1>6. ASSUME form = "for" PROVE n = 9
    BY <1>1, <1>6, FormFor
  <1>7. ASSUME form = "while" PROVE n = 5
    BY <1>1, <1>7, FormWhile
  <1>8. ASSUME form = "return" PROVE n = 2
    BY <1>1, <1>8, FormReturn
  <1>9. ASSUME form = "try" PROVE n = 8
    BY <1>1, <1>9, FormTry
  <1>10. ASSUME form = "throw" PROVE n = 2
    BY <1>1, <1>10, FormThrow
  <1>11. ASSUME form = "expression" PROVE n = 2
    BY <1>1, <1>11, FormExpression
  <1>12. n \in {2, 3, 5, 6, 8, 9}
    BY <1>2, <1>3, <1>4, <1>5, <1>6, <1>7, <1>8, <1>9, <1>10, <1>11, Zenon
  <1> QED BY <1>1, <1>12

LEMMA StatementBegins ==
    ASSUME NEW form \in DOMAIN Forms, NEW b, NEW open
    PROVE  Holds(b, Statement(form), open) = 0
  <1>1. Bracketed(form, 1) = 0 /\ Braced(form, 1) = 0
    BY FormBegins, Shifts
  <1>2. PICK f : f = Statement(form)
    OBVIOUS
  <1>3. f.kind = "statement" /\ f.form = form /\ f.at = 1
    BY <1>2 DEF Statement
  <1> QED BY <1>1, <1>2, <1>3 DEF Holds

LEMMA StatementOver ==
    ASSUME NEW f, IsStatement(f), ~Waits(f), NEW b, NEW open
    PROVE  Holds(b, f, open) = 0
  <1>1. PICK form \in DOMAIN Forms : form = f.form
    BY DEF IsStatement
  <1>2. PICK n \in Nat : n = Len(Forms[form])
    BY FormLength
  <1>3. f.at = n + 1 /\ f.kind = "statement" /\ ~(f.at <= n)
    BY <1>1, <1>2 DEF IsStatement, Waits
  <1>4. Bracketed(form, n + 1) = 0
    BY <1>1, <1>2, FormBegins, Shifts
  <1>5. Braced(form, f.at) = 0
    BY <1>1, <1>2, <1>3 DEF Braced
  <1> QED BY <1>1, <1>3, <1>4, <1>5 DEF Holds

LEMMA BlockBegins ==
    ASSUME NEW single, NEW b, NEW open
    PROVE  /\ single = TRUE \/ Asks(b) # "ELSE" \/ open # "{" => Holds(b, CodeBlock(single), open) = 0
           /\ single = FALSE /\ Asks(b) = "ELSE" /\ open = "{" => Holds(b, CodeBlock(single), open) = 1
  <1>1. PICK f : f = CodeBlock(single)
    OBVIOUS
  <1>2. f.kind = "block" /\ f.single = single
    BY <1>1 DEF CodeBlock
  <1> QED BY <1>1, <1>2 DEF Holds

LEMMA ExpressionBegins ==
    ASSUME NEW end, NEW b, NEW open
    PROVE  Holds(b, Expression(end), open) = 0
  <1>1. PICK f : f = Expression(end)
    OBVIOUS
  <1>2. f.kind = "expression" /\ f.brackets = 0
    BY <1>1 DEF Expression
  <1> QED BY <1>1, <1>2 DEF Holds

LEMMA ListHolds ==
    ASSUME NEW f, f.kind = "list", NEW b, NEW pair \in Pairs
    PROVE  Holds(b, f, pair[1]) = Weight(pair, "(") /\ -Holds(b, f, pair[1]) = Weight(pair, ")")
  <1>1. CASE pair[1] = "("
    <2>1. Holds(b, f, pair[1]) = 1
      BY <1>1 DEF Holds
    <2> QED BY <1>1, <2>1, WeightOf
  <1>2. CASE pair[1] # "("
    <2>1. Holds(b, f, pair[1]) = 0
      BY <1>2 DEF Holds
    <2>2. Weight(pair, "(") = 0 /\ Weight(pair, ")") = 0
      BY <1>2, WeightOf
    <2> QED BY <2>1, <2>2
  <1> QED BY <1>1, <1>2

LEMMA IndexHolds ==
    ASSUME NEW f, f.kind = "index", NEW b, NEW pair \in Pairs
    PROVE  Holds(b, f, pair[1]) = Weight(pair, "[") /\ -Holds(b, f, pair[1]) = Weight(pair, "]")
  <1>1. CASE pair[1] = "["
    <2>1. Holds(b, f, pair[1]) = 1
      BY <1>1 DEF Holds
    <2> QED BY <1>1, <2>1, WeightOf
  <1>2. CASE pair[1] # "["
    <2>1. Holds(b, f, pair[1]) = 0
      BY <1>2 DEF Holds
    <2>2. Weight(pair, "[") = 0 /\ Weight(pair, "]") = 0
      BY <1>2, WeightOf
    <2> QED BY <2>1, <2>2
  <1> QED BY <1>1, <1>2

-----------------------------------------------------------------------------
(***************************************************************************)
(* The invariant: what is open behind the tokens that were read is what    *)
(* the activations hold, and was never less than nothing.                  *)
(***************************************************************************)
Curly == <<"{", "}">>

Accounted ==
    /\ pos - 1 \in 0 .. Len(tokens)
    /\ \A pair \in Pairs :
         /\ Level(stack, pair[1], Depth(tokens, pair, pos - 1))
         /\ \A n \in 0 .. pos - 1 : Depth(tokens, pair, n) >= 0

Ledger ==
    /\ Depth(tokens, Curly, Len(tokens)) <= 0
    /\ status # "failed" => Accounted

LEMMA LedgerStay ==
    ASSUME Ledger, UNCHANGED <<tokens, pos, stack, status>>
    PROVE  Ledger'
  BY DEF Ledger, Accounted

LEMMA LedgerFails ==
    ASSUME Ledger, UNCHANGED tokens, status' = "failed"
    PROVE  Ledger'
  BY DEF Ledger

(* The tokens up to m are no brackets, and the one behind it is read. *)
LEMMA Reads ==
    ASSUME TypeOK, TypeOK', Ledger, status = "parsing", UNCHANGED tokens,
           NEW m \in Nat, pos - 1 <= m, m + 1 \in DOMAIN tokens, pos' = m + 2,
           \A j \in pos .. m : tokens[j].k \notin BracketKinds,
           \A pair \in Pairs : \A d \in Nat :
             Level(stack, pair[1], d) => Level(stack', pair[1], d + Weight(pair, tokens[m + 1].k))
    PROVE  Ledger'
  <1>1. PICK len \in Nat : len = Len(tokens) /\ DOMAIN tokens = 1 .. len
    BY TokensAre
  <1>2. PICK p \in Nat : p = pos - 1 /\ pos = p + 1
    BY DEF TypeOK
  <1>3. Accounted /\ Depth(tokens, Curly, Len(tokens)) <= 0
    BY DEF Ledger
  <1>4. Stacked(stack) /\ Stacked(stack')
    BY DEF TypeOK
  <1>5. p <= m /\ m + 1 <= len /\ pos' - 1 = m + 1
    BY <1>1, <1>2
  <1>6. ASSUME NEW pair \in Pairs
        PROVE  /\ Level(stack', pair[1], Depth(tokens, pair, m + 1))
               /\ \A n \in 0 .. m + 1 : Depth(tokens, pair, n) >= 0
    <2>1. Level(stack, pair[1], Depth(tokens, pair, p)) /\ \A n \in 0 .. p : Depth(tokens, pair, n) >= 0
      BY <1>2, <1>3 DEF Accounted
    <2>2. PICK d \in Nat : d = Depth(tokens, pair, p)
      BY <1>4, <2>1, LevelIsNat
    <2>3. ASSUME NEW n \in Nat, p <= n, n <= m PROVE Depth(tokens, pair, n) = d
      <3>1. \A j \in p + 1 .. n : tokens[j].k \notin BracketKinds
        <4>1. \A j \in p + 1 .. n : j \in pos .. m
          BY <1>2, <2>3
        <4> QED BY <4>1
      <3> QED BY <2>2, <2>3, <3>1, DepthSame
    <2>4. Depth(tokens, pair, m + 1) = d + Weight(pair, tokens[m + 1].k)
      <3>1. Depth(tokens, pair, m) = d
        BY <1>5, <2>3
      <3> QED BY <3>1, DepthStep
    <2>5. Level(stack', pair[1], Depth(tokens, pair, m + 1))
      BY <2>1, <2>2, <2>4
    <2>6. Depth(tokens, pair, m + 1) \in Nat
      BY <1>4, <2>5, LevelIsNat
    <2>7. ASSUME NEW n \in 0 .. m + 1 PROVE Depth(tokens, pair, n) >= 0
      <3>1. CASE n <= p
        BY <1>5, <2>1, <3>1
      <3>2. CASE p <= n /\ n <= m
        BY <2>2, <2>3, <3>2
      <3>3. CASE n = m + 1
        BY <2>6, <3>3
      <3> QED BY <1>5, <3>1, <3>2, <3>3
    <2> QED BY <2>5, <2>7
  <1>7. Accounted'
    <2>1. \A pair \in Pairs :
            /\ Level(stack', pair[1], Depth(tokens', pair, pos' - 1))
            /\ \A n \in 0 .. pos' - 1 : Depth(tokens', pair, n) >= 0
      BY <1>5, <1>6
    <2>2. pos' - 1 \in 0 .. Len(tokens')
      BY <1>1, <1>5
    <2> QED BY <2>1, <2>2 DEF Accounted
  <1> QED BY <1>3, <1>7 DEF Ledger

(* One token is read. *)
LEMMA ReadsOne ==
    ASSUME TypeOK, TypeOK', Ledger, status = "parsing", UNCHANGED tokens,
           pos \in DOMAIN tokens, pos' = pos + 1,
           \A pair \in Pairs : \A d \in Nat :
             Level(stack, pair[1], d) => Level(stack', pair[1], d + Weight(pair, tokens[pos].k))
    PROVE  Ledger'
  <1>1. PICK m \in Nat : m = pos - 1 /\ m + 1 = pos
    BY DEF TypeOK
  <1>2. m + 1 \in DOMAIN tokens /\ pos' = m + 2 /\ pos - 1 <= m
    BY <1>1
  <1>3. \A j \in pos .. m : FALSE
    BY <1>1
  <1>4. \A pair \in Pairs : \A d \in Nat :
          Level(stack, pair[1], d) => Level(stack', pair[1], d + Weight(pair, tokens[m + 1].k))
    BY <1>1
  <1> QED BY <1>2, <1>3, <1>4, Reads

(* Tokens that are no brackets are read, or none. *)
LEMMA ReadsPlain ==
    ASSUME TypeOK, TypeOK', Ledger, status = "parsing", UNCHANGED tokens,
           NEW n \in Nat, pos' = n, pos <= n,
           \A j \in pos .. n - 1 : j \in DOMAIN tokens /\ tokens[j].k \notin BracketKinds,
           \A pair \in Pairs : \A d \in Nat : Level(stack, pair[1], d) => Level(stack', pair[1], d)
    PROVE  Ledger'
  <1>1. pos \in Nat \ {0}
    BY DEF TypeOK
  <1>2. CASE n = pos
    <2>1. Accounted /\ Depth(tokens, Curly, Len(tokens)) <= 0
      BY DEF Ledger
    <2>2. ASSUME NEW pair \in Pairs
          PROVE  Level(stack', pair[1], Depth(tokens, pair, pos - 1))
      <3>1. Level(stack, pair[1], Depth(tokens, pair, pos - 1))
        BY <2>1 DEF Accounted
      <3>2. PICK d \in Nat : d = Depth(tokens, pair, pos - 1)
        BY <3>1, LevelIsNat DEF TypeOK
      <3> QED BY <3>1, <3>2
    <2>3. Accounted'
      BY <1>2, <2>1, <2>2 DEF Accounted
    <2> QED BY <2>1, <2>3 DEF Ledger
  <1>3. CASE n # pos
    <2>1. PICK m \in Nat : m = n - 2 /\ m + 1 = n - 1 /\ n = m + 2 /\ pos - 1 <= m
      BY <1>1, <1>3
    <2>2. m + 1 \in pos .. n - 1
      BY <1>1, <2>1
    <2>3. m + 1 \in DOMAIN tokens /\ tokens[m + 1].k \notin BracketKinds
      BY <2>2
    <2>4. \A j \in pos .. m : tokens[j].k \notin BracketKinds
      <3>1. \A j \in pos .. m : j \in pos .. n - 1
        BY <1>1, <2>1
      <3> QED BY <3>1
    <2>5. ASSUME NEW pair \in Pairs, NEW d \in Nat, Level(stack, pair[1], d)
          PROVE  Level(stack', pair[1], d + Weight(pair, tokens[m + 1].k))
      <3>1. d + Weight(pair, tokens[m + 1].k) = d
        BY <2>3, WeightIs
      <3> QED BY <2>5, <3>1
    <2> QED BY <2>1, <2>3, <2>4, <2>5, Reads
  <1> QED BY <1>2, <1>3

LEMMA ReadsNone ==
    ASSUME TypeOK, TypeOK', Ledger, status = "parsing", UNCHANGED <<tokens, pos>>,
           \A pair \in Pairs : \A d \in Nat : Level(stack, pair[1], d) => Level(stack', pair[1], d)
    PROVE  Ledger'
  <1>1. pos \in Nat
    BY DEF TypeOK
  <1>2. \A j \in pos .. pos - 1 : FALSE
    BY <1>1
  <1> QED BY <1>1, <1>2, ReadsPlain

LEMMA ReadsWord ==
    ASSUME TypeOK, TypeOK', Ledger, status = "parsing", UNCHANGED tokens, pos' = pos + 1,
           pos \in DOMAIN tokens, tokens[pos].k \notin BracketKinds,
           \A pair \in Pairs : \A d \in Nat : Level(stack, pair[1], d) => Level(stack', pair[1], d)
    PROVE  Ledger'
  <1>1. PICK n \in Nat : n = pos + 1 /\ pos \in Nat
    BY DEF TypeOK
  <1>2. \A j \in pos .. n - 1 : j = pos
    BY <1>1
  <1>3. pos <= n
    BY <1>1
  <1> QED BY <1>1, <1>2, <1>3, ReadsPlain

-----------------------------------------------------------------------------
(***************************************************************************)
(* The actions, for as long as no error is swallowed: statements           *)
(***************************************************************************)
LEMMA FailLedger ==
    ASSUME Ledger, UNCHANGED tokens, Fail, ~Swallow
    PROVE  Ledger'
  <1>1. status' = "failed"
    BY DEF Fail
  <1> QED BY <1>1, LedgerFails

LEMMA BlockOver ==
    ASSUME TypeOK, Parsing("block"), NEW e, NEW pair \in Pairs, NEW d \in Nat, Level(stack, pair[1], d)
    PROVE  /\ Len(stack) > 1
           /\ Top.single = FALSE => Level(Returned(Below, e), pair[1], d + Weight(pair, "}"))
           /\ Top.single = TRUE => Level(Returned(Below, e), pair[1], d)
  <1>1. Stacked(stack) /\ Top.kind = "block"
    BY DEF TypeOK, Parsing
  <1>2. Len(stack) > 1
    BY <1>1, NotFirst DEF Top
  <1>3. PICK f, b : f = Top /\ b = Last(Below)
    OBVIOUS
  <1>4. IsActivation(f) /\ f.kind = "block" /\ Calls(b, f)
    BY <1>1, <1>2, <1>3, TopOf, Popped DEF Top, Below
  <1>5. Waits(b) /\ Asks(b) \in (IF f.single THEN {"ELSE"} ELSE {"BLOCK", "ELSE"})
    BY <1>4 DEF Calls
  <1>6. b.kind = "statement"
    BY <1>5 DEF Waits
  <1>7. PICK h \in Nat : h = Holds(b, f, pair[1])
    BY <1>4, HoldsNat
  <1>8. PICK paid \in Int : paid = Paid(pair, b)
    BY PaidInt
  <1>9. Level(Returned(Below, e), pair[1], d - h + paid)
    BY <1>1, <1>2, <1>3, <1>7, <1>8, LevelEnds DEF Top, Below
  <1>10. paid = Due(pair, Asks(b))
    BY <1>6, <1>8 DEF Paid
  <1>11. PICK w \in Int : w = Weight(pair, "}")
    BY WeightIs
  <1>12. Asks(b) = "ELSE" => paid = 0
    BY <1>10, DueIs
  <1>13. Asks(b) = "BLOCK" /\ pair[1] = "{" => paid = -1
    BY <1>10, DueCases
  <1>14. Asks(b) = "BLOCK" /\ pair[1] # "{" => paid = 0
    BY <1>10, DueCases
  <1>15. ASSUME f.single = TRUE PROVE h = 0 /\ paid = 0
    <2>1. h = 0
      BY <1>4, <1>7, <1>15 DEF Holds
    <2> QED BY <1>5, <1>12, <1>15, <2>1
  <1>16. ASSUME f.single = FALSE PROVE paid - h = w
    <2>1. CASE pair[1] = "{" /\ Asks(b) = "ELSE"
      <3>1. h = 1
        BY <1>4, <1>7, <1>16, <2>1 DEF Holds
      <3>2. w = -1
        BY <1>11, <2>1, WeightOf
      <3>3. paid = 0
        BY <1>12, <2>1
      <3> QED BY <3>1, <3>2, <3>3
    <2>2. CASE pair[1] = "{" /\ Asks(b) = "BLOCK"
      <3>1. h = 0
        BY <1>4, <1>7, <1>16, <2>2 DEF Holds
      <3>2. w = -1
        BY <1>11, <2>2, WeightOf
      <3>3. paid = -1
        BY <1>13, <2>2
      <3> QED BY <3>1, <3>2, <3>3
    <2>3. CASE pair[1] # "{"
      <3>1. h = 0
        BY <1>4, <1>7, <1>16, <2>3 DEF Holds
      <3>2. w = 0
        BY <1>11, <2>3, WeightOf
      <3>3. paid = 0
        <4>1. Asks(b) = "ELSE" \/ Asks(b) = "BLOCK"
          BY <1>5, <1>16
        <4> QED BY <1>12, <1>14, <2>3, <4>1
      <3> QED BY <3>1, <3>2, <3>3
    <2> QED BY <1>5, <1>16, <2>1, <2>2, <2>3
  <1>17. ASSUME f.single = TRUE PROVE d - h + paid = d
    <2>1. h = 0 /\ paid = 0
      BY <1>15, <1>17
    <2> QED BY <2>1
  <1>18. ASSUME f.single = FALSE PROVE d - h + paid = d + w
    <2>1. paid - h = w
      BY <1>16, <1>18
    <2> QED BY <2>1
  <1> QED BY <1>2, <1>3, <1>9, <1>17, <1>18, <1>11

LEMMA TopBlock ==
    ASSUME TypeOK, Parsing("block")
    PROVE  Top.single \in BOOLEAN /\ status = "parsing" /\ Stacked(stack) /\ Last(stack).kind = "block"
  <1>1. Stacked(stack) /\ Top.kind = "block" /\ status = "parsing"
    BY DEF TypeOK, Parsing
  <1>2. IsActivation(Top)
    BY <1>1, TopOf DEF Top
  <1> QED BY <1>1, <1>2 DEF IsActivation, IsStatement, IsBlock, IsExpression, IsList, IsIndex, Top

LEMMA BlockEndLedger == ASSUME TypeOK, TypeOK', Ledger, BlockEnd PROVE Ledger'
  <1>1. Parsing("block") /\ Top.single = FALSE /\ status = "parsing" /\ UNCHANGED tokens
    BY TopBlock DEF BlockEnd
  <1>2. PICK e : stack' = Returned(Below, e)
    BY DEF BlockEnd
  <1>3. \A pair \in Pairs : \A d \in Nat :
          Level(stack, pair[1], d) => Level(stack', pair[1], d + Weight(pair, "}"))
    BY <1>1, <1>2, BlockOver
  <1>4. More
    <2>1. SUFFICES ASSUME ~More PROVE FALSE
      OBVIOUS
    <2>2. Accounted /\ Depth(tokens, Curly, Len(tokens)) <= 0
      BY <1>1 DEF Ledger
    <2>3. PICK len \in Nat : len = Len(tokens) /\ DOMAIN tokens = 1 .. len
      BY TokensAre
    <2>4. pos - 1 = len
      <3>1. pos \in Nat \ {0} /\ pos - 1 \in 0 .. len /\ pos \notin 1 .. len
        BY <2>1, <2>2, <2>3 DEF TypeOK, Accounted, More
      <3> QED BY <3>1
    <2>5. Curly \in Pairs /\ Curly[1] = "{"
      BY DEF Curly, Pairs
    <2>6. Level(stack, Curly[1], Depth(tokens, Curly, pos - 1))
      BY <2>2, <2>5 DEF Accounted
    <2>7. PICK d \in Nat : d = Depth(tokens, Curly, pos - 1)
      BY <2>6, LevelIsNat DEF TypeOK
    <2>8. Level(stack', Curly[1], d + Weight(Curly, "}"))
      BY <1>3, <2>5, <2>6, <2>7
    <2>9. Weight(Curly, "}") = -1
      BY <2>5, WeightOf
    <2>10. d + Weight(Curly, "}") \in Nat
      BY <2>8, LevelIsNat DEF TypeOK
    <2>11. d <= 0
      BY <2>2, <2>3, <2>4, <2>7
    <2>12. d + -1 \in Nat
      BY <2>9, <2>10
    <2> QED BY <2>11, <2>12
  <1>5. pos \in DOMAIN tokens /\ tokens[pos].k = "}" /\ pos' = pos + 1
    BY <1>4 DEF BlockEnd, Is
  <1> QED BY <1>1, <1>3, <1>5, ReadsOne

LEMMA SingleEndLedger == ASSUME TypeOK, TypeOK', Ledger, SingleEnd PROVE Ledger'
  <1>1. Parsing("block") /\ Top.single = TRUE /\ status = "parsing" /\ UNCHANGED <<tokens, pos>>
    BY TopBlock DEF SingleEnd
  <1>2. PICK e : stack' = Returned(Below, e)
    BY DEF SingleEnd
  <1>3. \A pair \in Pairs : \A d \in Nat : Level(stack, pair[1], d) => Level(stack', pair[1], d)
    BY <1>1, <1>2, BlockOver
  <1> QED BY <1>1, <1>3, ReadsNone

(* What holds nothing when it begins changes nothing. *)
LEMMA LevelBegins ==
    ASSUME TypeOK, NEW f, IsActivation(f), \A pair \in Pairs : Holds(Last(stack), f, pair[1]) = 0
    PROVE  \A pair \in Pairs : \A d \in Nat : Level(stack, pair[1], d) => Level(Append(stack, f), pair[1], d)
  <1>1. Stacked(stack)
    BY DEF TypeOK
  <1>2. ASSUME NEW pair \in Pairs, NEW d \in Nat, Level(stack, pair[1], d)
        PROVE  Level(Append(stack, f), pair[1], d)
    <2>1. Level(Append(stack, f), pair[1], d + Holds(Last(stack), f, pair[1]))
      BY <1>1, <1>2, LevelPush
    <2>2. d + Holds(Last(stack), f, pair[1]) = d
      BY <1>2
    <2> QED BY <2>1, <2>2
  <1> QED BY <1>2

LEMMA BeginStatementLedger == ASSUME TypeOK, TypeOK', Ledger, BeginStatement PROVE Ledger'
  <1>1. Parsing("block") /\ status = "parsing" /\ UNCHANGED tokens /\ pos \in DOMAIN tokens
    BY DEF BeginStatement, Parsing, More
  <1>2. PICK form \in DOMAIN Forms :
           /\ stack' = Append(stack, Statement(form))
           /\ \/ pos' = pos + 1 /\ tokens[pos].k \in Keywords
              \/ UNCHANGED pos
    <2>1. \/ tokens[pos].k \in Keywords /\ stack' = Append(stack, Statement(tokens[pos].k)) /\ pos' = pos + 1
          \/ stack' = Append(stack, Statement("expression")) /\ UNCHANGED pos
      BY DEF BeginStatement, Begin
    <2>2. Keywords \cup {"expression"} \subseteq DOMAIN Forms
      BY FormNames DEF Keywords
    <2> QED BY <2>1, <2>2
  <1>3. PICK f : f = Statement(form)
    OBVIOUS
  <1>4. IsActivation(f) /\ \A pair \in Pairs : Holds(Last(stack), f, pair[1]) = 0
    BY <1>3, NewStatement, StatementBegins
  <1>5. \A pair \in Pairs : \A d \in Nat : Level(stack, pair[1], d) => Level(stack', pair[1], d)
    BY <1>2, <1>3, <1>4, LevelBegins
  <1>6. CASE UNCHANGED pos
    BY <1>1, <1>5, <1>6, ReadsNone
  <1>7. CASE pos' = pos + 1 /\ tokens[pos].k \in Keywords
    <2>1. tokens[pos].k \notin BracketKinds
      BY <1>7 DEF Keywords, BracketKinds
    <2> QED BY <1>1, <1>5, <1>7, <2>1, ReadsWord
  <1> QED BY <1>2, <1>6, <1>7

LEMMA LevelTook ==
    ASSUME TypeOK, Waits(Top), NEW part, NEW pair \in Pairs, NEW d \in Nat, Level(stack, pair[1], d)
    PROVE  Level(Append(Below, Took(part)), pair[1], d + Due(pair, Asks(Top)))
  <1>1. Took(part) = Received(Top, part)
    BY DEF Took, Received, Waits
  <1>2. Level(Returned(stack, part), pair[1], d + Paid(pair, Last(stack)))
    BY LevelReturned DEF TypeOK, Top
  <1>3. Paid(pair, Last(stack)) = Due(pair, Asks(Top))
    BY DEF Paid, Waits, Top
  <1> QED BY <1>1, <1>2, <1>3 DEF Returned, Top, Below

(* Where nothing is due, the next item changes nothing. *)
LEMMA LevelTookPlain ==
    ASSUME TypeOK, NEW item, AtItem(item), item \in {"EXPR", "VALUE", "ELSE", "PARAMS", "NAME", "DECLARE"}, NEW part
    PROVE  \A pair \in Pairs : \A d \in Nat :
             Level(stack, pair[1], d) => Level(Append(Below, Took(part)), pair[1], d)
  <1>1. Waits(Top) /\ Asks(Top) = item
    BY AtItemFacts
  <1>2. ASSUME NEW pair \in Pairs, NEW d \in Nat, Level(stack, pair[1], d)
        PROVE  Level(Append(Below, Took(part)), pair[1], d)
    <2>1. Level(Append(Below, Took(part)), pair[1], d + Due(pair, item))
      BY <1>1, <1>2, LevelTook
    <2>2. Due(pair, item) = 0
      BY DueIs
    <2>3. d + Due(pair, item) = d
      BY <2>2
    <2> QED BY <2>1, <2>3
  <1> QED BY <1>2

LEMMA ExpectLedger == ASSUME TypeOK, TypeOK', Ledger, Expect, ~Swallow PROVE Ledger'
  <1>1. AtItem(Item) /\ Item \in {"(", ")", "{", ";", "catch"} /\ UNCHANGED tokens /\ pos' = pos + 1
    BY DEF Expect, AtItem
  <1>2. CASE Fail
    BY <1>1, <1>2, FailLedger
  <1>3. CASE Is(pos, Item) /\ Become([Top EXCEPT !.at = @ + 1])
    <2>1. /\ status = "parsing" /\ Stacked(stack) /\ Top.kind = "statement" /\ Waits(Top) /\ Asks(Top) = Item
          /\ Top.at + 1 \in Top.at .. Len(Forms[Top.form]) + 1
      BY <1>1, AtItemFacts
    <2>2. PICK f, u : f = Top /\ u = Under(stack, Len(stack))
      OBVIOUS
    <2>3. IsActivation(f) /\ IsStatement(f) /\ Waits(f) /\ Asks(f) = Item
      BY <2>1, <2>2, TopStatement DEF IsActivation, IsStatement, IsBlock, IsExpression, IsList, IsIndex
    <2>4. PICK form, at, parts : f = [kind |-> "statement", form |-> form, at |-> at, parts |-> parts]
      BY <2>3 DEF IsStatement
    <2>5. PICK g : g = [f EXCEPT !.at = at + 1]
      OBVIOUS
    <2>6. g.kind = "statement" /\ g.form = f.form /\ g.at = f.at + 1
      BY <2>4, <2>5
    <2>7. stack' = Append(Below, g)
      BY <1>3, <2>2, <2>4, <2>5 DEF Become
    <2>8. IsActivation(g) /\ Alike(f, g)
      <3>1. f.at = at
        BY <2>4
      <3> QED BY <2>1, <2>2, <2>3, <2>5, <3>1, StatementAhead
    <2>9. ASSUME NEW pair \in Pairs, NEW d \in Nat, Level(stack, pair[1], d)
          PROVE  Level(stack', pair[1], d + Weight(pair, tokens[pos].k))
      <3>1. PICK h \in Nat : h = Holds(u, f, pair[1])
        BY <2>3, HoldsNat
      <3>2. PICK due \in Int : due = Due(pair, Item)
        BY DueIs
      <3>3. Holds(u, g, pair[1]) = h + due
        BY <2>3, <2>6, <3>1, <3>2, Passed
      <3>4. Level(stack', pair[1], d - h + (h + due))
        BY <2>1, <2>2, <2>7, <2>8, <2>9, <3>1, <3>3, LevelReplace DEF Top, Below
      <3>5. d - h + (h + due) = d + due
        OBVIOUS
      <3>6. tokens[pos].k = Item
        BY <1>3 DEF Is
      <3>7. due = Weight(pair, tokens[pos].k)
        BY <1>1, <3>2, <3>6, DueIs
      <3> QED BY <3>4, <3>5, <3>7
    <2>10. pos \in DOMAIN tokens
      BY <1>3 DEF Is
    <2> QED BY <1>1, <2>1, <2>9, <2>10, ReadsOne
  <1> QED BY <1>2, <1>3 DEF Expect

LEMMA BeginExpressionLedger == ASSUME TypeOK, TypeOK', Ledger, BeginExpression PROVE Ledger'
  <1>1. AtItem("EXPR") /\ UNCHANGED <<tokens, pos>> /\ stack' = Append(stack, Expression("any"))
    BY DEF BeginExpression, Begin
  <1>2. status = "parsing"
    BY <1>1, AtItemFacts
  <1>3. IsActivation(Expression("any")) /\ \A pair \in Pairs : Holds(Last(stack), Expression("any"), pair[1]) = 0
    BY NewExpression, ExpressionBegins
  <1>4. \A pair \in Pairs : \A d \in Nat : Level(stack, pair[1], d) => Level(stack', pair[1], d)
    BY <1>1, <1>3, LevelBegins
  <1> QED BY <1>1, <1>2, <1>4, ReadsNone

LEMMA BeginBlockLedger == ASSUME TypeOK, TypeOK', Ledger, BeginBlock PROVE Ledger'
  <1>1. AtItem("BLOCK") /\ UNCHANGED <<tokens, pos>> /\ stack' = Append(stack, CodeBlock(FALSE))
    BY DEF BeginBlock, Begin
  <1>2. status = "parsing" /\ Asks(Last(stack)) = "BLOCK"
    BY <1>1, AtItemFacts DEF Top
  <1>3. IsActivation(CodeBlock(FALSE)) /\ \A pair \in Pairs : Holds(Last(stack), CodeBlock(FALSE), pair[1]) = 0
    BY <1>2, NewBlock, BlockBegins
  <1>4. \A pair \in Pairs : \A d \in Nat : Level(stack, pair[1], d) => Level(stack', pair[1], d)
    BY <1>1, <1>3, LevelBegins
  <1> QED BY <1>1, <1>2, <1>4, ReadsNone

LEMMA ReturnValueLedger == ASSUME TypeOK, TypeOK', Ledger, ReturnValue PROVE Ledger'
  <1>1. AtItem("VALUE") /\ UNCHANGED <<tokens, pos>>
    BY DEF ReturnValue
  <1>2. status = "parsing"
    BY <1>1, AtItemFacts
  <1>3. IsActivation(Expression("any")) /\ \A pair \in Pairs : Holds(Last(stack), Expression("any"), pair[1]) = 0
    BY NewExpression, ExpressionBegins
  <1>4. stack' = Append(Below, Took(Null)) \/ stack' = Append(stack, Expression("any"))
    BY DEF ReturnValue, Become, Begin
  <1>5. \A pair \in Pairs : \A d \in Nat : Level(stack, pair[1], d) => Level(stack', pair[1], d)
    BY <1>1, <1>3, <1>4, LevelBegins, LevelTookPlain
  <1> QED BY <1>1, <1>2, <1>5, ReadsNone

LEMMA CatchNameLedger == ASSUME TypeOK, TypeOK', Ledger, CatchName, ~Swallow PROVE Ledger'
  <1>1. AtItem("NAME") /\ UNCHANGED tokens /\ pos' = pos + 1
    BY DEF CatchName
  <1>2. CASE Fail
    BY <1>1, <1>2, FailLedger
  <1>3. CASE ~Fail
    <2>1. Is(pos, "id") /\ stack' = Append(Below, Took(tokens[pos].v))
      BY <1>3 DEF CatchName, Become
    <2>2. pos \in DOMAIN tokens /\ tokens[pos].k \notin BracketKinds
      BY <2>1 DEF Is, BracketKinds
    <2>3. \A pair \in Pairs : \A d \in Nat : Level(stack, pair[1], d) => Level(stack', pair[1], d)
      BY <1>1, <2>1, LevelTookPlain
    <2>4. status = "parsing"
      BY <1>1, AtItemFacts
    <2> QED BY <1>1, <2>2, <2>3, <2>4, ReadsWord
  <1> QED BY <1>2, <1>3

LEMMA ElseLedger == ASSUME TypeOK, TypeOK', Ledger, Else, ~Swallow PROVE Ledger'
  <1>1. AtItem("ELSE") /\ UNCHANGED tokens
    BY DEF Else
  <1>2. status = "parsing" /\ Asks(Last(stack)) = "ELSE" /\ Stacked(stack) /\ pos \in Nat
    BY <1>1, AtItemFacts DEF Top
  <1>3. CASE Fail
    BY <1>1, <1>3, FailLedger
  <1>4. CASE stack' = Append(Below, Took(Null)) /\ UNCHANGED pos
    <2>1. \A pair \in Pairs : \A d \in Nat : Level(stack, pair[1], d) => Level(stack', pair[1], d)
      BY <1>1, <1>4, LevelTookPlain
    <2> QED BY <1>1, <1>2, <1>4, <2>1, ReadsNone
  <1>5. CASE Is(pos, "else") /\ stack' = Append(stack, CodeBlock(TRUE)) /\ pos' = pos + 1
    <2>1. IsActivation(CodeBlock(TRUE)) /\ \A pair \in Pairs : Holds(Last(stack), CodeBlock(TRUE), pair[1]) = 0
      BY NewBlock, BlockBegins
    <2>2. \A pair \in Pairs : \A d \in Nat : Level(stack, pair[1], d) => Level(stack', pair[1], d)
      BY <1>5, <2>1, LevelBegins
    <2>3. pos \in DOMAIN tokens /\ tokens[pos].k \notin BracketKinds
      BY <1>5 DEF Is, BracketKinds
    <2> QED BY <1>1, <1>2, <1>5, <2>2, <2>3, ReadsWord
  <1>6. CASE Is(pos, "else") /\ Is(pos + 1, "{") /\ stack' = Append(stack, CodeBlock(FALSE)) /\ pos' = pos + 2
    <2>1. IsActivation(CodeBlock(FALSE))
      BY NewBlock
    <2>2. ASSUME NEW pair \in Pairs, NEW d \in Nat, Level(stack, pair[1], d)
          PROVE  Level(stack', pair[1], d + Weight(pair, tokens[pos + 1].k))
      <3>1. Holds(Last(stack), CodeBlock(FALSE), pair[1]) = Weight(pair, "{")
        <4>1. CASE pair[1] = "{"
          BY <1>2, <4>1, BlockBegins, WeightOf
        <4>2. CASE pair[1] # "{"
          BY <1>2, <4>2, BlockBegins, WeightOf
        <4> QED BY <4>1, <4>2
      <3>2. tokens[pos + 1].k = "{"
        BY <1>6 DEF Is
      <3> QED BY <1>2, <1>6, <2>1, <2>2, <3>1, <3>2, LevelPush
    <2>3. PICK m \in Nat : m = pos
      BY <1>2
    <2>4. \A j \in pos .. m : tokens[j].k \notin BracketKinds
      <3>1. \A j \in pos .. m : j = pos
        BY <1>2, <2>3
      <3>2. tokens[pos].k \notin BracketKinds
        BY <1>6 DEF Is, BracketKinds
      <3> QED BY <3>1, <3>2
    <2>5. m + 1 \in DOMAIN tokens /\ pos - 1 <= m /\ pos' = m + 2
      <3>1. pos + 1 \in DOMAIN tokens
        BY <1>6 DEF Is
      <3>2. pos - 1 <= m
        BY <1>2, <2>3
      <3>3. pos' = m + 2
        BY <1>6, <2>3
      <3> QED BY <2>3, <3>1, <3>2, <3>3
    <2>6. \A pair \in Pairs : \A d \in Nat :
            Level(stack, pair[1], d) => Level(stack', pair[1], d + Weight(pair, tokens[m + 1].k))
      BY <2>2, <2>3
    <2> QED BY <1>1, <1>2, <2>4, <2>5, <2>6, Reads
  <1> QED BY <1>3, <1>4, <1>5, <1>6 DEF Else, Become, Begin

(* The brackets of the parameters are open for their names only. *)
LEMMA ParamsLedger == ASSUME TypeOK, TypeOK', Ledger, Params, ~Swallow PROVE Ledger'
  <1>1. AtItem("PARAMS") /\ UNCHANGED tokens
    BY ParamsCases
  <1>2. CASE Fail
    BY <1>1, <1>2, FailLedger
  <1>3. CASE ~Fail
    <2>1. /\ Is(pos, "(") /\ Others # {} /\ ListClosed /\ ParamsOnly
          /\ \E args : stack' = Append(Below, Took(args))
          /\ pos' = IF Is(CloseAt + 1, "static") THEN CloseAt + 2 ELSE CloseAt + 1
      BY <1>3, ParamsCases, CloseAtFirst
    <2>2. PICK len \in Nat : len = Len(tokens) /\ DOMAIN tokens = 1 .. len
      BY TokensAre
    <2>3. PICK p \in Nat : p = pos - 1 /\ pos = p + 1
      BY DEF TypeOK
    <2>4. PICK c : c = CloseAt /\ c \in p + 2 .. len /\ Is(c, ")")
      <3>1. pos + 1 = p + 2
        BY <2>3
      <3> QED BY <2>1, <2>2, <3>1, CloseAtFirst DEF ListClosed
    <2>5. PICK q \in Nat : /\ q = c \/ (q = c + 1 /\ Is(c + 1, "static"))
                          /\ pos' = q + 1
      <3>1. c \in Nat /\ c + 1 \in Nat
        BY <2>4
      <3>2. CASE Is(c + 1, "static")
        <4>1. pos' = (c + 1) + 1
          BY <2>1, <2>4, <3>1, <3>2
        <4> QED BY <3>1, <3>2, <4>1, Zenon
      <3>3. CASE ~Is(c + 1, "static")
        <4>1. pos' = c + 1
          BY <2>1, <2>4, <3>3
        <4> QED BY <3>1, <4>1, Zenon
      <3> QED BY <3>2, <3>3
    <2>6. q \in Nat /\ p < q /\ q <= len /\ pos' - 1 = q
      <3>1. CASE q = c
        BY <2>3, <2>4, <2>5, <3>1
      <3>2. CASE q # c
        <4>1. q = c + 1 /\ c + 1 \in 1 .. len
          BY <2>2, <2>5, <3>2 DEF Is
        <4> QED BY <2>3, <2>4, <2>5, <4>1
      <3> QED BY <3>1, <3>2
    <2>7. Accounted /\ Depth(tokens, Curly, Len(tokens)) <= 0
      BY <1>1, AtItemFacts DEF Ledger
    <2>8. ASSUME NEW pair \in Pairs
          PROVE  /\ Level(stack', pair[1], Depth(tokens, pair, q))
                 /\ \A n \in 0 .. q : Depth(tokens, pair, n) >= 0
      <3>1. Level(stack, pair[1], Depth(tokens, pair, p)) /\ \A n \in 0 .. p : Depth(tokens, pair, n) >= 0
        BY <2>3, <2>7 DEF Accounted
      <3>2. PICK d \in Nat : d = Depth(tokens, pair, p)
        BY <3>1, LevelIsNat DEF TypeOK
      <3>3. PICK w \in Nat : w = Weight(pair, "(") /\ Weight(pair, ")") = -w
        <4>1. CASE pair[1] = "("
          <5>1. Weight(pair, "(") = 1 /\ Weight(pair, ")") = -1
            BY <4>1, WeightOf
          <5> QED BY <5>1
        <4>2. CASE pair[1] # "("
          <5>1. Weight(pair, "(") = 0 /\ Weight(pair, ")") = 0
            BY <4>2, WeightOf
          <5>2. Weight(pair, ")") = -0
            BY <5>1
          <5> QED BY <5>1, <5>2
        <4> QED BY <4>1, <4>2
      <3>4. Depth(tokens, pair, p + 1) = d + w
        <4>1. tokens[p + 1].k = "("
          BY <2>1, <2>3 DEF Is
        <4> QED BY <3>2, <3>3, <4>1, DepthStep
      <3>5. ASSUME NEW n \in Nat, p + 1 <= n, n <= c - 1 PROVE Depth(tokens, pair, n) = d + w
        <4>1. \A j \in p + 1 + 1 .. n : tokens[j].k \notin BracketKinds
          <5>1. \A j \in p + 1 + 1 .. n : j \in pos + 1 .. CloseAt - 1
            BY <2>3, <2>4, <3>5
          <5>2. \A j \in pos + 1 .. CloseAt - 1 : Is(j, "id") \/ Is(j, ",")
            BY <2>1 DEF ParamsOnly
          <5> QED BY <5>1, <5>2 DEF Is, BracketKinds
        <4> QED BY <3>4, <3>5, <4>1, DepthSame
      <3>6. Depth(tokens, pair, c) = d
        <4>1. PICK m \in Nat : m = c - 1 /\ m + 1 = c /\ p + 1 <= m
          BY <2>4
        <4>2. Depth(tokens, pair, m) = d + w
          BY <3>5, <4>1
        <4>3. tokens[m + 1].k = ")"
          BY <2>4, <4>1 DEF Is
        <4>4. Depth(tokens, pair, m + 1) = d + w + -w
          BY <3>3, <4>2, <4>3, DepthStep
        <4> QED BY <4>1, <4>4
      <3>7. q = c + 1 => Depth(tokens, pair, q) = d
        <4>1. SUFFICES ASSUME q = c + 1 PROVE Depth(tokens, pair, q) = d
          OBVIOUS
        <4>2. Is(c + 1, "static")
          BY <2>4, <2>5, <4>1
        <4>3. \A j \in c + 1 .. q : j = c + 1
          BY <2>4, <4>1
        <4>4. \A j \in c + 1 .. q : tokens[j].k \notin BracketKinds
          BY <4>2, <4>3 DEF Is, BracketKinds
        <4>5. c \in Nat /\ q \in Nat /\ c <= q
          BY <2>4, <4>1
        <4> QED BY <3>6, <4>4, <4>5, DepthSame
      <3>8. Depth(tokens, pair, q) = d
        BY <2>5, <3>6, <3>7
      <3>9. Level(stack', pair[1], d)
        BY <1>1, <2>1, <3>1, <3>2, LevelTookPlain
      <3>10. ASSUME NEW n \in 0 .. q PROVE Depth(tokens, pair, n) >= 0
        <4>1. CASE n <= p
          BY <2>6, <3>1, <4>1
        <4>2. CASE p + 1 <= n /\ n <= c - 1
          BY <2>6, <3>2, <3>3, <3>5, <4>2
        <4>3. CASE n = c
          BY <3>2, <3>6, <4>3
        <4>4. CASE n = q
          BY <3>2, <3>8, <4>4
        <4>5. n <= p \/ (p + 1 <= n /\ n <= c - 1) \/ n = c \/ n = q
          BY <2>4, <2>5, <2>6
        <4> QED BY <4>1, <4>2, <4>3, <4>4, <4>5
      <3> QED BY <3>8, <3>9, <3>10
    <2>9. Accounted'
      <3>1. \A pair \in Pairs :
              /\ Level(stack', pair[1], Depth(tokens', pair, pos' - 1))
              /\ \A n \in 0 .. pos' - 1 : Depth(tokens', pair, n) >= 0
        BY <1>1, <2>6, <2>8
      <3>2. pos' - 1 \in 0 .. Len(tokens')
        BY <1>1, <2>2, <2>6
      <3> QED BY <3>1, <3>2 DEF Accounted
    <2> QED BY <1>1, <2>7, <2>9 DEF Ledger
  <1> QED BY <1>2, <1>3

LEMMA VarHolds ==
    ASSUME NEW f, f.kind = "statement", f.form = "var", f.at \in {1, 2, 3}, NEW b, NEW open
    PROVE  Holds(b, f, open) = 0
  <1>1. Bracketed(f.form, f.at) = 0
    BY DEF Bracketed, Between
  <1>2. Forms[f.form][f.at] # "BLOCK"
    BY FormVar
  <1>3. Braced(f.form, f.at) = 0
    BY <1>2 DEF Braced
  <1> QED BY <1>1, <1>3 DEF Holds

LEMMA DeclareLedger == ASSUME TypeOK, TypeOK', Ledger, Declare, ~Swallow PROVE Ledger'
  <1>1. AtItem("DECLARE") /\ UNCHANGED tokens /\ pos \in DOMAIN tokens
    BY DEF Declare, More
  <1>2. CASE Fail
    BY <1>1, <1>2, FailLedger
  <1>3. CASE ~Fail
    <2>1. PICK x, n : /\ n \in {2, 3}
                      /\ stack' = Front(Below) \o <<[Last(Below) EXCEPT !.vars = Append(@, x)], [Top EXCEPT !.at = n]>>
                      /\ Is(pos, "id") /\ (pos' = pos \/ pos' = pos + 1)
      BY <1>3 DEF Declare
    <2>2. PICK block, here : /\ block = [Last(Below) EXCEPT !.vars = Append(@, x)]
                             /\ here = [Top EXCEPT !.at = n]
      OBVIOUS
    <2>3. /\ Len(stack) > 1 /\ Stacked(Below) /\ IsBlock(Last(Below))
          /\ IsActivation(block) /\ Alike(Last(Below), block)
          /\ IsActivation(here) /\ Calls(block, here)
          /\ Front(Below) \o <<block, here>> = Append(Append(Front(Below), block), here)
      BY <1>1, <2>1, <2>2, DeclareFacts
    <2>4. status = "parsing" /\ Stacked(stack) /\ Top.kind = "statement" /\ Top.form = "var" /\ Top.at = 1
      BY <1>1, AtItemFacts, TopStatement, WhoseItem DEF Asks
    <2>5. here.kind = "statement" /\ here.form = "var" /\ here.at \in {1, 2, 3}
      <3>1. PICK form, at, parts : Top = [kind |-> "statement", form |-> form, at |-> at, parts |-> parts]
        BY <2>4, TopStatement
      <3>2. PICK t : t = Top
        OBVIOUS
      <3>3. t = [kind |-> "statement", form |-> form, at |-> at, parts |-> parts] /\ here = [t EXCEPT !.at = n]
        BY <2>2, <3>1, <3>2
      <3>4. here = [kind |-> "statement", form |-> form, at |-> n, parts |-> parts]
        BY <3>3
      <3>5. form = "var"
        BY <2>4, <3>1
      <3> QED BY <2>1, <3>4, <3>5
    <2>6. PICK s : s = Append(Front(Below), block)
      OBVIOUS
    <2>7. Stacked(s) /\ Last(s) = block
      <3>1. PICK u : u = Front(Below)
        OBVIOUS
      <3>2. IsSeq(u)
        BY <2>3, <3>1, TopOf, Fronts
      <3>3. s = Append(u, block) /\ Last(Append(u, block)) = block
        BY <2>6, <3>1, <3>2, Appended
      <3>4. Stacked(s)
        BY <2>3, <2>6, Replaced
      <3> QED BY <3>3, <3>4
    <2>8. ASSUME NEW pair \in Pairs, NEW d \in Nat, Level(stack, pair[1], d)
          PROVE  Level(stack', pair[1], d)
      <3>1. Holds(Last(Below), Top, pair[1]) = 0
        BY <2>4, VarHolds
      <3>2. PICK c \in Nat : Level(Below, pair[1], c) /\ d = c + Holds(Last(Below), Top, pair[1])
        BY <2>3, <2>4, <2>8, LevelPop DEF Below, Top
      <3>3. d = c
        BY <3>1, <3>2
      <3>4. PICK b, u : b = Last(Below) /\ u = Under(Below, Len(Below))
        OBVIOUS
      <3>5. PICK h \in Nat : h = Holds(u, b, pair[1])
        BY <2>3, <3>4, TopOf, HoldsNat
      <3>6. Holds(u, block, pair[1]) = h
        <4>1. b.kind = "block" /\ block.kind = "block" /\ block.single = b.single
          BY <2>3, <3>4 DEF IsBlock, Alike
        <4> QED BY <3>5, <4>1 DEF Holds
      <3>7. Level(s, pair[1], c - h + h)
        BY <2>3, <2>6, <3>2, <3>4, <3>5, <3>6, LevelReplace
      <3>8. c - h + h = d
        BY <3>3
      <3>9. Level(Append(s, here), pair[1], d + Holds(block, here, pair[1]))
        BY <2>3, <2>7, <3>7, <3>8, LevelPush
      <3>10. d + Holds(block, here, pair[1]) = d
        <4>1. Holds(block, here, pair[1]) = 0
          BY <2>5, VarHolds
        <4> QED BY <4>1
      <3>11. stack' = Append(s, here)
        BY <2>1, <2>2, <2>3, <2>6
      <3> QED BY <3>9, <3>10, <3>11
    <2>9. tokens[pos].k \notin BracketKinds
      BY <2>1 DEF Is, BracketKinds
    <2> QED BY <1>1, <2>1, <2>4, <2>8, <2>9, ReadsNone, ReadsWord
  <1> QED BY <1>2, <1>3

LEMMA CompleteLedger == ASSUME TypeOK, TypeOK', Ledger, Complete PROVE Ledger'
  <1>1. /\ Stacked(stack) /\ UNCHANGED <<tokens, pos>> /\ status = "parsing"
        /\ Top.kind = "statement" /\ Top.at > Len(Forms[Top.form])
    BY DEF TypeOK, Complete, Parsing
  <1>2. CASE Len(stack) = 1
    <2>1. stack' = stack
      BY <1>2 DEF Complete
    <2>2. \A pair \in Pairs : \A d \in Nat : Level(stack, pair[1], d) => Level(stack', pair[1], d)
      BY <2>1
    <2> QED BY <1>1, <2>2, ReadsNone
  <1>3. CASE Len(stack) # 1
    <2>1. Len(stack) > 1
      <3>1. PICK n \in Nat \ {0} : n = Len(stack)
        BY <1>1, TopOf
      <3> QED BY <1>3, <3>1
    <2>2. stack' = Below \/ stack' = Returned(Below, Built(Top.form, Top.parts))
      BY <1>3 DEF Complete
    <2>3. PICK f, b : f = Top /\ b = Last(Below)
      OBVIOUS
    <2>4. IsStatement(f) /\ ~Waits(f)
      <3>1. IsStatement(f)
        BY <1>1, <2>3, TopStatement DEF IsActivation, IsStatement, IsBlock, IsExpression, IsList, IsIndex
      <3>2. PICK n \in Nat : n = Len(Forms[Top.form])
        BY <1>1, TopStatement
      <3>3. PICK at \in 1 .. n + 1 : at = Top.at
        BY <1>1, <3>2, TopStatement
      <3> QED BY <1>1, <2>3, <3>1, <3>2, <3>3 DEF Waits
    <2>5. b.kind # "statement"
      <3>1. Calls(b, f) /\ f.kind = "statement"
        BY <1>1, <2>1, <2>3, Popped DEF Top, Below
      <3> QED BY <3>1 DEF Calls
    <2>6. ASSUME NEW pair \in Pairs, NEW d \in Nat, Level(stack, pair[1], d)
          PROVE  Level(stack', pair[1], d)
      <3>1. Holds(b, f, pair[1]) = 0
        BY <2>4, StatementOver
      <3>2. PICK c \in Nat : Level(Below, pair[1], c) /\ d = c + Holds(b, f, pair[1])
        BY <1>1, <2>1, <2>3, <2>6, LevelPop DEF Below, Top
      <3>3. d = c
        BY <3>1, <3>2
      <3>4. CASE stack' = Below
        BY <3>2, <3>3, <3>4
      <3>5. CASE stack' # Below
        <4>1. PICK e : stack' = Returned(Below, e)
          BY <2>2, <3>5
        <4>2. Stacked(Below)
          BY <1>1, <2>1, Popped DEF Below
        <4>3. Level(stack', pair[1], d + Paid(pair, b))
          BY <2>3, <2>5, <3>2, <3>3, <4>1, <4>2, LevelReturned
        <4>4. d + Paid(pair, b) = d
          BY <2>5 DEF Paid
        <4> QED BY <4>3, <4>4
      <3> QED BY <3>4, <3>5
    <2> QED BY <1>1, <2>6, ReadsNone
  <1> QED BY <1>2, <1>3

-----------------------------------------------------------------------------
(***************************************************************************)
(* The actions, for as long as no error is swallowed: expressions          *)
(***************************************************************************)
LEMMA LevelGoesOn ==
    ASSUME TypeOK, Parsing("expression"), NEW n \in Nat, GoesOn(n),
           NEW pair \in Pairs, NEW d \in Nat, Level(stack, pair[1], d)
    PROVE  /\ Top.brackets \in Nat
           /\ pair[1] = "(" => Level(stack', pair[1], d - Top.brackets + n)
           /\ pair[1] # "(" => Level(stack', pair[1], d)
  <1>1. Stacked(stack) /\ Top.kind = "expression"
    BY TopExpression
  <1>2. PICK b \in Nat : b = Top.brackets
    BY TopRecord
  <1>3. PICK f : IsActivation(f) /\ f.kind = "expression" /\ f.brackets = n /\ stack' = Append(Below, f)
    BY DEF GoesOn
  <1>4. PICK t, u : t = Top /\ u = Under(stack, Len(stack))
    OBVIOUS
  <1>5. Alike(t, f)
    BY <1>1, <1>3, <1>4 DEF Alike
  <1>6. PICK h \in Nat : h = Holds(u, t, pair[1])
    BY <1>1, <1>4, TopOf, HoldsNat DEF Top
  <1>7. PICK g \in Nat : g = Holds(u, f, pair[1])
    BY <1>3, HoldsNat
  <1>8. Level(stack', pair[1], d - h + g)
    BY <1>1, <1>3, <1>4, <1>5, <1>6, <1>7, LevelReplace DEF Top, Below
  <1>9. pair[1] = "(" => h = b /\ g = n
    BY <1>1, <1>2, <1>3, <1>4, <1>6, <1>7, Zenon DEF Holds
  <1>10. pair[1] # "(" => h = 0 /\ g = 0
    BY <1>1, <1>3, <1>4, <1>6, <1>7, Zenon DEF Holds
  <1>11. ASSUME pair[1] = "(" PROVE Level(stack', pair[1], d - b + n)
    BY <1>8, <1>9, <1>11
  <1>12. ASSUME pair[1] # "(" PROVE Level(stack', pair[1], d)
    <2>1. d - h + g = d
      BY <1>10, <1>12
    <2> QED BY <1>8, <2>1
  <1> QED BY <1>2, <1>11, <1>12

LEMMA OpLedger == ASSUME TypeOK, TypeOK', Ledger, Op PROVE Ledger'
  <1>1. /\ InExpression /\ Parsing("expression") /\ Is(pos, "op")
        /\ UNCHANGED tokens /\ pos' = pos + 1
    BY DEF Op, InExpression
  <1>2. PICK n \in Nat : n = Top.brackets
    BY <1>1, TopRecord
  <1>3. GoesOn(n)
    BY <1>2, OpGoesOn
  <1>4. ASSUME NEW pair \in Pairs, NEW d \in Nat, Level(stack, pair[1], d)
        PROVE  Level(stack', pair[1], d)
    <2>1. d - n + n = d
      OBVIOUS
    <2> QED BY <1>1, <1>2, <1>3, <1>4, <2>1, LevelGoesOn
  <1>5. pos \in DOMAIN tokens /\ tokens[pos].k \notin BracketKinds
    BY <1>1 DEF Is, BracketKinds
  <1>6. status = "parsing"
    BY <1>1, InExpressionFacts
  <1> QED BY <1>1, <1>4, <1>5, <1>6, ReadsWord

LEMMA OpenLedger == ASSUME TypeOK, TypeOK', Ledger, Open PROVE Ledger'
  <1>1. /\ InExpression /\ Parsing("expression") /\ Is(pos, "(")
        /\ UNCHANGED tokens /\ pos' = pos + 1
    BY DEF Open, InExpression
  <1>2. PICK b \in Nat : b = Top.brackets
    BY <1>1, TopRecord
  <1>3. PICK n \in Nat : n = b + 1
    OBVIOUS
  <1>4. GoesOn(n)
    BY <1>2, <1>3, OpenGoesOn
  <1>5. pos \in DOMAIN tokens /\ tokens[pos].k = "("
    BY <1>1 DEF Is
  <1>6. ASSUME NEW pair \in Pairs, NEW d \in Nat, Level(stack, pair[1], d)
        PROVE  Level(stack', pair[1], d + Weight(pair, tokens[pos].k))
    <2>1. CASE pair[1] = "("
      <3>1. Weight(pair, tokens[pos].k) = 1
        BY <1>5, <2>1, WeightOf
      <3>2. Level(stack', pair[1], d - b + n)
        BY <1>1, <1>2, <1>4, <1>6, <2>1, LevelGoesOn
      <3>3. d - b + n = d + Weight(pair, tokens[pos].k)
        BY <1>3, <3>1
      <3> QED BY <3>2, <3>3
    <2>2. CASE pair[1] # "("
      <3>1. Weight(pair, tokens[pos].k) = 0
        BY <1>5, <2>2, WeightOf
      <3>2. Level(stack', pair[1], d)
        BY <1>1, <1>4, <1>6, <2>2, LevelGoesOn
      <3>3. d = d + Weight(pair, tokens[pos].k)
        BY <3>1
      <3> QED BY <3>2, <3>3
    <2> QED BY <2>1, <2>2
  <1>7. status = "parsing"
    BY <1>1, InExpressionFacts
  <1> QED BY <1>1, <1>5, <1>6, <1>7, ReadsOne

LEMMA CloseLedger == ASSUME TypeOK, TypeOK', Ledger, Close PROVE Ledger'
  <1>1. /\ InExpression /\ Parsing("expression") /\ Is(pos, ")")
        /\ UNCHANGED tokens /\ pos' = pos + 1
    BY DEF Close, InExpression
  <1>2. PICK b \in Nat \ {0} : b = Top.brackets
    BY CloseGoesOn
  <1>3. PICK n \in Nat : n = b - 1
    OBVIOUS
  <1>4. GoesOn(n)
    BY <1>2, <1>3, CloseGoesOn
  <1>5. pos \in DOMAIN tokens /\ tokens[pos].k = ")"
    BY <1>1 DEF Is
  <1>6. ASSUME NEW pair \in Pairs, NEW d \in Nat, Level(stack, pair[1], d)
        PROVE  Level(stack', pair[1], d + Weight(pair, tokens[pos].k))
    <2>1. CASE pair[1] = "("
      <3>1. Weight(pair, tokens[pos].k) = -1
        BY <1>5, <2>1, WeightOf
      <3>2. Level(stack', pair[1], d - b + n)
        BY <1>1, <1>2, <1>4, <1>6, <2>1, LevelGoesOn
      <3>3. d - b + n = d + Weight(pair, tokens[pos].k)
        BY <1>3, <3>1
      <3> QED BY <3>2, <3>3
    <2>2. CASE pair[1] # "("
      <3>1. Weight(pair, tokens[pos].k) = 0
        BY <1>5, <2>2, WeightOf
      <3>2. Level(stack', pair[1], d)
        BY <1>1, <1>4, <1>6, <2>2, LevelGoesOn
      <3>3. d = d + Weight(pair, tokens[pos].k)
        BY <3>1
      <3> QED BY <3>2, <3>3
    <2> QED BY <2>1, <2>2
  <1>7. status = "parsing"
    BY <1>1, InExpressionFacts
  <1> QED BY <1>1, <1>5, <1>6, <1>7, ReadsOne

(* A tree is built only when every bracket was closed. *)
LEMMA AllClosed ==
    ASSUME NEW queue, IsSeq(queue), NEW ops, Ops(ops), Trees(queue \o Reverse(ops)) # {}
    PROVE  Cardinality(BracketsIn(ops)) = 0
  <1>1. SUFFICES ASSUME Cardinality(BracketsIn(ops)) # 0 PROVE FALSE
    OBVIOUS
  <1>2. BracketsIn(ops) # {}
    <2>1. Cardinality({}) = 0
      BY FS_EmptySet
    <2> QED BY <1>1, <2>1
  <1>3. PICK n \in Nat : n = Len(ops) /\ IsSeq(ops)
    BY DEF Ops, IsSeq
  <1>4. PICK i \in 1 .. n : ops[i] = Bracket
    BY <1>2, <1>3 DEF BracketsIn
  <1>5. PICK t : t = Reverse(ops)
    OBVIOUS
  <1>6. IsSeq(t) /\ Len(t) = n /\ \A k \in 1 .. n : t[k] = ops[n - k + 1]
    BY <1>3, <1>5, Reversed
  <1>7. PICK q \in Nat : q = Len(queue)
    BY DEF IsSeq
  <1>8. PICK all : all = queue \o t
    OBVIOUS
  <1>9. IsSeq(all) /\ Len(all) = q + n /\ \A k \in 1 .. n : all[q + k] = t[k]
    <2>1. /\ IsSeq(queue \o t)
          /\ Len(queue \o t) = Len(queue) + Len(t)
          /\ \A k \in 1 .. Len(t) : (queue \o t)[Len(queue) + k] = t[k]
      <3>1. IsSeq(queue) /\ IsSeq(t)
        BY <1>6
      <3> QED BY <3>1, Joined
    <2>2. IsSeq(all) /\ Len(all) = Len(queue) + Len(t) /\ \A k \in 1 .. Len(t) : all[Len(queue) + k] = t[k]
      BY <1>8, <2>1, Zenon
    <2> QED BY <1>6, <1>7, <2>2
  <1>10. PICK j \in 1 .. n : j = n - i + 1 /\ n - j + 1 = i
    <2>1. i \in Nat /\ 1 <= i /\ i <= n
      OBVIOUS
    <2>2. PICK k \in Int : k = n - i
      BY <2>1
    <2>3. k + 1 \in 1 .. n /\ n - (k + 1) + 1 = i
      BY <2>1, <2>2
    <2> QED BY <2>2, <2>3
  <1>11. q + j \in 1 .. Len(all) /\ all[q + j] = Bracket
    BY <1>4, <1>6, <1>9, <1>10
  <1>12. ASSUME NEW k \in q + j .. Len(all)
         PROVE  all[k] = Bracket \/ all[k].type = "operator"
    <2>1. PICK m \in 1 .. n : k = q + m
      <3>1. k - q \in 1 .. n /\ k = q + (k - q)
        BY <1>9, <1>12
      <3> QED BY <3>1
    <2>2. n - m + 1 \in 1 .. n
      OBVIOUS
    <2>3. all[k] = ops[n - m + 1]
      BY <1>6, <1>9, <2>1
    <2> QED BY <1>3, <2>2, <2>3 DEF Ops
  <1>13. Trees(all) = {}
    BY <1>9, <1>11, <1>12, NoTrees
  <1> QED BY <1>5, <1>8, <1>13

LEMMA ExpressionEndLedger == ASSUME TypeOK, TypeOK', Ledger, ExpressionEnd, ~Swallow PROVE Ledger'
  <1>1. /\ status = "parsing" /\ Stacked(stack) /\ Len(stack) > 1 /\ Top.kind = "expression" /\ Parsing("expression")
        /\ UNCHANGED <<tokens, pos>>
    BY TopExpression DEF ExpressionEnd
  <1>2. PICK end, queue, ops :
           /\ Top = [kind |-> "expression", end |-> end, queue |-> queue, ops |-> ops, brackets |-> Top.brackets]
           /\ IsSeq(queue) /\ Ops(ops) /\ Top.brackets = Cardinality(BracketsIn(ops))
    BY <1>1, TopRecord
  <1>3. Top.queue = queue /\ Top.ops = ops
    BY <1>2
  <1>4. Fail \/ \E tree \in Trees(queue \o Reverse(ops)) : stack' = Returned(Below, tree.e)
    BY <1>3 DEF ExpressionEnd
  <1>5. CASE Fail
    BY <1>1, <1>5, FailLedger
  <1>6. ASSUME NEW tree \in Trees(queue \o Reverse(ops)), stack' = Returned(Below, tree.e)
        PROVE  Ledger'
    <2>1. Top.brackets = 0
      BY <1>2, <1>6, AllClosed
    <2>2. PICK f, b : f = Last(stack) /\ b = Last(Front(stack))
      OBVIOUS
    <2>3. f.kind = "expression" /\ f.brackets = 0 /\ Calls(b, f)
      BY <1>1, <2>1, <2>2, Popped DEF Top
    <2>4. b.kind \in {"list", "index"} \/ (Waits(b) /\ Asks(b) \in {"EXPR", "VALUE"})
      BY <2>3 DEF Calls
    <2>5. ASSUME NEW pair \in Pairs, NEW d \in Nat, Level(stack, pair[1], d)
          PROVE  Level(stack', pair[1], d)
      <3>1. Holds(b, f, pair[1]) = 0
        BY <2>3 DEF Holds
      <3>2. Paid(pair, b) = 0
        <4>1. CASE b.kind = "statement"
          <5>1. Asks(b) \in {"EXPR", "VALUE"}
            BY <2>4, <4>1
          <5> QED BY <4>1, <5>1, DueIs DEF Paid
        <4>2. CASE b.kind # "statement"
          BY <4>2 DEF Paid
        <4> QED BY <4>1, <4>2
      <3>3. Level(stack', pair[1], d - Holds(b, f, pair[1]) + Paid(pair, b))
        BY <1>1, <1>6, <2>2, <2>5, LevelEnds DEF Below
      <3>4. d - Holds(b, f, pair[1]) + Paid(pair, b) = d
        BY <3>1, <3>2
      <3> QED BY <3>3, <3>4
    <2> QED BY <1>1, <2>5, ReadsNone
  <1> QED BY <1>4, <1>5, <1>6

(* An expression takes a value. *)
LEMMA LevelTakes ==
    ASSUME TypeOK, Last(stack).kind = "expression", NEW e
    PROVE  \A pair \in Pairs : \A d \in Nat : Level(stack, pair[1], d) => Level(Returned(stack, e), pair[1], d)
  <1>1. Stacked(stack)
    BY DEF TypeOK
  <1>2. ASSUME NEW pair \in Pairs, NEW d \in Nat, Level(stack, pair[1], d)
        PROVE  Level(Returned(stack, e), pair[1], d)
    <2>1. Level(Returned(stack, e), pair[1], d + Paid(pair, Last(stack)))
      BY <1>1, <1>2, LevelReturned
    <2>2. Paid(pair, Last(stack)) = 0
      BY DEF Paid
    <2>3. d + Paid(pair, Last(stack)) = d
      BY <2>2
    <2> QED BY <2>1, <2>3
  <1> QED BY <1>2

LEMMA ConstantLedger == ASSUME TypeOK, TypeOK', Ledger, Constant PROVE Ledger'
  <1>1. /\ status = "parsing" /\ Last(stack).kind = "expression" /\ UNCHANGED tokens /\ pos' = pos + 1
        /\ pos \in DOMAIN tokens /\ tokens[pos].k \in Literals
    BY InExpressionFacts DEF Constant
  <1>2. PICK e : stack' = Returned(stack, e)
    BY DEF Constant
  <1>3. \A pair \in Pairs : \A d \in Nat : Level(stack, pair[1], d) => Level(stack', pair[1], d)
    BY <1>1, <1>2, LevelTakes
  <1>4. tokens[pos].k \notin BracketKinds
    BY <1>1 DEF Literals, BracketKinds
  <1> QED BY <1>1, <1>3, <1>4, ReadsWord

LEMMA FunctionValueLedger == ASSUME TypeOK, TypeOK', Ledger, FunctionValue PROVE Ledger'
  <1>1. /\ status = "parsing" /\ UNCHANGED tokens /\ pos' = pos + 1
        /\ stack' = Append(stack, Statement("function")) /\ Is(pos, "function")
    BY InExpressionFacts DEF FunctionValue, Begin
  <1>2. PICK f : f = Statement("function")
    OBVIOUS
  <1>3. IsActivation(f) /\ \A pair \in Pairs : Holds(Last(stack), f, pair[1]) = 0
    BY <1>2, FormNames, NewStatement, StatementBegins
  <1>4. \A pair \in Pairs : \A d \in Nat : Level(stack, pair[1], d) => Level(stack', pair[1], d)
    BY <1>1, <1>2, <1>3, LevelBegins
  <1>5. pos \in DOMAIN tokens /\ tokens[pos].k \notin BracketKinds
    BY <1>1 DEF Is, BracketKinds
  <1> QED BY <1>1, <1>4, <1>5, ReadsWord

LEMMA NoValueLedger == ASSUME TypeOK, TypeOK', Ledger, NoValue, ~Swallow PROVE Ledger'
  BY FailLedger DEF NoValue

-----------------------------------------------------------------------------
(***************************************************************************)
(* Names, lists and indexes                                                *)
(***************************************************************************)
LEMMA ListBegins ==
    ASSUME TypeOK, NEW make
    PROVE  \A pair \in Pairs : \A d \in Nat :
             Level(stack, pair[1], d) => Level(Append(stack, List(make)), pair[1], d + Weight(pair, "("))
  <1>1. Stacked(stack)
    BY DEF TypeOK
  <1>2. PICK f : f = List(make)
    OBVIOUS
  <1>3. IsActivation(f) /\ f.kind = "list"
    BY <1>2, NewList
  <1>4. ASSUME NEW pair \in Pairs, NEW d \in Nat, Level(stack, pair[1], d)
        PROVE  Level(Append(stack, f), pair[1], d + Weight(pair, "("))
    <2>1. Level(Append(stack, f), pair[1], d + Holds(Last(stack), f, pair[1]))
      BY <1>1, <1>3, <1>4, LevelPush
    <2>2. Holds(Last(stack), f, pair[1]) = Weight(pair, "(")
      BY <1>3, ListHolds
    <2> QED BY <2>1, <2>2
  <1> QED BY <1>2, <1>4

LEMMA IndexBegins ==
    ASSUME TypeOK, Last(stack).kind = "expression", NEW make, NEW end
    PROVE  \A pair \in Pairs : \A d \in Nat :
             Level(stack, pair[1], d)
               => Level(stack \o <<Index(make), Expression(end)>>, pair[1], d + Weight(pair, "["))
  <1>1. Stacked(stack)
    BY DEF TypeOK
  <1>2. PICK f, g, t : f = Index(make) /\ g = Expression(end) /\ t = Append(stack, f)
    OBVIOUS
  <1>3. IsActivation(f) /\ f.kind = "index" /\ IsActivation(g)
    BY <1>2, NewIndex, NewExpression
  <1>4. Calls(Last(stack), f)
    BY <1>3 DEF Calls
  <1>5. Stacked(t)
    BY <1>1, <1>2, <1>3, <1>4, Pushed
  <1>6. stack \o <<f, g>> = Append(t, g)
    BY <1>1, <1>2, BeginIndexOK
  <1>7. ASSUME NEW pair \in Pairs, NEW d \in Nat, Level(stack, pair[1], d)
        PROVE  Level(Append(t, g), pair[1], d + Weight(pair, "["))
    <2>1. Level(t, pair[1], d + Holds(Last(stack), f, pair[1]))
      BY <1>1, <1>2, <1>3, <1>7, LevelPush
    <2>2. Holds(Last(stack), f, pair[1]) = Weight(pair, "[")
      BY <1>3, IndexHolds
    <2>3. PICK c : c = d + Weight(pair, "[")
      OBVIOUS
    <2>4. Level(t, pair[1], c)
      BY <2>1, <2>2, <2>3
    <2>5. c \in Nat
      BY <1>5, <2>4, LevelIsNat
    <2>6. Level(Append(t, g), pair[1], c + Holds(Last(t), g, pair[1]))
      BY <1>3, <1>5, <2>4, LevelPush
    <2>7. c + Holds(Last(t), g, pair[1]) = c
      <3>1. Holds(Last(t), g, pair[1]) = 0
        BY <1>2, ExpressionBegins
      <3> QED BY <2>5, <3>1
    <2> QED BY <2>3, <2>6, <2>7
  <1> QED BY <1>2, <1>6, <1>7

LEMMA NameCases ==
    ASSUME Name
    PROVE  /\ InExpression /\ Is(pos, "id") /\ UNCHANGED tokens
           /\ \/ Fail
              \/ /\ Is(Qualified(pos).next, "(") /\ pos' = Qualified(pos).next + 1
                 /\ \E make : stack' = Append(stack, List(make))
              \/ /\ Is(Qualified(pos).next, "[") /\ pos' = Qualified(pos).next + 1
                 /\ \E make : stack' = stack \o <<Index(make), Expression("]")>>
              \/ /\ pos' = Qualified(pos).next
                 /\ \E e : stack' = Returned(stack, e)
  BY DEF Name, Begin

LEMMA NameLedger == ASSUME TypeOK, TypeOK', Ledger, MembersNamed, Name, ~Swallow PROVE Ledger'
  <1>1. /\ status = "parsing" /\ pos \in Nat \ {0} /\ pos \in DOMAIN tokens /\ Last(stack).kind = "expression"
        /\ UNCHANGED tokens
    BY NameCases, InExpressionFacts
  <1>2. PICK n \in Nat : n = Qualified(pos).next /\ n > pos
    BY <1>1, QualifiedNext
  <1>3. ASSUME NEW j \in pos .. n - 1 PROVE j \in DOMAIN tokens /\ tokens[j].k \notin BracketKinds
    <2>1. Is(j, "id") \/ Is(j, "op")
      <3>1. InExpression /\ Is(pos, "id")
        BY NameCases
      <3> QED BY <1>2, <3>1 DEF MembersNamed
    <2> QED BY <2>1 DEF Is, BracketKinds
  <1>4. PICK m \in Nat : m = n - 1 /\ m + 1 = n /\ m + 2 = n + 1 /\ pos - 1 <= m
    BY <1>1, <1>2
  <1>5. \A j \in pos .. m : tokens[j].k \notin BracketKinds
    BY <1>3, <1>4
  <1>6. CASE Fail
    BY <1>1, <1>6, FailLedger
  <1>7. ASSUME NEW make, Is(n, "("), pos' = n + 1, stack' = Append(stack, List(make)) PROVE Ledger'
    <2>1. m + 1 \in DOMAIN tokens /\ tokens[m + 1].k = "(" /\ pos' = m + 2
      BY <1>4, <1>7 DEF Is
    <2>2. \A pair \in Pairs : \A d \in Nat :
            Level(stack, pair[1], d) => Level(stack', pair[1], d + Weight(pair, tokens[m + 1].k))
      BY <1>7, <2>1, ListBegins
    <2> QED BY <1>1, <1>4, <1>5, <2>1, <2>2, Reads
  <1>8. ASSUME NEW make, Is(n, "["), pos' = n + 1, stack' = stack \o <<Index(make), Expression("]")>> PROVE Ledger'
    <2>1. m + 1 \in DOMAIN tokens /\ tokens[m + 1].k = "[" /\ pos' = m + 2
      BY <1>4, <1>8 DEF Is
    <2>2. \A pair \in Pairs : \A d \in Nat :
            Level(stack, pair[1], d) => Level(stack', pair[1], d + Weight(pair, tokens[m + 1].k))
      BY <1>1, <1>8, <2>1, IndexBegins
    <2> QED BY <1>1, <1>4, <1>5, <2>1, <2>2, Reads
  <1>9. ASSUME NEW e, pos' = n, stack' = Returned(stack, e) PROVE Ledger'
    <2>1. \A pair \in Pairs : \A d \in Nat : Level(stack, pair[1], d) => Level(stack', pair[1], d)
      BY <1>1, <1>9, LevelTakes
    <2>2. pos <= n
      BY <1>1, <1>2
    <2> QED BY <1>1, <1>3, <1>9, <2>1, <2>2, ReadsPlain
  <1> QED BY <1>2, <1>6, <1>7, <1>8, <1>9, NameCases

(* The name behind new has no bracket in it. *)
LEMMA LongestPlain ==
    ASSUME NEW p \in Nat, NEW n \in Nat, IsDotted(p, n), NEW j \in p + 1 .. p + 2 * n
    PROVE  tokens[j].k \notin BracketKinds
  <1>1. PICK k \in Nat : k = j - p /\ j = p + k /\ 1 <= k /\ k <= 2 * n
    <2>1. j - p \in Nat /\ j = p + (j - p) /\ 1 <= j - p /\ j - p <= 2 * n
      OBVIOUS
    <2> QED BY <2>1
  <1>2. PICK i \in Int : i = (k + 1) \div 2
    OBVIOUS
  <1>3. i \in 1 .. n /\ (k = 2 * i \/ k = 2 * i - 1)
    BY <1>1, <1>2
  <1>4. j = p + 2 * i \/ j = p + 2 * i - 1
    BY <1>1, <1>3
  <1>5. IsOp(p + 2 * i - 1, "REFERENCE") /\ Is(p + 2 * i, "id")
    BY <1>3 DEF IsDotted
  <1> QED BY <1>4, <1>5 DEF IsOp, Is, BracketKinds

LEMMA NewLedger == ASSUME TypeOK, TypeOK', Ledger, New, ~Swallow PROVE Ledger'
  <1>1. /\ status = "parsing" /\ pos \in Nat \ {0} /\ UNCHANGED tokens /\ Is(pos, "new")
    BY NewCases, InExpressionFacts
  <1>2. CASE Fail
    BY <1>1, <1>2, FailLedger
  <1>3. CASE ~Fail
    <2>1. PICK n \in Nat : n = Longest(pos + 1) /\ IsDotted(pos + 1, n)
      BY LongestIs DEF Lengths
    <2>2. PICK m \in Nat : m = pos + 2 * n + 1 /\ m + 1 = pos + 2 * n + 2 /\ m + 2 = pos + 2 * n + 2 + 1
      BY <1>1, <2>1
    <2>3. /\ Is(pos + 1, "id") /\ Is(m + 1, "(") /\ pos' = m + 2
          /\ \E make : stack' = Append(stack, List(make))
      BY <1>3, <2>1, <2>2, NewCases
    <2>4. m + 1 \in DOMAIN tokens /\ tokens[m + 1].k = "("
      BY <2>3 DEF Is
    <2>5. ASSUME NEW j \in pos .. m PROVE tokens[j].k \notin BracketKinds
      <3>1. j = pos \/ j = pos + 1 \/ j \in pos + 1 + 1 .. pos + 1 + 2 * n
        BY <1>1, <2>2
      <3>2. CASE j = pos
        BY <1>1, <3>2 DEF Is, BracketKinds
      <3>3. CASE j = pos + 1
        BY <2>3, <3>3 DEF Is, BracketKinds
      <3>4. CASE j \in pos + 1 + 1 .. pos + 1 + 2 * n
        <4>1. PICK p \in Nat : p = pos + 1
          BY <1>1
        <4> QED BY <2>1, <3>4, <4>1, LongestPlain
      <3> QED BY <3>1, <3>2, <3>3, <3>4
    <2>6. pos - 1 <= m
      BY <1>1, <2>2
    <2>7. \A pair \in Pairs : \A d \in Nat :
            Level(stack, pair[1], d) => Level(stack', pair[1], d + Weight(pair, tokens[m + 1].k))
      BY <2>3, <2>4, ListBegins
    <2> QED BY <1>1, <2>3, <2>4, <2>5, <2>6, <2>7, Reads
  <1> QED BY <1>2, <1>3

(* A list and an index end with the bracket that they hold. *)
LEMMA LevelClosed ==
    ASSUME TypeOK, Last(stack).kind \in {"list", "index"}, NEW e, NEW pair \in Pairs, NEW d \in Nat,
           Level(stack, pair[1], d)
    PROVE  /\ Last(stack).kind = "list" => Level(Returned(Below, e), pair[1], d + Weight(pair, ")"))
           /\ Last(stack).kind = "index" => Level(Returned(Below, e), pair[1], d + Weight(pair, "]"))
  <1>1. Stacked(stack) /\ Len(stack) > 1
    BY NotFirst DEF TypeOK
  <1>2. PICK f, b : f = Last(stack) /\ b = Last(Front(stack))
    OBVIOUS
  <1>3. Calls(b, f) /\ f.kind \in {"list", "index"} /\ IsActivation(f)
    BY <1>1, <1>2, Popped, TopOf
  <1>4. Paid(pair, b) = 0
    BY <1>3 DEF Calls, Paid
  <1>5. PICK h \in Nat : h = Holds(b, f, pair[1])
    BY <1>3, HoldsNat
  <1>6. Level(Returned(Below, e), pair[1], d - h + 0)
    BY <1>1, <1>2, <1>4, <1>5, LevelEnds DEF Below
  <1>7. ASSUME f.kind = "list" PROVE Level(Returned(Below, e), pair[1], d + Weight(pair, ")"))
    <2>1. Weight(pair, ")") = -h
      BY <1>5, <1>7, ListHolds
    <2>2. d - h + 0 = d + Weight(pair, ")")
      BY <2>1
    <2> QED BY <1>6, <2>2
  <1>8. ASSUME f.kind = "index" PROVE Level(Returned(Below, e), pair[1], d + Weight(pair, "]"))
    <2>1. Weight(pair, "]") = -h
      BY <1>5, <1>8, IndexHolds
    <2>2. d - h + 0 = d + Weight(pair, "]")
      BY <2>1
    <2> QED BY <1>6, <2>2
  <1> QED BY <1>2, <1>7, <1>8

(* Behind a comma a list is what it was. *)
LEMMA LevelListGoesOn ==
    ASSUME TypeOK, Parsing("list"), NEW pair \in Pairs, NEW d \in Nat, Level(stack, pair[1], d)
    PROVE  Level(Append(Below, [Top EXCEPT !.comma = FALSE]), pair[1], d)
  <1>1. IsList(Last(stack)) /\ Stacked(stack)
    BY TopList
  <1>2. PICK make, items, comma : Last(stack) = [kind |-> "list", make |-> make, items |-> items, comma |-> comma]
    BY <1>1 DEF IsList
  <1>3. IsSeq(items)
    BY <1>1, <1>2 DEF IsList
  <1>4. PICK t, u : t = Last(stack) /\ u = Under(stack, Len(stack))
    OBVIOUS
  <1>5. PICK f : f = [kind |-> "list", make |-> make, items |-> items, comma |-> FALSE]
    OBVIOUS
  <1>6. [t EXCEPT !.comma = FALSE] = f
    <2>1. t = [kind |-> "list", make |-> make, items |-> items, comma |-> comma]
      BY <1>2, <1>4
    <2>2. PICK no : no = FALSE
      OBVIOUS
    <2>3. [t EXCEPT !.comma = no] = [kind |-> "list", make |-> make, items |-> items, comma |-> no]
      BY <2>1
    <2> QED BY <1>5, <2>2, <2>3
  <1>7. IsActivation(f) /\ f.kind = "list" /\ t.kind = "list"
    BY <1>2, <1>3, <1>4, <1>5 DEF IsActivation, IsList
  <1>8. Alike(t, f)
    BY <1>7 DEF Alike
  <1>9. PICK h \in Nat : h = Holds(u, f, pair[1]) /\ h = Holds(u, t, pair[1])
    <2>1. Holds(u, f, pair[1]) = Holds(u, t, pair[1])
      BY <1>7, ListHolds
    <2> QED BY <1>7, <2>1, HoldsNat
  <1>10. Level(Append(Front(stack), f), pair[1], d - h + h)
    BY <1>1, <1>4, <1>7, <1>8, <1>9, LevelReplace
  <1>11. d - h + h = d
    OBVIOUS
  <1> QED BY <1>4, <1>6, <1>10, <1>11 DEF Below, Top

LEMMA ListStepLedger == ASSUME TypeOK, TypeOK', Ledger, ListStep, ~Swallow PROVE Ledger'
  <1>1. /\ Parsing("list") /\ UNCHANGED tokens /\ pos \in DOMAIN tokens
        /\ status = "parsing" /\ Last(stack).kind = "list"
    BY TopList DEF ListStep, More
  <1>2. CASE Fail
    BY <1>1, <1>2, FailLedger
  <1>3. ASSUME Is(pos, ")"), NEW e, stack' = Returned(Below, e), pos' = pos + 1 PROVE Ledger'
    <2>1. tokens[pos].k = ")"
      BY <1>3 DEF Is
    <2>2. \A pair \in Pairs : \A d \in Nat :
            Level(stack, pair[1], d) => Level(stack', pair[1], d + Weight(pair, tokens[pos].k))
      BY <1>1, <1>3, <2>1, LevelClosed
    <2> QED BY <1>1, <1>3, <2>2, ReadsOne
  <1>4. CASE stack' = Append(stack, Expression("any")) /\ UNCHANGED pos
    <2>1. IsActivation(Expression("any")) /\ \A pair \in Pairs : Holds(Last(stack), Expression("any"), pair[1]) = 0
      BY NewExpression, ExpressionBegins
    <2>2. \A pair \in Pairs : \A d \in Nat : Level(stack, pair[1], d) => Level(stack', pair[1], d)
      BY <1>4, <2>1, LevelBegins
    <2> QED BY <1>1, <1>4, <2>2, ReadsNone
  <1>5. CASE stack' = Append(Below, [Top EXCEPT !.comma = FALSE]) /\ Is(pos, ",") /\ pos' = pos + 1
    <2>1. tokens[pos].k \notin BracketKinds
      BY <1>5 DEF Is, BracketKinds
    <2>2. \A pair \in Pairs : \A d \in Nat : Level(stack, pair[1], d) => Level(stack', pair[1], d)
      BY <1>1, <1>5, LevelListGoesOn
    <2> QED BY <1>1, <1>5, <2>1, <2>2, ReadsWord
  <1>6. \/ Fail
        \/ Is(pos, ")") /\ pos' = pos + 1 /\ \E e : stack' = Returned(Below, e)
        \/ stack' = Append(stack, Expression("any")) /\ UNCHANGED pos
        \/ stack' = Append(Below, [Top EXCEPT !.comma = FALSE]) /\ Is(pos, ",") /\ pos' = pos + 1
    BY DEF ListStep, Begin, Become
  <1> QED BY <1>2, <1>3, <1>4, <1>5, <1>6

LEMMA IndexEndLedger == ASSUME TypeOK, TypeOK', Ledger, IndexEnd, ~Swallow PROVE Ledger'
  <1>1. /\ status = "parsing" /\ Last(stack).kind = "index" /\ UNCHANGED tokens
        /\ pos \in DOMAIN tokens /\ pos' = pos + 1
    BY DEF IndexEnd, Parsing, Top, More
  <1>2. CASE Fail
    BY <1>1, <1>2, FailLedger
  <1>3. ASSUME Is(pos, "]"), NEW e, stack' = Returned(Below, e) PROVE Ledger'
    <2>1. tokens[pos].k = "]"
      BY <1>3 DEF Is
    <2>2. \A pair \in Pairs : \A d \in Nat :
            Level(stack, pair[1], d) => Level(stack', pair[1], d + Weight(pair, tokens[pos].k))
      BY <1>1, <1>3, <2>1, LevelClosed
    <2> QED BY <1>1, <2>2, ReadsOne
  <1>4. Fail \/ (Is(pos, "]") /\ \E e : stack' = Returned(Below, e))
    BY DEF IndexEnd
  <1> QED BY <1>2, <1>3, <1>4

-----------------------------------------------------------------------------
(***************************************************************************)
(* The theorem                                                             *)
(***************************************************************************)
LEMMA InitLedger == ASSUME ClassesEnd, Init PROVE Ledger
  <1>1. TypeOK
    BY InitOK
  <1>2. /\ source \in Sources /\ tokens = Written(source) /\ pos = 1
        /\ stack = <<Statement("function")>>
    BY DEF Init
  <1>3. PICK len \in Nat : len = Len(tokens) /\ DOMAIN tokens = 1 .. len
    BY <1>1, TokensAre
  <1>4. PICK f : f = Statement("function")
    OBVIOUS
  <1>5. Len(stack) = 1 /\ Stacked(stack) /\ Last(stack) = f
    <2>1. Len(stack) = 1 /\ stack[1] = f
      BY <1>2, <1>4
    <2>2. Stacked(stack)
      BY <1>1 DEF TypeOK
    <2> QED BY <2>1, <2>2, TopOf
  <1>6. ASSUME NEW pair \in Pairs PROVE Depth(tokens, pair, 0) = 0 /\ Level(stack, pair[1], 0)
    <2>1. Holds(Ground, f, pair[1]) = 0
      BY <1>4, FormNames, StatementBegins
    <2> QED BY <1>5, <2>1, LevelOne, DepthNone
  <1>7. pos - 1 = 0
    BY <1>2
  <1>8. Accounted
    <2>1. ASSUME NEW pair \in Pairs, NEW n \in 0 .. 0 PROVE Depth(tokens, pair, n) >= 0
      <3>1. n = 0
        OBVIOUS
      <3> QED BY <1>6, <3>1
    <2>2. 0 \in 0 .. Len(tokens)
      BY <1>3
    <2> QED BY <1>6, <1>7, <2>1, <2>2 DEF Accounted
  <1>9. Depth(tokens, Curly, Len(tokens)) <= 0
    <2>1. Cardinality({j \in DOMAIN tokens : tokens[j].k = "{"}) <= Cardinality({j \in DOMAIN tokens : tokens[j].k = "}"})
      BY <1>2 DEF ClassesEnd
    <2>2. Count(tokens, "{", len) <= Count(tokens, "}", len)
      <3>1. /\ OfKind(tokens, "{", len) = {j \in DOMAIN tokens : tokens[j].k = "{"}
            /\ OfKind(tokens, "}", len) = {j \in DOMAIN tokens : tokens[j].k = "}"}
        BY <1>3 DEF OfKind
      <3> QED BY <2>1, <3>1, Zenon DEF Count
    <2>3. PICK a \in Nat : a = Count(tokens, "{", len)
      BY CountStep
    <2>4. PICK b \in Nat : b = Count(tokens, "}", len)
      BY CountStep
    <2>5. a - b <= 0
      <3>1. a <= b
        BY <2>2, <2>3, <2>4
      <3> QED BY <3>1
    <2>6. Curly[1] = "{" /\ Curly[2] = "}"
      BY DEF Curly
    <2> QED BY <1>3, <2>3, <2>4, <2>5, <2>6 DEF Depth
  <1> QED BY <1>8, <1>9 DEF Ledger

LEMMA NextLedger ==
    ASSUME TypeOK, TypeOK', Ledger, MembersNamed, [Next /\ ~Swallow]_vars
    PROVE  Ledger'
  <1>1. CASE BlockEnd \/ BeginStatement \/ BeginExpression \/ BeginBlock \/ SingleEnd \/ Complete
    BY <1>1, BlockEndLedger, BeginStatementLedger, BeginExpressionLedger, BeginBlockLedger, SingleEndLedger,
       CompleteLedger
  <1>2. CASE ~Swallow /\ (Expect \/ Params \/ Declare \/ CatchName \/ Else \/ ReturnValue)
    BY <1>2, ExpectLedger, ParamsLedger, DeclareLedger, CatchNameLedger, ElseLedger, ReturnValueLedger
  <1>3. CASE Op \/ Open \/ Close \/ Constant \/ FunctionValue
    BY <1>3, OpLedger, OpenLedger, CloseLedger, ConstantLedger, FunctionValueLedger
  <1>4. CASE ~Swallow /\ (ExpressionEnd \/ Name \/ New \/ NoValue \/ ListStep \/ IndexEnd)
    BY <1>4, ExpressionEndLedger, NameLedger, NewLedger, NoValueLedger, ListStepLedger, IndexEndLedger
  <1>5. CASE UNCHANGED vars
    BY <1>5, LedgerStay DEF vars
  <1> QED BY <1>1, <1>2, <1>3, <1>4, <1>5 DEF Next, Parse, Over

LEMMA LedgerBalanced == ASSUME TypeOK, Ledger PROVE Balanced
  <1>1. SUFFICES ASSUME status = "done", NEW pair \in Pairs
                 PROVE  /\ Count(tokens, pair[1], pos - 1) = Count(tokens, pair[2], pos - 1)
                        /\ \A n \in 1 .. pos - 1 : Count(tokens, pair[1], n) >= Count(tokens, pair[2], n)
    BY Zenon DEF Balanced, Count, OfKind
  <1>2. Accounted
    BY <1>1 DEF Ledger
  <1>3. PICK p \in Nat : p = pos - 1
    BY DEF TypeOK
  <1>4. Level(stack, pair[1], Depth(tokens, pair, p)) /\ \A n \in 0 .. p : Depth(tokens, pair, n) >= 0
    BY <1>2, <1>3 DEF Accounted
  <1>5. Stacked(stack) /\ Len(stack) = 1 /\ ~Waits(Last(stack))
    BY <1>1 DEF TypeOK, Top
  <1>6. IsStatement(Last(stack))
    <2>1. PICK f : f = Last(stack)
      OBVIOUS
    <2>2. IsActivation(f) /\ Calls(Ground, f)
      <3>1. Under(stack, Len(stack)) = Ground
        BY <1>5 DEF Under
      <3> QED BY <1>5, <2>1, <3>1, TopOf
    <2>3. Ground.kind = "ground" /\ ~Waits(Ground)
      BY DEF Ground, Waits
    <2>4. f.kind = "statement"
      <3>1. f.kind \in {"statement", "block", "expression", "list", "index"}
        BY <2>2 DEF IsActivation, IsStatement, IsBlock, IsExpression, IsList, IsIndex
      <3> QED BY <2>2, <2>3, <3>1 DEF Calls
    <2> QED BY <2>1, <2>2, <2>4 DEF IsActivation, IsStatement, IsBlock, IsExpression, IsList, IsIndex
  <1>7. Depth(tokens, pair, p) = 0
    <2>1. Holds(Ground, Last(stack), pair[1]) = 0
      BY <1>5, <1>6, StatementOver
    <2> QED BY <1>4, <1>5, <2>1, LevelOne
  <1>8. ASSUME NEW n \in Nat
        PROVE  /\ Depth(tokens, pair, n) = 0 => Count(tokens, pair[1], n) = Count(tokens, pair[2], n)
               /\ Depth(tokens, pair, n) >= 0 => Count(tokens, pair[1], n) >= Count(tokens, pair[2], n)
    <2>1. PICK a \in Nat : a = Count(tokens, pair[1], n)
      BY CountStep
    <2>2. PICK b \in Nat : b = Count(tokens, pair[2], n)
      BY CountStep
    <2>3. Depth(tokens, pair, n) = a - b
      BY <2>1, <2>2 DEF Depth
    <2> QED BY <2>1, <2>2, <2>3
  <1>9. \A n \in 1 .. p : n \in Nat /\ n \in 0 .. p
    OBVIOUS
  <1> QED BY <1>3, <1>4, <1>7, <1>8, <1>9

(***************************************************************************)
(* A function that is accepted without an error being swallowed closes     *)
(* every bracket, square bracket and brace that it opens, and none before. *)
(***************************************************************************)
THEOREM BalancedTheorem ==
    ASSUME ClassesEnd
    PROVE  Spec /\ []MembersNamed /\ [][~Swallow]_vars => []Balanced
  <1>1. Spec => []TypeOK
    BY TypeTheorem
  <1>2. Init => Ledger
    BY InitLedger
  <1>3. TypeOK /\ TypeOK' /\ Ledger /\ MembersNamed /\ [Next]_vars /\ [~Swallow]_vars => Ledger'
    BY NextLedger
  <1>4. TypeOK /\ Ledger => Balanced
    BY LedgerBalanced
  <1> QED BY <1>1, <1>2, <1>3, <1>4, PTL DEF Spec
=============================================================================
