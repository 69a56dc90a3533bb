---------------------------- MODULE ParserProofs ----------------------------
(***************************************************************************)
(* Theorems about Parser: for every set of sources, however they are       *)
(* written, whatever classes and imports there are.                        *)
(***************************************************************************)
EXTENDS Parser, Sums, SequenceTheorems, TLAPS

-----------------------------------------------------------------------------
(***************************************************************************)
(* Sequences of anything                                                   *)
(***************************************************************************)
(* A sequence of anything is one of what is in it, and the other way round. *)
LEMMA HasElements ==
    ASSUME NEW s, IsSeq(s)
    PROVE  \E R : s \in Seq(R)
  <1>1. PICK R : R = {s[i] : i \in 1 .. Len(s)}
    OBVIOUS
  <1>2. PICK n \in Nat : n = Len(s)
    BY DEF IsSeq
  <1>3. s \in [1 .. n -> R]
    BY <1>1, <1>2 DEF IsSeq
  <1>4. s \in Seq(R)
    BY <1>3, SeqDef
  <1> QED BY <1>4

LEMMA SeqIsSeq ==
    ASSUME NEW R, NEW s \in Seq(R)
    PROVE  IsSeq(s)
  <1>1. Len(s) \in Nat /\ s \in [1 .. Len(s) -> R]
    OBVIOUS
  <1> QED BY <1>1 DEF IsSeq

LEMMA Appended ==
    ASSUME NEW s, IsSeq(s), NEW e
    PROVE  /\ IsSeq(Append(s, e))
           /\ Len(Append(s, e)) = Len(s) + 1
           /\ \A i \in 1 .. Len(s) : Append(s, e)[i] = s[i]
           /\ Append(s, e)[Len(s) + 1] = e
           /\ Append(s, e) # <<>>
           /\ Last(Append(s, e)) = e
           /\ Front(Append(s, e)) = s
  <1>1. PICK Q : s \in Seq(Q)
    BY HasElements
  <1>2. PICK R : s \in Seq(R) /\ e \in R
    <2>1. s \in Seq(Q \cup {e})
      BY <1>1
    <2> QED BY <2>1
  <1>3. PICK t : t = Append(s, e)
    OBVIOUS
  <1>4. /\ t \in Seq(R)
        /\ Len(t) = Len(s) + 1
        /\ \A i \in 1 .. Len(s) : t[i] = s[i]
        /\ t[Len(s) + 1] = e
    BY <1>2, <1>3, AppendProperties
  <1>5. t # <<>>
    BY <1>2, <1>4
  <1>6. Last(t) = e /\ SubSeq(t, 1, Len(t) - 1) = s
    BY <1>2, <1>4 DEF Last
  <1> QED BY <1>3, <1>4, <1>5, <1>6, SeqIsSeq DEF Front

(* A part of a sequence *)
LEMMA Parts ==
    ASSUME NEW s, IsSeq(s), NEW m \in 1 .. Len(s) + 1, NEW n \in m - 1 .. Len(s)
    PROVE  /\ IsSeq(SubSeq(s, m, n))
           /\ Len(SubSeq(s, m, n)) = n - m + 1
           /\ \A i \in 1 .. n - m + 1 : SubSeq(s, m, n)[i] = s[m + i - 1]
  <1>1. PICK R : s \in Seq(R)
    BY HasElements
  <1>2. m \in Int /\ n \in Int /\ \A i \in m .. n : s[i] \in R
    BY <1>1 DEF IsSeq
  <1>3. PICK t : t = SubSeq(s, m, n)
    OBVIOUS
  <1>4. /\ t \in Seq(R)
        /\ Len(t) = IF m <= n THEN n - m + 1 ELSE 0
        /\ \A i \in 1 .. n - m + 1 : t[i] = s[m + i - 1]
    BY <1>2, <1>3, SubSeqProperties
  <1>5. Len(t) = n - m + 1
    BY <1>2, <1>4 DEF IsSeq
  <1> QED BY <1>3, <1>4, <1>5, SeqIsSeq

LEMMA Fronts ==
    ASSUME NEW s, IsSeq(s), s # <<>>
    PROVE  /\ IsSeq(Front(s))
           /\ Len(s) \in Nat \ {0}
           /\ Len(Front(s)) = Len(s) - 1
           /\ \A i \in 1 .. Len(s) - 1 : Front(s)[i] = s[i]
           /\ Last(s) = s[Len(s)]
           /\ Append(Front(s), Last(s)) = s
  <1>2. PICK R : s \in Seq(R)
    BY HasElements
  <1>3. Len(s) \in Nat \ {0}
    BY <1>2, EmptySeq
  <1>4. PICK t : t = SubSeq(s, 1, Len(s) - 1)
    OBVIOUS
  <1>5. /\ IsSeq(t)
        /\ Len(t) = Len(s) - 1
        /\ \A i \in 1 .. Len(s) - 1 : t[i] = s[i]
    <2>1. PICK n \in Nat \ {0} : n = Len(s)
      BY <1>3
    <2>2. 1 \in 1 .. Len(s) + 1 /\ n - 1 \in 1 - 1 .. Len(s)
      BY <2>1
    <2>3. /\ IsSeq(SubSeq(s, 1, n - 1))
          /\ Len(SubSeq(s, 1, n - 1)) = n - 1 - 1 + 1
          /\ \A i \in 1 .. n - 1 - 1 + 1 : SubSeq(s, 1, n - 1)[i] = s[1 + i - 1]
      BY <2>2, Parts
    <2> QED BY <1>4, <2>1, <2>3
  <1>6. Append(t, s[Len(s)]) = s
    <2>1. PICK u : u = Append(t, s[Len(s)])
      OBVIOUS
    <2>2. IsSeq(u) /\ Len(u) = Len(s) /\ \A i \in 1 .. Len(s) : u[i] = s[i]
      BY <1>3, <1>5, <2>1, Appended
    <2> QED BY <2>1, <2>2 DEF IsSeq
  <1> QED BY <1>3, <1>4, <1>5, <1>6, SeqIsSeq DEF Front, Last

LEMMA Joined ==
    ASSUME NEW s, IsSeq(s), NEW t, IsSeq(t)
    PROVE  /\ IsSeq(s \o t)
           /\ Len(s \o t) = Len(s) + Len(t)
           /\ \A i \in 1 .. Len(s) : (s \o t)[i] = s[i]
           /\ \A i \in 1 .. Len(t) : (s \o t)[Len(s) + i] = t[i]
  <1>1. PICK P, Q : s \in Seq(P) /\ t \in Seq(Q)
    BY HasElements
  <1>2. PICK R : s \in Seq(R) /\ t \in Seq(R)
    <2>1. s \in Seq(P \cup Q) /\ t \in Seq(P \cup Q)
      BY <1>1
    <2> QED BY <2>1
  <1>3. PICK u : u = s \o t
    OBVIOUS
  <1>4. /\ u \in Seq(R) /\ Len(u) = Len(s) + Len(t)
        /\ \A i \in 1 .. Len(s) : u[i] = s[i]
        /\ \A i \in 1 .. Len(t) : u[Len(s) + i] = t[i]
    BY <1>2, <1>3
  <1> QED BY <1>3, <1>4, SeqIsSeq

LEMMA Reversed ==
    ASSUME NEW s, IsSeq(s)
    PROVE  /\ IsSeq(Reverse(s))
           /\ Len(Reverse(s)) = Len(s)
           /\ \A i \in 1 .. Len(s) : Reverse(s)[i] = s[Len(s) - i + 1]
  <1>1. PICK n \in Nat : n = Len(s)
    BY DEF IsSeq
  <1>2. PICK t : t = [i \in 1 .. n |-> s[(n - i) + 1]]
    OBVIOUS
  <1>3. PICK R : R = Range(t)
    OBVIOUS
  <1>4. t \in [1 .. n -> R]
    BY <1>2, <1>3 DEF Range
  <1>5. t \in Seq(R) /\ Len(t) = n
    BY <1>4, SeqDef, LenProperties
  <1>6. IsSeq(t)
    BY <1>5, SeqIsSeq
  <1> QED BY <1>1, <1>2, <1>5, <1>6 DEF Reverse
-----------------------------------------------------------------------------
(***************************************************************************)
(* The forms of statements, item by item                                   *)
(***************************************************************************)
LEMMA FormNames ==
    DOMAIN Forms = {"function", "var", "if", "for", "while", "return", "try", "throw", "expression"}
  BY DEF Forms

LEMMA FormFunction ==
    ASSUME NEW form, form = "function"
    PROVE  /\ Len(Forms[form]) = 3
           /\ Forms[form][1] = "PARAMS" /\ Forms[form][2] = "{" /\ Forms[form][3] = "BLOCK"
  BY DEF Forms

LEMMA FormVar ==
    ASSUME NEW form, form = "var"
    PROVE  /\ Len(Forms[form]) = 3
           /\ Forms[form][1] = "DECLARE" /\ Forms[form][2] = "EXPR" /\ Forms[form][3] = ";"
  BY DEF Forms

LEMMA FormIf ==
    ASSUME NEW form, form = "if"
    PROVE  /\ Len(Forms[form]) = 6
           /\ Forms[form][1] = "(" /\ Forms[form][2] = "EXPR" /\ Forms[form][3] = ")" /\ Forms[form][4] = "{"
           /\ Forms[form][5] = "BLOCK" /\ Forms[form][6] = "ELSE"
  BY DEF Forms

LEMMA FormFor ==
    ASSUME NEW form, form = "for"
    PROVE  /\ Len(Forms[form]) = 9
           /\ Forms[form][1] = "(" /\ Forms[form][2] = "EXPR" /\ Forms[form][3] = ";" /\ Forms[form][4] = "EXPR"
           /\ Forms[form][5] = ";" /\ Forms[form][6] = "EXPR" /\ Forms[form][7] = ")" /\ Forms[form][8] = "{"
           /\ Forms[form][9] = "BLOCK"
  BY DEF Forms

LEMMA FormWhile ==
    ASSUME NEW form, form = "while"
    PROVE  /\ Len(Forms[form]) = 5
           /\ Forms[form][1] = "(" /\ Forms[form][2] = "EXPR" /\ Forms[form][3] = ")" /\ Forms[form][4] = "{"
           /\ Forms[form][5] = "BLOCK"
  BY DEF Forms

LEMMA FormReturn ==
    ASSUME NEW form, form = "return"
    PROVE  /\ Len(Forms[form]) = 2
           /\ Forms[form][1] = "VALUE" /\ Forms[form][2] = ";"
  BY DEF Forms

LEMMA FormTry ==
    ASSUME NEW form, form = "try"
    PROVE  /\ Len(Forms[form]) = 8
           /\ Forms[form][1] = "{" /\ Forms[form][2] = "BLOCK" /\ Forms[form][3] = "catch" /\ Forms[form][4] = "("
           /\ Forms[form][5] = "NAME" /\ Forms[form][6] = ")" /\ Forms[form][7] = "{" /\ Forms[form][8] = "BLOCK"
  BY DEF Forms

LEMMA FormThrow ==
    ASSUME NEW form, form = "throw"
    PROVE  /\ Len(Forms[form]) = 2
           /\ Forms[form][1] = "EXPR" /\ Forms[form][2] = ";"
  BY DEF Forms

LEMMA FormExpression ==
    ASSUME NEW form, form = "expression"
    PROVE  /\ Len(Forms[form]) = 2
           /\ Forms[form][1] = "EXPR" /\ Forms[form][2] = ";"
  BY DEF Forms

LEMMA FormLength ==
    ASSUME NEW form \in DOMAIN Forms
    PROVE  Len(Forms[form]) \in Nat
  <1>1. form \in {"function", "var", "if", "for", "while", "return", "try", "throw", "expression"}
    BY FormNames
  <1>2. CASE form = "function"
    <2>1. Len(Forms[form]) = 3
      BY <1>2, FormFunction
    <2> QED BY <2>1
  <1>3. CASE form = "var"
    <2>1. Len(Forms[form]) = 3
      BY <1>3, FormVar
    <2> QED BY <2>1
  <1>4. CASE form = "if"
    <2>1. Len(Forms[form]) = 6
      BY <1>4, FormIf
    <2> QED BY <2>1
  <1>5. CASE form = "for"
    <2>1. Len(Forms[form]) = 9
      BY <1>5, FormFor
    <2> QED BY <2>1
  <1>6. CASE form = "while"
    <2>1. Len(Forms[form]) = 5
      BY <1>6, FormWhile
    <2> QED BY <2>1
  <1>7. CASE form = "return"
    <2>1. Len(Forms[form]) = 2
      BY <1>7, FormReturn
    <2> QED BY <2>1
  <1>8. CASE form = "try"
    <2>1. Len(Forms[form]) = 8
      BY <1>8, FormTry
    <2> QED BY <2>1
  <1>9. CASE form = "throw"
    <2>1. Len(Forms[form]) = 2
      BY <1>9, FormThrow
    <2> QED BY <2>1
  <1>10. CASE form = "expression"
    <2>1. Len(Forms[form]) = 2
      BY <1>10, FormExpression
    <2> QED BY <2>1
  <1> QED BY <1>1, <1>2, <1>3, <1>4, <1>5, <1>6, <1>7, <1>8, <1>9, <1>10

-----------------------------------------------------------------------------
(***************************************************************************)
(* The stack                                                               *)
(***************************************************************************)
LEMMA TopOf ==
    ASSUME NEW s, Stacked(s)
    PROVE  /\ IsSeq(s) /\ s # <<>> /\ Len(s) \in Nat \ {0}
           /\ Last(s) = s[Len(s)]
           /\ IsActivation(Last(s))
           /\ Calls(Under(s, Len(s)), Last(s))
           /\ Len(s) > 1 => Under(s, Len(s)) = Last(Front(s))
  <1>1. IsSeq(s) /\ s # <<>>
    BY DEF Stacked
  <1>2. PICK n \in Nat \ {0} : n = Len(s)
    BY <1>1, Fronts
  <1>3. IsActivation(s[n]) /\ Calls(Under(s, n), s[n])
    BY <1>2 DEF Stacked
  <1>4. Last(s) = s[n] /\ Len(Front(s)) = n - 1 /\ \A i \in 1 .. n - 1 : Front(s)[i] = s[i]
    BY <1>1, <1>2, Fronts
  <1>5. n > 1 => Under(s, n) = Last(Front(s))
    BY <1>4 DEF Under, Last
  <1> QED BY <1>1, <1>2, <1>3, <1>4, <1>5

LEMMA Pushed ==
    ASSUME NEW s, Stacked(s), NEW f, IsActivation(f), Calls(Last(s), f)
    PROVE  Stacked(Append(s, f))
  <1>1. PICK t : t = Append(s, f)
    OBVIOUS
  <1>2. PICK n \in Nat \ {0} : n = Len(s)
    BY TopOf
  <1>3. /\ IsSeq(t) /\ t # <<>> /\ Len(t) = n + 1
        /\ \A i \in 1 .. n : t[i] = s[i]
        /\ t[n + 1] = f /\ Last(s) = s[n]
    BY <1>1, <1>2, TopOf, Appended
  <1>4. ASSUME NEW k \in 1 .. n + 1 PROVE IsActivation(t[k]) /\ Calls(Under(t, k), t[k])
    <2>1. CASE k = n + 1
      <3>1. Under(t, k) = Last(s) /\ t[k] = f
        BY <1>3, <2>1 DEF Under
      <3> QED BY <3>1
    <2>2. CASE k # n + 1
      <3>1. k \in 1 .. n /\ t[k] = s[k] /\ Under(t, k) = Under(s, k)
        BY <1>3, <2>2 DEF Under
      <3> QED BY <1>2, <3>1 DEF Stacked
    <2> QED BY <2>1, <2>2
  <1> QED BY <1>1, <1>3, <1>4 DEF Stacked

(* The activations that were there first, for any number of them *)
LEMMA Kept ==
    ASSUME NEW s, Stacked(s), NEW n \in 1 .. Len(s)
    PROVE  Stacked(SubSeq(s, 1, n)) /\ Last(SubSeq(s, 1, n)) = s[n] /\ Len(SubSeq(s, 1, n)) = n
  <1>1. PICK t : t = SubSeq(s, 1, n)
    OBVIOUS
  <1>2. PICK m \in Nat \ {0} : m = Len(s)
    BY TopOf
  <1>3. 1 \in 1 .. Len(s) + 1 /\ n \in 1 - 1 .. Len(s)
    BY <1>2
  <1>4. /\ IsSeq(t)
        /\ Len(t) = n - 1 + 1
        /\ \A i \in 1 .. n - 1 + 1 : t[i] = s[1 + i - 1]
    BY <1>1, <1>3, TopOf, Parts
  <1>5. n \in 1 .. m /\ Len(t) = n /\ \A i \in 1 .. n : t[i] = s[i]
    BY <1>2, <1>4
  <1>6. t # <<>>
    BY <1>5
  <1>7. ASSUME NEW k \in 1 .. n PROVE IsActivation(t[k]) /\ Calls(Under(t, k), t[k])
    <2>1. k \in 1 .. m /\ t[k] = s[k] /\ Under(t, k) = Under(s, k)
      BY <1>5 DEF Under
    <2> QED BY <1>2, <2>1 DEF Stacked
  <1>8. Last(t) = s[n]
    BY <1>5 DEF Last
  <1> QED BY <1>1, <1>4, <1>5, <1>6, <1>7, <1>8 DEF Stacked

LEMMA Popped ==
    ASSUME NEW s, Stacked(s), Len(s) > 1
    PROVE  Stacked(Front(s)) /\ Calls(Last(Front(s)), Last(s))
  <1>1. PICK n \in Nat \ {0} : n = Len(s)
    BY TopOf
  <1>2. n - 1 \in 1 .. Len(s)
    BY <1>1
  <1> QED BY <1>1, <1>2, Kept, TopOf DEF Front

(* Two activations of which the same is expected *)
Alike(f, g) ==
    /\ f.kind = g.kind
    /\ f.kind = "statement" => f.form = g.form
    /\ f.kind = "block" => f.single = g.single

LEMMA CallsAlike ==
    ASSUME NEW b, NEW f, NEW g, Alike(f, g), IsActivation(f), Calls(b, f)
    PROVE  Calls(b, g)
  <1>1. f.kind \in {"statement", "block", "expression", "list", "index"}
    BY DEF IsActivation, IsStatement, IsBlock, IsExpression, IsList, IsIndex
  <1> QED BY <1>1 DEF Calls, Alike

LEMMA Replaced ==
    ASSUME NEW s, Stacked(s), NEW f, IsActivation(f), Alike(Last(s), f)
    PROVE  Stacked(Append(Front(s), f))
  <1>1. PICK n \in Nat \ {0} : n = Len(s)
    BY TopOf
  <1>2. PICK u : u = Front(s)
    OBVIOUS
  <1>3. IsSeq(u) /\ Len(u) = n - 1 /\ \A i \in 1 .. n - 1 : u[i] = s[i]
    BY <1>1, <1>2, TopOf, Fronts
  <1>4. PICK t : t = Append(u, f)
    OBVIOUS
  <1>5. IsSeq(t) /\ t # <<>> /\ Len(t) = n /\ t[n] = f /\ \A i \in 1 .. n - 1 : t[i] = s[i]
    <2>1. IsSeq(t) /\ t # <<>> /\ Len(t) = n - 1 + 1 /\ t[n - 1 + 1] = f /\ \A i \in 1 .. n - 1 : t[i] = u[i]
      BY <1>3, <1>4, Appended
    <2> QED BY <1>3, <2>1
  <1>6. ASSUME NEW k \in 1 .. n PROVE IsActivation(t[k]) /\ Calls(Under(t, k), t[k])
    <2>1. Under(t, k) = Under(s, k)
      BY <1>5 DEF Under
    <2>2. CASE k = n
      <3>1. IsActivation(Last(s)) /\ Calls(Under(s, n), Last(s))
        BY <1>1, TopOf
      <3>2. Calls(Under(s, n), f)
        BY <3>1, CallsAlike
      <3> QED BY <1>5, <2>1, <2>2, <3>2
    <2>3. CASE k # n
      <3>1. k \in 1 .. n /\ t[k] = s[k]
        BY <1>5, <2>3
      <3> QED BY <1>1, <2>1, <3>1 DEF Stacked
    <2> QED BY <2>2, <2>3
  <1> QED BY <1>2, <1>4, <1>5, <1>6 DEF Stacked

(* An activation that is not a statement may be returned to at any time. *)
LEMMA ReceivedOK ==
    ASSUME NEW f, IsActivation(f), f.kind = "statement" => Waits(f), NEW e
    PROVE  IsActivation(Received(f, e)) /\ Alike(f, Received(f, e))
  <1>1. CASE f.kind = "statement"
    <2>1. IsStatement(f) /\ f.at <= Len(Forms[f.form])
      BY <1>1 DEF IsActivation, IsStatement, IsBlock, IsExpression, IsList, IsIndex, Waits
    <2>2. PICK n : n = Len(Forms[f.form])
      OBVIOUS
    <2>3. PICK form, at, parts : f = [kind |-> "statement", form |-> form, at |-> at, parts |-> parts]
      BY <2>1 DEF IsStatement
    <2>4. PICK more : more = Append(parts, e)
      OBVIOUS
    <2>5. form \in DOMAIN Forms /\ IsSeq(more) /\ at \in 1 .. n + 1 /\ at <= n /\ n = Len(Forms[form])
      BY <2>1, <2>2, <2>3, <2>4, Appended DEF IsStatement
    <2>6. Received(f, e) = [kind |-> "statement", form |-> form, at |-> at + 1, parts |-> more]
      BY <2>3, <2>4 DEF Received
    <2>7. n \in Nat => at + 1 \in 1 .. n + 1
      BY <2>5
    <2>8. n \in Nat
      BY <2>5, FormLength
    <2>9. IsStatement(Received(f, e))
      BY <2>5, <2>6, <2>7, <2>8 DEF IsStatement
    <2> QED BY <2>3, <2>6, <2>9 DEF IsActivation, Alike
  <1>2. CASE f.kind = "block"
    <2>1. IsBlock(f)
      BY <1>2 DEF IsActivation, IsStatement, IsBlock, IsExpression, IsList, IsIndex
    <2>2. PICK names, code, single : f = [kind |-> "block", vars |-> names, code |-> code, single |-> single]
      BY <2>1 DEF IsBlock
    <2>3. PICK more : more = Append(code, e)
      OBVIOUS
    <2>4. IsSeq(more) /\ IsSeq(names) /\ single \in BOOLEAN
      BY <2>1, <2>2, <2>3, Appended DEF IsBlock
    <2>5. Received(f, e) = [kind |-> "block", vars |-> names, code |-> more, single |-> single]
      BY <2>2, <2>3 DEF Received
    <2> QED BY <2>2, <2>4, <2>5 DEF IsActivation, Alike, IsBlock
  <1>3. CASE f.kind = "expression"
    <2>1. IsExpression(f)
      BY <1>3 DEF IsActivation, IsStatement, IsBlock, IsExpression, IsList, IsIndex
    <2>2. PICK end, queue, ops, brackets :
             f = [kind |-> "expression", end |-> end, queue |-> queue, ops |-> ops, brackets |-> brackets]
      BY <2>1 DEF IsExpression
    <2>3. PICK more : more = Append(queue, e)
      OBVIOUS
    <2>4. /\ IsSeq(more) /\ IsSeq(ops)
          /\ \A i \in 1 .. Len(ops) : ops[i] = Bracket \/ ops[i].type = "operator"
          /\ brackets = Cardinality(BracketsIn(ops))
      BY <2>1, <2>2, <2>3, Appended DEF IsExpression
    <2>5. Received(f, e) = [kind |-> "expression", end |-> end, queue |-> more, ops |-> ops, brackets |-> brackets]
      BY <2>2, <2>3 DEF Received
    <2> QED BY <2>2, <2>4, <2>5 DEF IsActivation, Alike, IsExpression
  <1>4. CASE f.kind = "list"
    <2>1. IsList(f)
      BY <1>4 DEF IsActivation, IsStatement, IsBlock, IsExpression, IsList, IsIndex
    <2>2. PICK make, items, comma : f = [kind |-> "list", make |-> make, items |-> items, comma |-> comma]
      BY <2>1 DEF IsList
    <2>3. PICK more : more = Append(items, e)
      OBVIOUS
    <2>4. IsSeq(more)
      BY <2>1, <2>2, <2>3, Appended DEF IsList
    <2>5. Received(f, e) = [kind |-> "list", make |-> make, items |-> more, comma |-> TRUE]
      BY <2>2, <2>3 DEF Received
    <2>6. PICK g : g = Received(f, e)
      OBVIOUS
    <2>7. g.kind = "list" /\ g.make = make /\ g.items = more /\ g.comma = TRUE
      BY <2>5, <2>6
    <2>8. IsList(g)
      BY <2>4, <2>5, <2>6, <2>7 DEF IsList
    <2> QED BY <1>4, <2>6, <2>7, <2>8 DEF IsActivation, Alike
  <1>5. CASE f.kind = "index"
    <2>1. IsIndex(f)
      BY <1>5 DEF IsActivation, IsStatement, IsBlock, IsExpression, IsList, IsIndex
    <2>2. PICK make, items : f = [kind |-> "index", make |-> make, items |-> items]
      BY <2>1 DEF IsIndex
    <2>3. PICK more : more = <<e>>
      OBVIOUS
    <2>4. IsSeq(more)
      BY <2>3 DEF IsSeq
    <2>5. Received(f, e) = [kind |-> "index", make |-> make, items |-> more]
      BY <2>2, <2>3 DEF Received
    <2> QED BY <2>2, <2>4, <2>5 DEF IsActivation, Alike, IsIndex
  <1>6. f.kind \in {"statement", "block", "expression", "list", "index"}
    BY DEF IsActivation, IsStatement, IsBlock, IsExpression, IsList, IsIndex
  <1> QED BY <1>1, <1>2, <1>3, <1>4, <1>5, <1>6

LEMMA ReturnedOK ==
    ASSUME NEW s, Stacked(s), Last(s).kind = "statement" => Waits(Last(s)), NEW e
    PROVE  Stacked(Returned(s, e))
  <1>1. PICK f, g : f = Last(s) /\ g = Received(f, e)
    OBVIOUS
  <1>2. IsActivation(f)
    BY <1>1, TopOf
  <1>3. IsActivation(g) /\ Alike(f, g)
    BY <1>1, <1>2, ReceivedOK
  <1> QED BY <1>1, <1>3, Replaced DEF Returned

LEMMA GreatestOf ==
    ASSUME NEW n \in Nat, NEW T, T \subseteq 0 .. n, T # {}
    PROVE  \E k \in T : \A j \in T : j <= k
  <1>1. PICK U : U = {n - j : j \in T}
    OBVIOUS
  <1>2. U \subseteq Nat /\ U # {}
    <2>1. \A j \in T : j \in 0 .. n
      OBVIOUS
    <2>2. \A j \in T : n - j \in Nat
      BY <2>1
    <2> QED BY <1>1, <2>2
  <1>3. PICK u \in U : \A m \in U : u <= m
    BY <1>2, SmallestOf
  <1>4. PICK k \in T : u = n - k
    BY <1>1, <1>3
  <1>5. ASSUME NEW j \in T PROVE j <= k
    <2>1. n - j \in U /\ j \in Nat /\ k \in Nat
      BY <1>1
    <2>2. u <= n - j
      BY <1>3, <2>1
    <2> QED BY <1>4, <2>1, <2>2
  <1> QED BY <1>5

(* Only the function itself is called from nowhere. *)
LEMMA NotFirst ==
    ASSUME NEW s, Stacked(s), Last(s).kind # "statement" \/ Last(s).form # "function"
    PROVE  Len(s) > 1
  <1>1. Len(s) \in Nat \ {0} /\ IsActivation(Last(s)) /\ Calls(Under(s, Len(s)), Last(s))
    BY TopOf
  <1>2. ASSUME Len(s) = 1 PROVE FALSE
    <2>1. PICK f : f = Last(s)
      OBVIOUS
    <2>2. Calls(Ground, f)
      BY <1>1, <1>2, <2>1 DEF Under
    <2>3. f.kind \in {"statement", "block", "expression", "list", "index"}
      BY <1>1, <2>1 DEF IsActivation, IsStatement, IsBlock, IsExpression, IsList, IsIndex
    <2>4. Ground.kind = "ground"
      BY DEF Ground
    <2>5. CASE f.kind = "statement"
      BY <2>1, <2>2, <2>4, <2>5 DEF Calls
    <2>6. CASE f.kind = "block"
      <3>1. Waits(Ground)
        BY <2>2, <2>6 DEF Calls
      <3> QED BY <2>4, <3>1 DEF Waits
    <2>7. CASE f.kind = "expression"
      <3>1. Waits(Ground) \/ Ground.kind \in {"list", "index"}
        BY <2>2, <2>7 DEF Calls
      <3> QED BY <2>4, <3>1 DEF Waits
    <2>8. CASE f.kind \in {"list", "index"}
      BY <2>2, <2>4, <2>8 DEF Calls
    <2> QED BY <2>3, <2>5, <2>6, <2>7, <2>8
  <1>3. PICK n \in Nat \ {0} : n = Len(s)
    BY <1>1
  <1> QED BY <1>2, <1>3

LEMMA CallerWaits ==
    ASSUME NEW b, NEW f, IsActivation(f), Calls(b, f), b.kind = "statement"
    PROVE  Waits(b)
  <1>1. f.kind \in {"statement", "block", "expression", "list", "index"}
    BY DEF IsActivation, IsStatement, IsBlock, IsExpression, IsList, IsIndex
  <1> QED BY <1>1 DEF Calls

LEMMA ReturnsBelow ==
    ASSUME NEW s, Stacked(s), Len(s) > 1, NEW e
    PROVE  Stacked(Returned(Front(s), e))
  <1>1. Stacked(Front(s)) /\ Calls(Last(Front(s)), Last(s)) /\ IsActivation(Last(s))
    BY Popped, TopOf
  <1>2. Last(Front(s)).kind = "statement" => Waits(Last(Front(s)))
    BY <1>1, CallerWaits
  <1> QED BY <1>1, <1>2, ReturnedOK

LEMMA StatementAhead ==
    ASSUME NEW f, IsActivation(f), f.kind = "statement", NEW n, n \in f.at .. Len(Forms[f.form]) + 1
    PROVE  LET g == [f EXCEPT !.at = n] IN IsActivation(g) /\ Alike(f, g)
  <1>1. IsStatement(f)
    BY DEF IsActivation, IsStatement, IsBlock, IsExpression, IsList, IsIndex
  <1>2. PICK form, at, parts : f = [kind |-> "statement", form |-> form, at |-> at, parts |-> parts]
    BY <1>1 DEF IsStatement
  <1>3. PICK g : g = [f EXCEPT !.at = n]
    OBVIOUS
  <1>4. g = [kind |-> "statement", form |-> form, at |-> n, parts |-> parts]
    BY <1>2, <1>3
  <1>5. /\ form \in DOMAIN Forms /\ IsSeq(parts) /\ at \in 1 .. Len(Forms[form]) + 1
        /\ n \in at .. Len(Forms[form]) + 1
    BY <1>1, <1>2 DEF IsStatement
  <1>6. Len(Forms[form]) \in Nat
    BY <1>5, FormLength
  <1>7. n \in 1 .. Len(Forms[form]) + 1
    BY <1>5, <1>6
  <1>8. IsStatement(g)
    BY <1>4, <1>5, <1>7 DEF IsStatement
  <1> QED BY <1>2, <1>3, <1>4, <1>8 DEF IsActivation, Alike

-----------------------------------------------------------------------------
(***************************************************************************)
(* Where an error goes                                                     *)
(***************************************************************************)
LEMMA SwallowOK ==
    ASSUME Stacked(stack), Swallow
    PROVE  Stacked(stack')
  <1>1. PICK n \in Nat \ {0} : n = Len(stack)
    BY TopOf
  <1>2. Swallowers \subseteq 0 .. n /\ Swallowers # {}
    BY <1>1 DEF Swallow, Swallowers
  <1>3. PICK k : k = CHOOSE i \in Swallowers : \A j \in Swallowers : j <= i
    OBVIOUS
  <1>4. \E i \in Swallowers : \A j \in Swallowers : j <= i
    BY <1>2, GreatestOf
  <1>5. k \in Swallowers
    BY <1>3, <1>4
  <1>6. /\ k \in 2 .. n
        /\ stack[k].kind = "statement"
        /\ (stack[k].form = "return" /\ stack[k].at = 1) \/ stack[k].form = "function"
    BY <1>1, <1>5 DEF Swallowers
  <1>7. stack' = IF stack[k].form = "return" THEN Returned(SubSeq(stack, 1, k), Null)
                 ELSE Returned(SubSeq(stack, 1, k - 1), [type |-> "function", args |-> <<>>, body |-> Null])
    BY <1>3 DEF Swallow
  <1>8. CASE stack[k].form = "return"
    <2>1. PICK s : s = SubSeq(stack, 1, k)
      OBVIOUS
    <2>2. k \in 1 .. Len(stack)
      BY <1>1, <1>6
    <2>3. Stacked(s) /\ Last(s) = stack[k]
      BY <2>1, <2>2, Kept
    <2>4. stack[k].at <= Len(Forms[stack[k].form])
      <3>1. Len(Forms[stack[k].form]) = 2
        BY <1>8, FormReturn
      <3> QED BY <1>6, <1>8, <3>1
    <2>5. Waits(Last(s))
      BY <1>6, <2>3, <2>4 DEF Waits
    <2> QED BY <1>7, <1>8, <2>1, <2>3, <2>5, ReturnedOK
  <1>9. CASE stack[k].form # "return"
    <2>1. PICK s : s = SubSeq(stack, 1, k - 1)
      OBVIOUS
    <2>2. k - 1 \in 1 .. Len(stack)
      BY <1>1, <1>6
    <2>3. Stacked(s) /\ Last(s) = stack[k - 1]
      BY <2>1, <2>2, Kept
    <2>4. Calls(stack[k - 1], stack[k])
      <3>1. Calls(Under(stack, k), stack[k])
        BY <1>1, <1>6 DEF Stacked
      <3> QED BY <1>6, <3>1 DEF Under
    <2>5. Last(s).kind # "statement"
      BY <1>6, <1>9, <2>3, <2>4 DEF Calls
    <2> QED BY <1>7, <1>9, <2>1, <2>3, <2>5, ReturnedOK
  <1> QED BY <1>8, <1>9

LEMMA FailOK ==
    ASSUME TypeOK, status = "parsing", Fail, pos' \in Nat \ {0}, UNCHANGED <<source, tokens>>
    PROVE  TypeOK'
  <1>1. Stacked(stack') /\ status' \in {"parsing", "failed"}
    BY SwallowOK DEF TypeOK, Fail, Swallow
  <1> QED BY <1>1 DEF TypeOK

-----------------------------------------------------------------------------
(***************************************************************************)
(* Statements                                                              *)
(***************************************************************************)
LEMMA Stays ==
    ASSUME TypeOK, UNCHANGED <<source, tokens>>, pos' \in Nat \ {0},
           Stacked(stack'), status' = "parsing"
    PROVE  TypeOK'
  BY DEF TypeOK

(* A statement in the middle of its form *)
LEMMA TopStatement ==
    ASSUME Stacked(stack), Top.kind = "statement"
    PROVE  /\ Top.form \in DOMAIN Forms
           /\ Len(Forms[Top.form]) \in Nat
           /\ Top.at \in 1 .. Len(Forms[Top.form]) + 1
           /\ IsActivation(Top)
           /\ Top = [kind |-> "statement", form |-> Top.form, at |-> Top.at, parts |-> Top.parts]
           /\ IsSeq(Top.parts)
  <1>1. IsActivation(Top)
    BY TopOf DEF Top
  <1>2. IsStatement(Top)
    BY <1>1 DEF IsActivation, IsStatement, IsBlock, IsExpression, IsList, IsIndex
  <1> QED BY <1>1, <1>2, FormLength DEF IsStatement

LEMMA StatementGoesOn ==
    ASSUME Stacked(stack), Top.kind = "statement", NEW n,
           n \in Top.at .. Len(Forms[Top.form]) + 1
    PROVE  Stacked(Append(Below, [Top EXCEPT !.at = n]))
  <1>1. PICK f : f = Top
    OBVIOUS
  <1>2. PICK g : g = [f EXCEPT !.at = n]
    OBVIOUS
  <1>3. IsActivation(f)
    BY <1>1, TopStatement
  <1>4. IsActivation(g) /\ Alike(f, g)
    BY <1>1, <1>2, <1>3, StatementAhead
  <1>5. Stacked(Append(Front(stack), g))
    BY <1>1, <1>4, Replaced DEF Top
  <1> QED BY <1>1, <1>2, <1>5 DEF Below

LEMMA TookOK ==
    ASSUME Stacked(stack), Waits(Top), NEW part
    PROVE  Stacked(Append(Below, Took(part)))
  <1>1. Took(part) = Received(Top, part)
    BY DEF Took, Received, Waits
  <1>2. Stacked(Returned(stack, part))
    BY ReturnedOK DEF Top
  <1> QED BY <1>1, <1>2 DEF Returned, Top, Below

(* Which statement has an item, and where *)
LEMMA WhoseItem ==
    ASSUME NEW form \in DOMAIN Forms, NEW at \in 1 .. Len(Forms[form])
    PROVE  /\ Forms[form][at] = "PARAMS" => form = "function" /\ at = 1
           /\ Forms[form][at] = "DECLARE" => form = "var" /\ at = 1
           /\ Forms[form][at] = "VALUE" => form = "return" /\ at = 1
           /\ Forms[form][at] = "ELSE" => form = "if" /\ at = 6
           /\ Forms[form][at] = "NAME" => form = "try" /\ at = 5
  <1>1. form \in {"function", "var", "if", "for", "while", "return", "try", "throw", "expression"}
    BY FormNames
  <1>2. PICK n \in Nat : n = Len(Forms[form])
    BY FormLength
  <1>3. at \in 1 .. n
    BY <1>2
  <1>4. CASE form = "function"
    <2>1. n = 3
      BY <1>2, <1>4, FormFunction
    <2>2. at \in {1, 2, 3}
      BY <1>3, <2>1
    <2> QED BY <1>4, <2>2, FormFunction
  <1>5. CASE form = "var"
    <2>1. n = 3
      BY <1>2, <1>5, FormVar
    <2>2. at \in {1, 2, 3}
      BY <1>3, <2>1
    <2> QED BY <1>5, <2>2, FormVar
  <1>6. CASE form = "if"
    <2>1. n = 6
      BY <1>2, <1>6, FormIf
    <2>2. at \in {1, 2, 3, 4, 5, 6}
      BY <1>3, <2>1
    <2> QED BY <1>6, <2>2, FormIf
  <1>7. CASE form = "for"
    <2>1. n = 9
      BY <1>2, <1>7, FormFor
    <2>2. at \in {1, 2, 3, 4, 5, 6, 7, 8, 9}
      BY <1>3, <2>1
    <2> QED BY <1>7, <2>2, FormFor
  <1>8. CASE form = "while"
    <2>1. n = 5
      BY <1>2, <1>8, FormWhile
    <2>2. at \in {1, 2, 3, 4, 5}
      BY <1>3, <2>1
    <2> QED BY <1>8, <2>2, FormWhile
  <1>9. CASE form = "return"
    <2>1. n = 2
      BY <1>2, <1>9, FormReturn
    <2>2. at \in {1, 2}
      BY <1>3, <2>1
    <2> QED BY <1>9, <2>2, FormReturn
  <1>10. CASE form = "try"
    <2>1. n = 8
      BY <1>2, <1>10, FormTry
    <2>2. at \in {1, 2, 3, 4, 5, 6, 7, 8}
      BY <1>3, <2>1
    <2> QED BY <1>10, <2>2, FormTry
  <1>11. CASE form = "throw"
    <2>1. n = 2
      BY <1>2, <1>11, FormThrow
    <2>2. at \in {1, 2}
      BY <1>3, <2>1
    <2> QED BY <1>11, <2>2, FormThrow
  <1>12. CASE form = "expression"
    <2>1. n = 2
      BY <1>2, <1>12, FormExpression
    <2>2. at \in {1, 2}
      BY <1>3, <2>1
    <2> QED BY <1>12, <2>2, FormExpression
  <1> QED BY <1>1, <1>4, <1>5, <1>6, <1>7, <1>8, <1>9, <1>10, <1>11, <1>12

(* The top is a statement that waits for an item. *)
LEMMA AtItemFacts ==
    ASSUME TypeOK, NEW item, AtItem(item)
    PROVE  /\ status = "parsing" /\ Stacked(stack) /\ pos \in Nat \ {0}
           /\ Top.kind = "statement" /\ Waits(Top) /\ Asks(Top) = item
           /\ Top.at \in 1 .. Len(Forms[Top.form])
           /\ Top.at + 1 \in Top.at .. Len(Forms[Top.form]) + 1
  <1>1. status = "parsing" /\ Stacked(stack) /\ pos \in Nat \ {0} /\ Top.kind = "statement"
    BY DEF TypeOK, AtItem, Parsing
  <1>2. Top.at <= Len(Forms[Top.form]) /\ Forms[Top.form][Top.at] = item
    BY DEF AtItem, Item
  <1>3. PICK n \in Nat : n = Len(Forms[Top.form])
    BY <1>1, TopStatement
  <1>4. PICK at \in 1 .. n + 1 : at = Top.at
    BY <1>1, <1>3, TopStatement
  <1> QED BY <1>1, <1>2, <1>3, <1>4 DEF Waits, Asks

LEMMA BlockEndOK == ASSUME TypeOK, BlockEnd PROVE TypeOK'
  <1>1. Top.kind = "block" /\ status = "parsing" /\ Stacked(stack) /\ pos \in Nat \ {0}
    BY DEF TypeOK, BlockEnd, Parsing
  <1>2. Len(stack) > 1
    BY <1>1, NotFirst DEF Top
  <1>3. Stacked(stack')
    <2>1. PICK b : stack' = Returned(Below, b)
      BY DEF BlockEnd
    <2> QED BY <1>1, <1>2, <2>1, ReturnsBelow DEF Below
  <1>4. pos' \in Nat \ {0}
    <2>1. pos' = pos \/ pos' = pos + 1
      BY DEF BlockEnd
    <2> QED BY <1>1, <2>1
  <1> QED BY <1>1, <1>3, <1>4, Stays DEF BlockEnd

LEMMA SingleEndOK == ASSUME TypeOK, SingleEnd PROVE TypeOK'
  <1>1. Top.kind = "block" /\ status = "parsing" /\ Stacked(stack) /\ pos \in Nat \ {0}
    BY DEF TypeOK, SingleEnd, Parsing
  <1>2. Len(stack) > 1
    BY <1>1, NotFirst DEF Top
  <1>3. Stacked(stack')
    <2>1. PICK b : stack' = Returned(Below, b)
      BY DEF SingleEnd
    <2> QED BY <1>1, <1>2, <2>1, ReturnsBelow DEF Below
  <1> QED BY <1>1, <1>3, Stays DEF SingleEnd

(* A new statement at its beginning *)
LEMMA NewStatement ==
    ASSUME NEW form \in DOMAIN Forms
    PROVE  IsActivation(Statement(form)) /\ Statement(form).kind = "statement" /\ Statement(form).form = form
  <1>1. Len(Forms[form]) \in Nat
    BY FormLength
  <1>2. PICK none : none = <<>>
    OBVIOUS
  <1>3. IsSeq(none)
    BY <1>2 DEF IsSeq
  <1>4. PICK f : f = [kind |-> "statement", form |-> form, at |-> 1, parts |-> none]
    OBVIOUS
  <1>5. IsStatement(f)
    BY <1>1, <1>3, <1>4 DEF IsStatement
  <1> QED BY <1>2, <1>4, <1>5 DEF IsActivation, Statement

LEMMA NewBlock ==
    ASSUME NEW single \in BOOLEAN
    PROVE  IsActivation(CodeBlock(single))
  <1>1. PICK none : none = <<>>
    OBVIOUS
  <1>2. IsSeq(none)
    BY <1>1 DEF IsSeq
  <1>3. IsBlock([kind |-> "block", vars |-> none, code |-> none, single |-> single])
    BY <1>2 DEF IsBlock
  <1> QED BY <1>1, <1>3 DEF IsActivation, CodeBlock

LEMMA NewExpression ==
    ASSUME NEW end
    PROVE  IsActivation(Expression(end)) /\ Expression(end).brackets = 0
  <1>1. PICK none : none = <<>>
    OBVIOUS
  <1>2. IsSeq(none) /\ Len(none) = 0
    BY <1>1 DEF IsSeq
  <1>3. Cardinality(BracketsIn(none)) = 0
    <2>1. BracketsIn(none) = {}
      BY <1>2 DEF BracketsIn
    <2> QED BY <2>1, FS_EmptySet
  <1>4. PICK f : f = [kind |-> "expression", end |-> end, queue |-> none, ops |-> none, brackets |-> 0]
    OBVIOUS
  <1>5. IsExpression(f)
    BY <1>2, <1>3, <1>4 DEF IsExpression
  <1> QED BY <1>1, <1>4, <1>5 DEF IsActivation, Expression

LEMMA BeginStatementOK == ASSUME TypeOK, BeginStatement PROVE TypeOK'
  <1>1. Top.kind = "block" /\ status = "parsing" /\ Stacked(stack) /\ pos \in Nat \ {0}
    BY DEF TypeOK, BeginStatement, Parsing
  <1>2. PICK form \in DOMAIN Forms : form # "function" /\ stack' = Append(stack, Statement(form))
    <2>1. \/ tokens[pos].k \in Keywords /\ stack' = Append(stack, Statement(tokens[pos].k))
          \/ stack' = Append(stack, Statement("expression"))
      BY DEF BeginStatement, Begin
    <2>2. Keywords \cup {"expression"} \subseteq DOMAIN Forms /\ "function" \notin Keywords
      BY FormNames DEF Keywords
    <2> QED BY <2>1, <2>2
  <1>3. Stacked(stack')
    <2>1. PICK f : f = Statement(form)
      OBVIOUS
    <2>2. IsActivation(f) /\ f.kind = "statement" /\ f.form # "function"
      BY <1>2, <2>1, NewStatement
    <2>3. Calls(Last(stack), f)
      BY <1>1, <2>2 DEF Calls, Top
    <2> QED BY <1>1, <1>2, <2>1, <2>2, <2>3, Pushed
  <1>4. pos' \in Nat \ {0}
    <2>1. pos' = pos \/ pos' = pos + 1
      BY DEF BeginStatement
    <2> QED BY <1>1, <2>1
  <1> QED BY <1>1, <1>3, <1>4, Stays DEF BeginStatement

LEMMA ExpectOK == ASSUME TypeOK, Expect PROVE TypeOK'
  <1>1. AtItem(Item)
    BY DEF Expect, AtItem
  <1>2. pos' \in Nat \ {0} /\ UNCHANGED <<source, tokens>>
    <2>1. pos' = pos + 1 /\ UNCHANGED <<source, tokens>>
      BY DEF Expect
    <2> QED BY <1>1, <2>1, AtItemFacts
  <1>3. CASE Fail
    BY <1>1, <1>2, <1>3, AtItemFacts, FailOK
  <1>4. CASE Become([Top EXCEPT !.at = @ + 1]) /\ UNCHANGED status
    <2>1. stack' = Append(Below, [Top EXCEPT !.at = Top.at + 1])
      BY <1>4 DEF Become
    <2>2. Stacked(stack')
      BY <1>1, <2>1, AtItemFacts, StatementGoesOn
    <2> QED BY <1>1, <1>2, <1>4, <2>2, AtItemFacts, Stays
  <1> QED BY <1>3, <1>4 DEF Expect

LEMMA BeginExpressionOK == ASSUME TypeOK, BeginExpression PROVE TypeOK'
  <1>1. AtItem("EXPR") /\ stack' = Append(stack, Expression("any")) /\ UNCHANGED <<source, tokens, pos, status, result>>
    BY DEF BeginExpression, Begin
  <1>2. PICK f : f = Expression("any")
    OBVIOUS
  <1>3. IsActivation(f) /\ f.kind = "expression"
    BY <1>2, NewExpression DEF Expression
  <1>4. Calls(Last(stack), f)
    BY <1>1, <1>3, AtItemFacts DEF Calls, Top
  <1>5. Stacked(stack')
    BY <1>1, <1>2, <1>3, <1>4, AtItemFacts, Pushed
  <1> QED BY <1>1, <1>5, AtItemFacts, Stays

LEMMA BeginBlockOK == ASSUME TypeOK, BeginBlock PROVE TypeOK'
  <1>1. AtItem("BLOCK") /\ stack' = Append(stack, CodeBlock(FALSE)) /\ UNCHANGED <<source, tokens, pos, status, result>>
    BY DEF BeginBlock, Begin
  <1>2. PICK f : f = CodeBlock(FALSE)
    OBVIOUS
  <1>3. IsActivation(f) /\ f.kind = "block" /\ f.single = FALSE
    BY <1>2, NewBlock DEF CodeBlock
  <1>4. Calls(Last(stack), f)
    BY <1>1, <1>3, AtItemFacts DEF Calls, Top
  <1>5. Stacked(stack')
    BY <1>1, <1>2, <1>3, <1>4, AtItemFacts, Pushed
  <1> QED BY <1>1, <1>5, AtItemFacts, Stays

LEMMA ReturnValueOK == ASSUME TypeOK, ReturnValue PROVE TypeOK'
  <1>1. AtItem("VALUE") /\ UNCHANGED <<source, tokens, pos, status, result>>
    BY DEF ReturnValue
  <1>2. CASE stack' = Append(Below, Took(Null))
    <2>1. Stacked(stack')
      BY <1>1, <1>2, AtItemFacts, TookOK
    <2> QED BY <1>1, <2>1, AtItemFacts, Stays
  <1>3. CASE stack' = Append(stack, Expression("any"))
    <2>1. PICK f : f = Expression("any")
      OBVIOUS
    <2>2. IsActivation(f) /\ f.kind = "expression"
      BY <2>1, NewExpression DEF Expression
    <2>3. Calls(Last(stack), f)
      BY <1>1, <2>2, AtItemFacts DEF Calls, Top
    <2>4. Stacked(stack')
      BY <1>1, <1>3, <2>1, <2>2, <2>3, AtItemFacts, Pushed
    <2> QED BY <1>1, <2>4, AtItemFacts, Stays
  <1> QED BY <1>2, <1>3 DEF ReturnValue, Become, Begin

LEMMA CatchNameOK == ASSUME TypeOK, CatchName PROVE TypeOK'
  <1>1. AtItem("NAME") /\ UNCHANGED <<source, tokens>> /\ pos' = pos + 1
    BY DEF CatchName
  <1>2. pos' \in Nat \ {0}
    BY <1>1, AtItemFacts
  <1>3. CASE Fail
    BY <1>1, <1>2, <1>3, AtItemFacts, FailOK
  <1>4. CASE Become(Took(tokens[pos].v)) /\ UNCHANGED status
    <2>1. Stacked(stack')
      BY <1>1, <1>4, AtItemFacts, TookOK DEF Become
    <2> QED BY <1>1, <1>2, <1>4, <2>1, AtItemFacts, Stays
  <1> QED BY <1>3, <1>4 DEF CatchName

LEMMA TokensAre ==
    ASSUME TypeOK
    PROVE  Len(tokens) \in Nat /\ DOMAIN tokens = 1 .. Len(tokens)
  <1>1. IsSeq(tokens)
    BY DEF TypeOK
  <1> QED BY <1>1 DEF IsSeq

(* The first token that is none of the parameters, and when it is their bracket. *)
Wanted(p) == IF p = pos THEN "(" ELSE IF (p - pos) % 2 = 1 THEN "id" ELSE ","
Others == {p \in pos .. Len(tokens) : ~Is(p, Wanted(p))}
CloseAt == CHOOSE p \in Others : \A q \in Others : p <= q
ListClosed == Others # {} /\ CloseAt > pos /\ Is(CloseAt, ")")
ParamsOnly ==
    \A p \in pos + 1 .. CloseAt - 1 : Is(p, IF (p - pos) % 2 = 1 THEN "id" ELSE ",")

LEMMA CloseAtFirst ==
    ASSUME TypeOK, Others # {}
    PROVE  /\ CloseAt \in pos .. Len(tokens)
           /\ \A p \in pos .. CloseAt - 1 : Is(p, Wanted(p))
           /\ ListClosed => CloseAt \in pos + 1 .. Len(tokens) /\ Is(pos, "(") /\ ParamsOnly
  <1>1. PICK len \in Nat : len = Len(tokens)
    BY TokensAre
  <1>2. PICK here \in Nat : here = pos
    BY DEF TypeOK
  <1>3. Others \subseteq Nat
    BY <1>1, <1>2 DEF Others
  <1>4. \E p \in Others : \A q \in Others : p <= q
    BY <1>3, SmallestOf
  <1>5. PICK c \in Nat : c = CloseAt /\ c \in Others /\ \A q \in Others : c <= q
    BY <1>3, <1>4 DEF CloseAt
  <1>6. c \in here .. len
    BY <1>1, <1>2, <1>5 DEF Others
  <1>7. ASSUME NEW p \in here .. c - 1 PROVE Is(p, Wanted(p))
    <2>1. p \in here .. len /\ ~(c <= p)
      BY <1>6
    <2>2. p \notin Others
      BY <1>5, <2>1
    <2> QED BY <1>1, <1>2, <2>1, <2>2 DEF Others
  <1>8. ASSUME ListClosed PROVE c \in here + 1 .. len /\ Is(pos, "(") /\ ParamsOnly
    <2>1. c > here
      BY <1>2, <1>5, <1>8 DEF ListClosed
    <2>2. c \in here + 1 .. len /\ here \in here .. c - 1
      BY <1>6, <2>1
    <2>3. Is(here, Wanted(here))
      BY <1>7, <2>2
    <2>4. Is(pos, "(")
      BY <1>2, <2>3 DEF Wanted
    <2>5. ASSUME NEW p \in here + 1 .. c - 1
          PROVE  Is(p, IF (p - here) % 2 = 1 THEN "id" ELSE ",")
      <3>1. p \in here .. c - 1 /\ p # here
        OBVIOUS
      <3>2. Wanted(p) = IF (p - here) % 2 = 1 THEN "id" ELSE ","
        BY <1>2, <3>1 DEF Wanted
      <3>3. Is(p, Wanted(p))
        BY <1>7, <3>1
      <3> QED BY <3>2, <3>3
    <2> QED BY <1>2, <1>5, <2>2, <2>4, <2>5 DEF ParamsOnly
  <1> QED BY <1>1, <1>2, <1>5, <1>6, <1>7, <1>8

LEMMA ParamsCases ==
    ASSUME Params
    PROVE  /\ AtItem("PARAMS") /\ UNCHANGED <<source, tokens, result>> /\ Others # {}
           /\ \/ /\ ListClosed
                 /\ \E args : stack' = Append(Below, Took(args))
                 /\ pos' = IF Is(CloseAt + 1, "static") THEN CloseAt + 2 ELSE CloseAt + 1
                 /\ UNCHANGED status
              \/ Fail /\ pos' = CloseAt + 1
  BY DEF Params, Wanted, Others, CloseAt, ListClosed, Become

LEMMA ParamsOK == ASSUME TypeOK, Params PROVE TypeOK'
  <1>1. AtItem("PARAMS") /\ UNCHANGED <<source, tokens>>
    BY ParamsCases
  <1>2. status = "parsing" /\ Stacked(stack) /\ pos \in Nat \ {0} /\ Waits(Top)
    BY <1>1, AtItemFacts
  <1>3. PICK c \in Nat : c = CloseAt
    BY <1>2, ParamsCases, CloseAtFirst, TokensAre
  <1>4. pos' = c + 1 \/ pos' = c + 2
    BY <1>3, ParamsCases
  <1>5. pos' \in Nat \ {0}
    BY <1>4
  <1>6. CASE Fail
    BY <1>1, <1>2, <1>5, <1>6, FailOK
  <1>7. CASE ~Fail
    <2>1. PICK args : stack' = Append(Below, Took(args))
      BY <1>7, ParamsCases
    <2>2. UNCHANGED status
      BY <1>7, ParamsCases
    <2>3. Stacked(stack')
      BY <1>2, <2>1, TookOK
    <2> QED BY <1>1, <1>2, <1>5, <2>2, <2>3, Stays
  <1> QED BY <1>6, <1>7

(* The block that a declaration is in, and the statement itself *)
LEMMA DeclareFacts ==
    ASSUME TypeOK, AtItem("DECLARE"), NEW x, NEW n \in {2, 3}
    PROVE  LET block == [Last(Below) EXCEPT !.vars = Append(@, x)]
               here == [Top EXCEPT !.at = n]
           IN  /\ Len(stack) > 1 /\ Stacked(Below) /\ IsBlock(Last(Below))
               /\ IsActivation(block) /\ Alike(Last(Below), block)
               /\ IsActivation(here) /\ Alike(Top, here)
               /\ Calls(block, here)
               /\ Front(Below) \o <<block, here>> = Append(Append(Front(Below), block), here)
  <1>1. /\ Stacked(stack) /\ Top.kind = "statement" /\ Waits(Top) /\ Asks(Top) = "DECLARE"
        /\ Top.form = "var" /\ Top.at = 1
    BY AtItemFacts, TopStatement, WhoseItem DEF Asks
  <1>2. Len(stack) > 1
    BY <1>1, NotFirst DEF Top
  <1>3. Stacked(Below) /\ Calls(Last(Below), Top) /\ IsActivation(Last(Below))
    BY <1>1, <1>2, Popped, TopOf DEF Below, Top
  <1>4. Last(Below).kind = "block"
    BY <1>1, <1>3 DEF Calls
  <1>5. IsBlock(Last(Below))
    BY <1>3, <1>4 DEF IsActivation, IsStatement, IsBlock, IsExpression, IsList, IsIndex
  <1>6. PICK names, code, single :
           Last(Below) = [kind |-> "block", vars |-> names, code |-> code, single |-> single]
    BY <1>5 DEF IsBlock
  <1>7. PICK more : more = Append(names, x)
    OBVIOUS
  <1>8. IsSeq(more) /\ IsSeq(code) /\ single \in BOOLEAN
    BY <1>5, <1>6, <1>7, Appended DEF IsBlock
  <1>9. PICK block : block = [Last(Below) EXCEPT !.vars = Append(@, x)]
    OBVIOUS
  <1>10. block = [kind |-> "block", vars |-> more, code |-> code, single |-> single]
    <2>1. PICK b : b = Last(Below)
      OBVIOUS
    <2>2. block = [b EXCEPT !.vars = Append(b.vars, x)]
      BY <1>9, <2>1
    <2>3. b = [kind |-> "block", vars |-> names, code |-> code, single |-> single]
      BY <1>6, <2>1
    <2> QED BY <1>7, <2>2, <2>3
  <1>11. IsActivation(block) /\ Alike(Last(Below), block)
    <2>1. IsBlock(block)
      BY <1>8, <1>10 DEF IsBlock
    <2> QED BY <1>6, <1>10, <2>1 DEF IsActivation, Alike
  <1>12. PICK here : here = [Top EXCEPT !.at = n]
    OBVIOUS
  <1>13. IsActivation(here) /\ Alike(Top, here)
    <2>1. Len(Forms[Top.form]) = 3
      BY <1>1, FormVar
    <2>2. n \in Top.at .. Len(Forms[Top.form]) + 1
      BY <1>1, <2>1
    <2> QED BY <1>1, <1>12, <2>2, TopStatement, StatementAhead
  <1>14. Calls(block, here)
    BY <1>1, <1>10, <1>13 DEF Calls, Alike
  <1>15. Front(Below) \o <<block, here>> = Append(Append(Front(Below), block), here)
    <2>1. IsSeq(Front(Below))
      BY <1>3, TopOf, Fronts
    <2>2. PICK s, R : s = Front(Below) /\ s \in Seq(R)
      BY <2>1, HasElements
    <2>3. s \in Seq(R \cup {block, here})
      BY <2>2
    <2>4. s \o <<block, here>> = Append(Append(s, block), here)
      BY <2>3
    <2> QED BY <2>2, <2>4
  <1> QED BY <1>2, <1>3, <1>5, <1>9, <1>11, <1>12, <1>13, <1>14, <1>15

LEMMA DeclareOK == ASSUME TypeOK, Declare PROVE TypeOK'
  <1>1. AtItem("DECLARE") /\ UNCHANGED <<source, tokens>>
    BY DEF Declare
  <1>2. status = "parsing" /\ Stacked(stack) /\ pos \in Nat \ {0}
    BY <1>1, AtItemFacts
  <1>3. pos' = pos \/ pos' = pos + 1
    BY DEF Declare
  <1>4. CASE Fail
    BY <1>1, <1>2, <1>3, <1>4, FailOK
  <1>5. CASE ~Fail
    <2>1. PICK n \in {2, 3} :
             /\ stack' = Front(Below) \o <<[Last(Below) EXCEPT !.vars = Append(@, tokens[pos].v)], [Top EXCEPT !.at = n]>>
             /\ UNCHANGED status
      BY <1>5 DEF Declare
    <2>2. PICK block, here : /\ block = [Last(Below) EXCEPT !.vars = Append(@, tokens[pos].v)]
                             /\ here = [Top EXCEPT !.at = n]
      OBVIOUS
    <2>3. /\ Len(stack) > 1 /\ Stacked(Below)
          /\ IsActivation(block) /\ Alike(Last(Below), block)
          /\ IsActivation(here) /\ Calls(block, here)
          /\ Front(Below) \o <<block, here>> = Append(Append(Front(Below), block), here)
      BY <1>1, <2>2, DeclareFacts
    <2>4. PICK s : s = Append(Front(Below), block)
      OBVIOUS
    <2>5. Stacked(s) /\ Last(s) = block
      <3>1. IsSeq(Front(Below))
        BY <2>3, TopOf, Fronts
      <3>2. Stacked(s)
        BY <2>3, <2>4, Replaced
      <3>3. Last(s) = block
        <4>1. PICK u : u = Front(Below)
          OBVIOUS
        <4>2. IsSeq(u) /\ s = Append(u, block)
          BY <2>4, <3>1, <4>1
        <4>3. Last(Append(u, block)) = block
          BY <4>2, Appended
        <4> QED BY <4>2, <4>3
      <3> QED BY <3>2, <3>3
    <2>6. Stacked(Append(s, here))
      BY <2>3, <2>5, Pushed
    <2>7. stack' = Append(s, here)
      BY <2>1, <2>2, <2>3, <2>4
    <2>8. Stacked(stack')
      BY <2>6, <2>7
    <2>9. pos' \in Nat \ {0} /\ UNCHANGED status
      BY <1>2, <1>3, <2>1
    <2> QED BY <1>1, <1>2, <2>8, <2>9, Stays
  <1> QED BY <1>4, <1>5

LEMMA ElseOK == ASSUME TypeOK, Else PROVE TypeOK'
  <1>1. AtItem("ELSE") /\ UNCHANGED <<source, tokens>>
    BY DEF Else
  <1>2. /\ status = "parsing" /\ Stacked(stack) /\ pos \in Nat \ {0}
        /\ Waits(Top) /\ Asks(Top) = "ELSE"
    BY <1>1, AtItemFacts
  <1>3. pos' \in Nat \ {0}
    <2>1. pos' \in {pos, pos + 1, pos + 2}
      BY DEF Else
    <2> QED BY <1>2, <2>1
  <1>4. CASE Fail
    BY <1>1, <1>2, <1>3, <1>4, FailOK
  <1>5. CASE stack' = Append(Below, Took(Null)) /\ UNCHANGED status
    BY <1>1, <1>2, <1>3, <1>5, TookOK, Stays
  <1>6. ASSUME NEW single \in BOOLEAN, stack' = Append(stack, CodeBlock(single)), UNCHANGED status
        PROVE  TypeOK'
    <2>1. PICK f : f = CodeBlock(single)
      OBVIOUS
    <2>2. IsActivation(f) /\ f.kind = "block"
      BY <2>1, NewBlock DEF CodeBlock
    <2>3. Calls(Last(stack), f)
      BY <1>2, <2>2 DEF Calls, Top
    <2>4. Stacked(stack')
      BY <1>2, <1>6, <2>1, <2>2, <2>3, Pushed
    <2> QED BY <1>1, <1>2, <1>3, <1>6, <2>4, Stays
  <1> QED BY <1>4, <1>5, <1>6 DEF Else, Become, Begin

LEMMA CompleteOK == ASSUME TypeOK, Complete PROVE TypeOK'
  <1>1. /\ status = "parsing" /\ Stacked(stack) /\ pos \in Nat \ {0} /\ Top.kind = "statement"
        /\ UNCHANGED <<source, tokens, pos>> /\ Top.at > Len(Forms[Top.form])
    BY DEF TypeOK, Complete, Parsing
  <1>2. CASE Len(stack) = 1
    <2>1. status' = "done" /\ UNCHANGED stack
      BY <1>2 DEF Complete
    <2>2. ~Waits(Top)
      <3>1. PICK n \in Nat : n = Len(Forms[Top.form])
        BY <1>1, TopStatement
      <3>2. PICK at \in 1 .. n + 1 : at = Top.at
        BY <1>1, <3>1, TopStatement
      <3> QED BY <1>1, <3>1, <3>2 DEF Waits
    <2>3. Top' = Top
      BY <2>1 DEF Top
    <2> QED BY <1>1, <1>2, <2>1, <2>2, <2>3 DEF TypeOK
  <1>3. CASE Len(stack) # 1
    <2>1. Len(stack) > 1
      <3>1. PICK n \in Nat \ {0} : n = Len(stack)
        BY <1>1, TopOf
      <3> QED BY <1>3, <3>1
    <2>2. stack' = Below \/ stack' = Returned(Below, Built(Top.form, Top.parts))
      BY <1>3 DEF Complete
    <2>3. Stacked(stack')
      BY <1>1, <2>1, <2>2, Popped, ReturnsBelow DEF Below
    <2>4. UNCHANGED status
      BY <1>3 DEF Complete
    <2> QED BY <1>1, <2>3, <2>4, Stays
  <1> QED BY <1>2, <1>3

-----------------------------------------------------------------------------
(***************************************************************************)
(* Expressions                                                             *)
(***************************************************************************)
LEMMA TopExpression ==
    ASSUME TypeOK, Parsing("expression")
    PROVE  /\ status = "parsing" /\ Stacked(stack) /\ pos \in Nat \ {0}
           /\ Len(stack) > 1 /\ Top.kind = "expression" /\ IsExpression(Top)
  <1>1. status = "parsing" /\ Stacked(stack) /\ pos \in Nat \ {0} /\ Top.kind = "expression"
    BY DEF TypeOK, Parsing
  <1>2. IsActivation(Top)
    BY <1>1, TopOf DEF Top
  <1>3. IsExpression(Top)
    BY <1>1, <1>2 DEF IsActivation, IsStatement, IsBlock, IsExpression, IsList, IsIndex
  <1>4. Len(stack) > 1
    BY <1>1, NotFirst DEF Top
  <1> QED BY <1>1, <1>3, <1>4

(* The operators and brackets of an expression *)
Ops(ops) == IsSeq(ops) /\ \A i \in 1 .. Len(ops) : ops[i] = Bracket \/ ops[i].type = "operator"

LEMMA BracketsFinite ==
    ASSUME NEW ops, IsSeq(ops)
    PROVE  IsFiniteSet(BracketsIn(ops)) /\ Cardinality(BracketsIn(ops)) \in Nat
  <1>1. IsFiniteSet(1 .. Len(ops))
    <2>1. PICK n \in Nat : n = Len(ops)
      BY DEF IsSeq
    <2> QED BY <2>1, FS_Interval
  <1>2. IsFiniteSet(BracketsIn(ops))
    BY <1>1, FS_Subset DEF BracketsIn
  <1> QED BY <1>2, FS_CardinalityType

LEMMA OpsAppend ==
    ASSUME NEW ops, Ops(ops), NEW o, o = Bracket \/ o.type = "operator"
    PROVE  /\ Ops(Append(ops, o))
           /\ Cardinality(BracketsIn(Append(ops, o))) =
                Cardinality(BracketsIn(ops)) + (IF o = Bracket THEN 1 ELSE 0)
  <1>1. PICK n \in Nat : n = Len(ops)
    BY DEF Ops, IsSeq
  <1>2. PICK t : t = Append(ops, o)
    OBVIOUS
  <1>3. IsSeq(t) /\ Len(t) = n + 1 /\ (\A i \in 1 .. n : t[i] = ops[i]) /\ t[n + 1] = o
    BY <1>1, <1>2, Appended DEF Ops
  <1>4. Ops(t)
    <2>1. ASSUME NEW i \in 1 .. n + 1 PROVE t[i] = Bracket \/ t[i].type = "operator"
      <3>1. CASE i = n + 1
        BY <1>3, <3>1
      <3>2. CASE i # n + 1
        <4>1. i \in 1 .. n
          BY <3>2
        <4> QED BY <1>1, <1>3, <4>1 DEF Ops
      <3> QED BY <3>1, <3>2
    <2> QED BY <1>3, <2>1 DEF Ops
  <1>5. CASE o = Bracket
    <2>1. BracketsIn(t) = BracketsIn(ops) \cup {n + 1} /\ n + 1 \notin BracketsIn(ops)
      BY <1>1, <1>3, <1>5 DEF BracketsIn
    <2>2. Cardinality(BracketsIn(t)) = Cardinality(BracketsIn(ops)) + 1
      BY <2>1, BracketsFinite, FS_AddElement DEF Ops
    <2> QED BY <1>2, <1>4, <1>5, <2>2
  <1>6. CASE o # Bracket
    <2>1. BracketsIn(t) = BracketsIn(ops)
      BY <1>1, <1>3, <1>6 DEF BracketsIn
    <2>2. Cardinality(BracketsIn(ops)) \in Nat
      BY BracketsFinite DEF Ops
    <2> QED BY <1>2, <1>4, <1>6, <2>1, <2>2
  <1> QED BY <1>5, <1>6

(* What is left of the operators below the last bracket, or the last operator *)
LEMMA OpsBelow ==
    ASSUME NEW ops, Ops(ops), NEW k \in 1 .. Len(ops)
    PROVE  /\ Ops(SubSeq(ops, 1, k - 1))
           /\ BracketsIn(SubSeq(ops, 1, k - 1)) = {i \in BracketsIn(ops) : i < k}
  <1>1. PICK n \in Nat : n = Len(ops)
    BY DEF Ops, IsSeq
  <1>2. 1 \in 1 .. Len(ops) + 1 /\ k - 1 \in 1 - 1 .. Len(ops)
    BY <1>1
  <1>3. PICK t : t = SubSeq(ops, 1, k - 1)
    OBVIOUS
  <1>4. /\ IsSeq(t)
        /\ Len(t) = k - 1 - 1 + 1
        /\ \A i \in 1 .. k - 1 - 1 + 1 : t[i] = ops[1 + i - 1]
    BY <1>2, <1>3, Parts DEF Ops
  <1>5. k \in 1 .. n /\ Len(t) = k - 1 /\ \A i \in 1 .. k - 1 : t[i] = ops[i]
    BY <1>1, <1>4
  <1>6. Ops(t)
    BY <1>1, <1>4, <1>5 DEF Ops
  <1>7. BracketsIn(t) = {i \in BracketsIn(ops) : i < k}
    BY <1>1, <1>5 DEF BracketsIn
  <1> QED BY <1>3, <1>6, <1>7

LEMMA OpsFront ==
    ASSUME NEW ops, Ops(ops), ops # <<>>, Last(ops) # Bracket
    PROVE  Ops(Front(ops)) /\ BracketsIn(Front(ops)) = BracketsIn(ops)
  <1>1. PICK n \in Nat \ {0} : n = Len(ops)
    BY Fronts DEF Ops
  <1>2. n \in 1 .. Len(ops)
    BY <1>1
  <1>3. Ops(SubSeq(ops, 1, n - 1)) /\ BracketsIn(SubSeq(ops, 1, n - 1)) = {i \in BracketsIn(ops) : i < n}
    BY <1>2, OpsBelow
  <1>4. ops[n] # Bracket
    BY <1>1 DEF Last
  <1>5. {i \in BracketsIn(ops) : i < n} = BracketsIn(ops)
    BY <1>1, <1>4 DEF BracketsIn
  <1> QED BY <1>1, <1>3, <1>5 DEF Front

(* The last bracket *)
LEMMA LastBracket ==
    ASSUME NEW ops, Ops(ops), BracketsIn(ops) # {}
    PROVE  LET k == SelectLastInSeq(ops, LAMBDA o : o = Bracket)
           IN  k \in BracketsIn(ops) /\ \A i \in BracketsIn(ops) : i <= k
  <1>1. PICK n \in Nat : n = Len(ops)
    BY DEF Ops, IsSeq
  <1>2. BracketsIn(ops) \subseteq 0 .. n
    BY <1>1 DEF BracketsIn
  <1>3. \E k \in BracketsIn(ops) : \A i \in BracketsIn(ops) : i <= k
    BY <1>2, GreatestOf
  <1>4. \E k \in BracketsIn(ops) : \A i \in BracketsIn(ops) : k >= i
    BY <1>2, <1>3
  <1>5. Max(BracketsIn(ops)) \in BracketsIn(ops) /\ \A i \in BracketsIn(ops) : Max(BracketsIn(ops)) >= i
    BY <1>4, Zenon DEF Max
  <1>6. SelectLastInSeq(ops, LAMBDA o : o = Bracket) = Max(BracketsIn(ops))
    BY Zenon DEF SelectLastInSeq, BracketsIn
  <1>7. \A i \in BracketsIn(ops) : i <= Max(BracketsIn(ops))
    BY <1>2, <1>5
  <1> QED BY <1>5, <1>6, <1>7

LEMMA ExpressionWith ==
    ASSUME NEW end, NEW queue, IsSeq(queue), NEW ops, Ops(ops), NEW n, n = Cardinality(BracketsIn(ops))
    PROVE  LET f == [kind |-> "expression", end |-> end, queue |-> queue, ops |-> ops, brackets |-> n]
           IN  IsExpression(f) /\ IsActivation(f)
  <1>1. PICK f : f = [kind |-> "expression", end |-> end, queue |-> queue, ops |-> ops, brackets |-> n]
    OBVIOUS
  <1>2. IsExpression(f)
    BY <1>1 DEF IsExpression, Ops
  <1> QED BY <1>1, <1>2 DEF IsActivation

(* What is no statement with blocks: operators and brackets are not. *)
Plain(e) == e.type \notin {"if", "for"}
AllPlain(queue) == \A i \in 1 .. Len(queue) : Plain(queue[i])

LEMMA OpsPlain == ASSUME NEW ops, Ops(ops) PROVE AllPlain(ops)
  <1>1. Bracket.type = "bracket"
    BY DEF Bracket
  <1> QED BY <1>1 DEF Ops, AllPlain, Plain

LEMMA PlainAppend ==
    ASSUME NEW queue, IsSeq(queue), AllPlain(queue), NEW e, Plain(e)
    PROVE  AllPlain(Append(queue, e))
  <1>1. PICK n \in Nat : n = Len(queue)
    BY DEF IsSeq
  <1>2. PICK t : t = Append(queue, e)
    OBVIOUS
  <1>3. Len(t) = n + 1 /\ (\A i \in 1 .. n : t[i] = queue[i]) /\ t[n + 1] = e
    BY <1>1, <1>2, Appended
  <1>4. \A i \in 1 .. n + 1 : i \in 1 .. n \/ i = n + 1
    OBVIOUS
  <1>5. \A i \in 1 .. n + 1 : Plain(t[i])
    BY <1>1, <1>3, <1>4 DEF AllPlain
  <1> QED BY <1>2, <1>3, <1>5 DEF AllPlain

LEMMA PlainJoined ==
    ASSUME NEW queue, IsSeq(queue), AllPlain(queue), NEW ops, IsSeq(ops), AllPlain(ops)
    PROVE  AllPlain(queue \o ops)
  <1>1. PICK m, n \in Nat : m = Len(queue) /\ n = Len(ops)
    BY DEF IsSeq
  <1>2. PICK t : t = queue \o ops
    OBVIOUS
  <1>3. /\ Len(t) = m + n
        /\ \A i \in 1 .. m : t[i] = queue[i]
        /\ \A i \in 1 .. n : t[m + i] = ops[i]
    BY <1>1, <1>2, Joined
  <1>4. m \in Nat
    BY <1>1 DEF IsSeq
  <1>5. ASSUME NEW i \in 1 .. m + n PROVE Plain(t[i])
    <2>1. CASE i <= m
      <3>1. i \in 1 .. m
        BY <1>4, <2>1
      <3> QED BY <1>1, <1>3, <3>1 DEF AllPlain
    <2>2. CASE ~(i <= m)
      <3>1. i - m \in 1 .. n /\ m + (i - m) = i
        BY <1>4, <2>2
      <3> QED BY <1>1, <1>3, <3>1 DEF AllPlain
    <2> QED BY <2>1, <2>2
  <1> QED BY <1>2, <1>3, <1>5 DEF AllPlain

LEMMA PlainReversed ==
    ASSUME NEW ops, IsSeq(ops), AllPlain(ops)
    PROVE  AllPlain(Reverse(ops))
  <1>1. PICK n \in Nat : n = Len(ops)
    BY DEF IsSeq
  <1>2. PICK t : t = Reverse(ops)
    OBVIOUS
  <1>3. Len(t) = n /\ \A i \in 1 .. n : t[i] = ops[n - i + 1]
    BY <1>1, <1>2, Reversed
  <1>4. \A i \in 1 .. n : n - i + 1 \in 1 .. n
    OBVIOUS
  <1>5. \A i \in 1 .. n : Plain(t[i])
    BY <1>1, <1>3, <1>4 DEF AllPlain
  <1> QED BY <1>2, <1>3, <1>5 DEF AllPlain

LEMMA PlainPart ==
    ASSUME NEW ops, IsSeq(ops), AllPlain(ops), NEW k \in 1 .. Len(ops)
    PROVE  AllPlain(SubSeq(ops, k + 1, Len(ops)))
  <1>1. PICK n \in Nat : n = Len(ops)
    BY DEF IsSeq
  <1>2. k + 1 \in 1 .. Len(ops) + 1 /\ n \in k + 1 - 1 .. Len(ops)
    BY <1>1
  <1>3. PICK t : t = SubSeq(ops, k + 1, n)
    OBVIOUS
  <1>4. Len(t) = n - (k + 1) + 1 /\ \A i \in 1 .. n - (k + 1) + 1 : t[i] = ops[k + 1 + i - 1]
    BY <1>2, <1>3, Parts
  <1>5. ASSUME NEW i \in 1 .. n - (k + 1) + 1 PROVE Plain(t[i])
    <2>1. PICK j \in 1 .. n : j = k + 1 + i - 1
      BY <1>1
    <2> QED BY <1>1, <1>4, <2>1 DEF AllPlain
  <1> QED BY <1>1, <1>3, <1>4, <1>5 DEF AllPlain

(* An expression that goes on: with other operators, and so many brackets *)
GoesOn(n) ==
    \E f : /\ IsActivation(f) /\ f.kind = "expression" /\ f.brackets = n
           /\ AllPlain(Top.queue) => AllPlain(f.queue)
           /\ stack' = Append(Below, f)

LEMMA TopRecord ==
    ASSUME TypeOK, Parsing("expression")
    PROVE  \E end, queue, ops :
             /\ Top = [kind |-> "expression", end |-> end, queue |-> queue, ops |-> ops,
                       brackets |-> Top.brackets]
             /\ IsSeq(queue) /\ Ops(ops) /\ Top.brackets = Cardinality(BracketsIn(ops))
             /\ Top.brackets \in Nat
  <1>1. IsExpression(Top)
    BY TopExpression
  <1>2. PICK end, queue, ops, n :
           Top = [kind |-> "expression", end |-> end, queue |-> queue, ops |-> ops, brackets |-> n]
    BY <1>1 DEF IsExpression
  <1>3. IsSeq(queue) /\ Ops(ops) /\ n = Cardinality(BracketsIn(ops))
    BY <1>1, <1>2 DEF IsExpression, Ops
  <1>4. n \in Nat
    BY <1>3, BracketsFinite DEF Ops
  <1> QED BY <1>2, <1>3, <1>4

(* Changes to several parts of an expression *)
Moved(t, queue, ops) == [t EXCEPT !.queue = queue, !.ops = ops]
Opened(t, n, ops) == [t EXCEPT !.brackets = n, !.ops = ops]
Closed(t, n, queue, ops) == [t EXCEPT !.brackets = n, !.queue = queue, !.ops = ops]

LEMMA Changed ==
    ASSUME NEW t, NEW end, NEW queue, NEW ops, NEW n, NEW q2, NEW o2, NEW n2,
           t = [kind |-> "expression", end |-> end, queue |-> queue, ops |-> ops, brackets |-> n]
    PROVE  /\ Moved(t, q2, o2) =
                [kind |-> "expression", end |-> end, queue |-> q2, ops |-> o2, brackets |-> n]
           /\ Opened(t, n2, o2) =
                [kind |-> "expression", end |-> end, queue |-> queue, ops |-> o2, brackets |-> n2]
           /\ Closed(t, n2, q2, o2) =
                [kind |-> "expression", end |-> end, queue |-> q2, ops |-> o2, brackets |-> n2]
  <1>1. PICK u : u = [t EXCEPT !.queue = q2]
    OBVIOUS
  <1>2. u = [kind |-> "expression", end |-> end, queue |-> q2, ops |-> ops, brackets |-> n]
    BY <1>1
  <1>3. PICK v : v = [t EXCEPT !.brackets = n2]
    OBVIOUS
  <1>4. v = [kind |-> "expression", end |-> end, queue |-> queue, ops |-> ops, brackets |-> n2]
    BY <1>3
  <1>5. PICK w : w = [v EXCEPT !.queue = q2]
    OBVIOUS
  <1>6. w = [kind |-> "expression", end |-> end, queue |-> q2, ops |-> ops, brackets |-> n2]
    BY <1>4, <1>5
  <1>7. [u EXCEPT !.ops = o2] = [kind |-> "expression", end |-> end, queue |-> q2, ops |-> o2, brackets |-> n]
    BY <1>2
  <1>8. [v EXCEPT !.ops = o2] = [kind |-> "expression", end |-> end, queue |-> queue, ops |-> o2, brackets |-> n2]
    BY <1>4
  <1>9. [w EXCEPT !.ops = o2] = [kind |-> "expression", end |-> end, queue |-> q2, ops |-> o2, brackets |-> n2]
    BY <1>6
  <1>10. [t EXCEPT !.queue = q2, !.ops = o2] = [[t EXCEPT !.queue = q2] EXCEPT !.ops = o2]
    BY Zenon
  <1>11. [t EXCEPT !.brackets = n2, !.ops = o2] = [[t EXCEPT !.brackets = n2] EXCEPT !.ops = o2]
    BY Zenon
  <1>12. [t EXCEPT !.brackets = n2, !.queue = q2, !.ops = o2] =
            [[[t EXCEPT !.brackets = n2] EXCEPT !.queue = q2] EXCEPT !.ops = o2]
    BY Zenon
  <1> QED BY <1>1, <1>3, <1>5, <1>7, <1>8, <1>9, <1>10, <1>11, <1>12, Zenon DEF Moved, Opened, Closed

LEMMA OpGoesOn == ASSUME TypeOK, Op PROVE GoesOn(Top.brackets)
  <1>1. Parsing("expression")
    BY DEF Op, InExpression
  <1>2. PICK end, queue, ops :
             /\ Top = [kind |-> "expression", end |-> end, queue |-> queue, ops |-> ops,
                       brackets |-> Top.brackets]
             /\ IsSeq(queue) /\ Ops(ops) /\ Top.brackets = Cardinality(BracketsIn(ops))
    BY <1>1, TopRecord
  <1>3. PICK n : n = Top.brackets
    OBVIOUS
  <1>4. PICK op : op = tokens[pos].v
    OBVIOUS
  <1>5. PICK o : o = Operator(op)
    OBVIOUS
  <1>6. o.type = "operator" /\ o # Bracket
    BY <1>5 DEF Operator, Bracket
  <1>7. PICK rest : rest = IF GivesWay(ops, op) THEN Front(ops) ELSE ops
    OBVIOUS
  <1>8. Ops(rest) /\ BracketsIn(rest) = BracketsIn(ops)
    BY <1>2, <1>7, OpsFront DEF GivesWay
  <1>9. PICK more : more = Append(rest, o)
    OBVIOUS
  <1>10. Ops(more) /\ n = Cardinality(BracketsIn(more))
    <2>1. Cardinality(BracketsIn(more)) = Cardinality(BracketsIn(rest)) + 0 /\ Ops(more)
      BY <1>6, <1>8, <1>9, OpsAppend
    <2>2. Cardinality(BracketsIn(rest)) \in Nat
      BY <1>8, BracketsFinite DEF Ops
    <2> QED BY <1>2, <1>3, <1>8, <2>1, <2>2
  <1>11. PICK out : out = IF GivesWay(ops, op) THEN Append(queue, Last(ops)) ELSE queue
    OBVIOUS
  <1>12. IsSeq(out)
    BY <1>2, <1>11, Appended
  <1>13. PICK f : f = [kind |-> "expression", end |-> end, queue |-> out, ops |-> more, brackets |-> n]
    OBVIOUS
  <1>14. PICK t : t = Top
    OBVIOUS
  <1>15. t = [kind |-> "expression", end |-> end, queue |-> queue, ops |-> ops, brackets |-> n]
    BY <1>2, <1>3, <1>14
  <1>16. stack' = Append(Below, [t EXCEPT !.queue = IF GivesWay(t.ops, op) THEN Append(@, Last(t.ops)) ELSE @,
                                          !.ops = Append(IF GivesWay(t.ops, op) THEN Front(@) ELSE @, Operator(op))])
    BY <1>4, <1>14 DEF Op, Become
  <1>17. stack' = Append(Below, [t EXCEPT !.queue = out, !.ops = more])
    <2>1. t.ops = ops /\ t.queue = queue
      BY <1>15
    <2>2. out = IF GivesWay(t.ops, op) THEN Append(t.queue, Last(t.ops)) ELSE t.queue
      BY <1>11, <2>1
    <2>3. more = Append(IF GivesWay(t.ops, op) THEN Front(t.ops) ELSE t.ops, Operator(op))
      BY <1>5, <1>7, <1>9, <2>1
    <2> QED BY <1>16, <2>2, <2>3
  <1>18. Moved(t, out, more) = f
    BY <1>13, <1>15, Changed
  <1>19. IsActivation(f) /\ f.kind = "expression" /\ f.brackets = n
    BY <1>10, <1>12, <1>13, ExpressionWith
  <1>20. AllPlain(queue) => AllPlain(out)
    <2>1. CASE GivesWay(ops, op)
      <3>1. PICK last : last = Last(ops)
        OBVIOUS
      <3>2. Plain(last)
        <4>1. ops # <<>>
          BY <2>1 DEF GivesWay
        <4>2. Len(ops) \in 1 .. Len(ops) /\ last = ops[Len(ops)]
          BY <1>2, <3>1, <4>1, Fronts DEF Ops
        <4> QED BY <1>2, <4>2, OpsPlain DEF AllPlain
      <3> QED BY <1>2, <1>11, <2>1, <3>1, <3>2, PlainAppend
    <2>2. CASE ~GivesWay(ops, op)
      BY <1>11, <2>2
    <2> QED BY <2>1, <2>2
  <1>21. f.queue = out /\ Top.queue = queue
    BY <1>13, <1>14, <1>15
  <1>22. stack' = Append(Below, f)
    BY <1>17, <1>18 DEF Moved
  <1> QED BY <1>3, <1>19, <1>20, <1>21, <1>22 DEF GoesOn

LEMMA OpenGoesOn == ASSUME TypeOK, Open PROVE GoesOn(Top.brackets + 1)
  <1>1. Parsing("expression")
    BY DEF Open, InExpression
  <1>2. PICK end, queue, ops :
             /\ Top = [kind |-> "expression", end |-> end, queue |-> queue, ops |-> ops,
                       brackets |-> Top.brackets]
             /\ IsSeq(queue) /\ Ops(ops) /\ Top.brackets = Cardinality(BracketsIn(ops))
    BY <1>1, TopRecord
  <1>3. PICK n : n = Top.brackets
    OBVIOUS
  <1>4. stack' = Append(Below, [Top EXCEPT !.brackets = Top.brackets + 1, !.ops = Append(Top.ops, Bracket)])
    BY DEF Open, Become
  <1>5. PICK o : o = Bracket
    OBVIOUS
  <1>6. PICK more : more = Append(ops, o)
    OBVIOUS
  <1>7. Ops(more) /\ Cardinality(BracketsIn(more)) = n + 1
    BY <1>2, <1>3, <1>5, <1>6, OpsAppend
  <1>8. PICK f : f = [kind |-> "expression", end |-> end, queue |-> queue, ops |-> more, brackets |-> n + 1]
    OBVIOUS
  <1>9. [Top EXCEPT !.brackets = Top.brackets + 1, !.ops = Append(Top.ops, Bracket)] = f
    <2>1. PICK t : t = Top
      OBVIOUS
    <2>2. t = [kind |-> "expression", end |-> end, queue |-> queue, ops |-> ops, brackets |-> n]
      BY <1>2, <1>3, <2>1
    <2>3. t.brackets + 1 = n + 1 /\ Append(t.ops, o) = more
      BY <1>6, <2>2
    <2>4. Opened(t, n + 1, more) = f
      BY <1>8, <2>2, Changed
    <2>5. [t EXCEPT !.brackets = t.brackets + 1, !.ops = Append(t.ops, o)] = f
      BY <2>3, <2>4 DEF Opened
    <2> QED BY <1>5, <2>1, <2>5
  <1>10. IsActivation(f) /\ f.kind = "expression" /\ f.brackets = n + 1
    BY <1>2, <1>7, <1>8, ExpressionWith
  <1>11. f.queue = queue /\ Top.queue = queue
    BY <1>2, <1>8
  <1> QED BY <1>3, <1>4, <1>9, <1>10, <1>11 DEF GoesOn

LEMMA CloseGoesOn == ASSUME TypeOK, Close PROVE GoesOn(Top.brackets - 1) /\ Top.brackets \in Nat \ {0}
  <1>1. Parsing("expression")
    BY DEF Close, InExpression
  <1>2. PICK end, queue, ops :
             /\ Top = [kind |-> "expression", end |-> end, queue |-> queue, ops |-> ops,
                       brackets |-> Top.brackets]
             /\ IsSeq(queue) /\ Ops(ops) /\ Top.brackets = Cardinality(BracketsIn(ops))
             /\ Top.brackets \in Nat
    BY <1>1, TopRecord
  <1>3. PICK n \in Nat : n = Top.brackets
    BY <1>2
  <1>4. n # 0
    BY <1>3 DEF Close, InExpression, Ends
  <1>5. BracketsIn(ops) # {}
    BY <1>2, <1>3, <1>4, FS_EmptySet
  <1>6. PICK k : k = SelectLastInSeq(ops, LAMBDA o : o = Bracket)
    OBVIOUS
  <1>7. k \in BracketsIn(ops) /\ \A i \in BracketsIn(ops) : i <= k
    BY <1>2, <1>5, <1>6, LastBracket
  <1>8. PICK m \in Nat : m = Len(ops)
    BY <1>2 DEF Ops, IsSeq
  <1>9. k \in 1 .. m
    BY <1>7, <1>8 DEF BracketsIn
  <1>10. PICK rest : rest = SubSeq(ops, 1, k - 1)
    OBVIOUS
  <1>11. Ops(rest) /\ Cardinality(BracketsIn(rest)) = n - 1
    <2>1. k \in 1 .. Len(ops)
      BY <1>8, <1>9
    <2>2. Ops(rest) /\ BracketsIn(rest) = {i \in BracketsIn(ops) : i < k}
      BY <1>2, <1>10, <2>1, OpsBelow
    <2>3. \A i \in BracketsIn(ops) : i \in Nat
      BY <1>8 DEF BracketsIn
    <2>4. {i \in BracketsIn(ops) : i < k} = BracketsIn(ops) \ {k}
      <3>1. k \in Nat
        BY <1>7, <2>3
      <3>2. \A i \in BracketsIn(ops) : i < k <=> i # k
        BY <1>7, <2>3, <3>1
      <3> QED BY <1>7, <3>2
    <2>5. Cardinality(BracketsIn(ops) \ {k}) = Cardinality(BracketsIn(ops)) - 1
      BY <1>2, <1>7, BracketsFinite, FS_RemoveElement DEF Ops
    <2> QED BY <1>2, <1>3, <2>2, <2>4, <2>5
  <1>12. PICK out : out = queue \o Reverse(SubSeq(ops, k + 1, Len(ops)))
    OBVIOUS
  <1>13. IsSeq(out)
    <2>1. k + 1 \in 1 .. Len(ops) + 1 /\ Len(ops) \in k + 1 - 1 .. Len(ops)
      BY <1>8, <1>9
    <2>2. IsSeq(SubSeq(ops, k + 1, Len(ops)))
      BY <1>2, <2>1, Parts DEF Ops
    <2>3. IsSeq(Reverse(SubSeq(ops, k + 1, Len(ops))))
      BY <2>2, Reversed
    <2> QED BY <1>2, <1>12, <2>3, Joined
  <1>14. PICK f : f = [kind |-> "expression", end |-> end, queue |-> out, ops |-> rest, brackets |-> n - 1]
    OBVIOUS
  <1>15. PICK t : t = Top
    OBVIOUS
  <1>16. t = [kind |-> "expression", end |-> end, queue |-> queue, ops |-> ops, brackets |-> n]
    BY <1>2, <1>3, <1>15
  <1>17. stack' = Append(Below, [t EXCEPT !.brackets = t.brackets - 1,
                                          !.queue = t.queue \o Reverse(SubSeq(t.ops, k + 1, Len(t.ops))),
                                          !.ops = SubSeq(t.ops, 1, k - 1)])
    <2>1. t.ops = ops
      BY <1>16
    <2> QED BY <1>6, <1>15, <2>1 DEF Close, Become
  <1>18. [t EXCEPT !.brackets = t.brackets - 1,
                   !.queue = t.queue \o Reverse(SubSeq(t.ops, k + 1, Len(t.ops))),
                   !.ops = SubSeq(t.ops, 1, k - 1)] = f
    <2>1. /\ t.brackets - 1 = n - 1
          /\ t.queue \o Reverse(SubSeq(t.ops, k + 1, Len(t.ops))) = out
          /\ SubSeq(t.ops, 1, k - 1) = rest
      BY <1>10, <1>12, <1>16
    <2>2. Closed(t, n - 1, out, rest) = f
      BY <1>14, <1>16, Changed
    <2> QED BY <2>1, <2>2 DEF Closed
  <1>19. IsActivation(f) /\ f.kind = "expression" /\ f.brackets = n - 1
    BY <1>11, <1>13, <1>14, ExpressionWith
  <1>20. AllPlain(queue) => AllPlain(out)
    <2>1. PICK part : part = SubSeq(ops, k + 1, Len(ops))
      OBVIOUS
    <2>2. IsSeq(part)
      <3>1. k + 1 \in 1 .. Len(ops) + 1 /\ Len(ops) \in k + 1 - 1 .. Len(ops)
        BY <1>8, <1>9
      <3> QED BY <1>2, <2>1, <3>1, Parts DEF Ops
    <2>3. AllPlain(part)
      BY <1>2, <1>8, <1>9, <2>1, OpsPlain, PlainPart DEF Ops
    <2>4. IsSeq(Reverse(part)) /\ AllPlain(Reverse(part))
      BY <2>2, <2>3, Reversed, PlainReversed
    <2> QED BY <1>2, <1>12, <2>1, <2>4, PlainJoined
  <1>21. f.queue = out /\ Top.queue = queue
    BY <1>2, <1>14
  <1> QED BY <1>3, <1>4, <1>17, <1>18, <1>19, <1>20, <1>21 DEF GoesOn

LEMMA GoesOnOK ==
    ASSUME TypeOK, Parsing("expression"), NEW n, GoesOn(n), UNCHANGED <<source, tokens, status, result>>, pos' = pos + 1
    PROVE  TypeOK'
  <1>1. /\ status = "parsing" /\ Stacked(stack) /\ pos \in Nat \ {0} /\ Top.kind = "expression"
    BY TopExpression
  <1>2. PICK f : IsActivation(f) /\ f.kind = "expression" /\ stack' = Append(Front(stack), f)
    BY DEF GoesOn, Below
  <1>3. Alike(Last(stack), f)
    BY <1>1, <1>2 DEF Alike, Top
  <1>4. Stacked(stack')
    BY <1>1, <1>2, <1>3, Replaced
  <1>5. pos' \in Nat \ {0}
    BY <1>1
  <1> QED BY <1>1, <1>4, <1>5, Stays

LEMMA ExpressionEndOK == ASSUME TypeOK, ExpressionEnd PROVE TypeOK'
  <1>1. status = "parsing" /\ Stacked(stack) /\ pos \in Nat \ {0} /\ Len(stack) > 1
    BY TopExpression DEF ExpressionEnd
  <1>2. UNCHANGED <<source, tokens, pos>> /\ pos' \in Nat \ {0}
    BY <1>1 DEF ExpressionEnd
  <1>3. Fail \/ \E e : stack' = Returned(Below, e) /\ UNCHANGED status
    BY DEF ExpressionEnd
  <1>4. CASE Fail
    BY <1>1, <1>2, <1>4, FailOK
  <1>5. ASSUME NEW e, stack' = Returned(Below, e), UNCHANGED status PROVE TypeOK'
    <2>1. Stacked(stack')
      BY <1>1, <1>5, ReturnsBelow DEF Below
    <2> QED BY <1>1, <1>2, <1>5, <2>1, Stays
  <1> QED BY <1>3, <1>4, <1>5

LEMMA InExpressionFacts ==
    ASSUME TypeOK, InExpression
    PROVE  /\ status = "parsing" /\ Stacked(stack) /\ pos \in Nat \ {0} /\ pos \in DOMAIN tokens
           /\ Last(stack) = Top /\ Top.kind = "expression"
  BY TopExpression DEF InExpression, More, Top

LEMMA ConstantOK == ASSUME TypeOK, Constant PROVE TypeOK'
  <1>1. status = "parsing" /\ Stacked(stack) /\ pos \in Nat \ {0} /\ Last(stack).kind = "expression"
    BY InExpressionFacts DEF Constant
  <1>2. PICK e : stack' = Returned(stack, e)
    BY DEF Constant
  <1>3. Stacked(stack')
    BY <1>1, <1>2, ReturnedOK
  <1> QED BY <1>1, <1>3, Stays DEF Constant

-----------------------------------------------------------------------------
(***************************************************************************)
(* Names                                                                   *)
(***************************************************************************)
LEMMA QualifiedNext ==
    ASSUME TypeOK, NEW p \in Nat
    PROVE  Qualified(p).next \in Nat /\ Qualified(p).next > p
  <1> DEFINE plain == [ok |-> TRUE, class |-> <<>>, id |-> tokens[p].v, next |-> p + 1]
             Member(class, dot) ==
               [ok |-> TRUE, class |-> class, id |-> IF dot + 1 \in DOMAIN tokens THEN tokens[dot + 1].v ELSE "",
                next |-> dot + 2]
             lengths == {n \in 1 .. Len(tokens) : IsDotted(p, n) /\ Dotted(p, n) \in ClassNames}
             shortest == CHOOSE n \in lengths : \A j \in lengths : n <= j
  <1>1. PICK q : q = Qualified(p)
    OBVIOUS
  <1>2. CASE q = plain
    BY <1>2, <1>1
  <1>3. CASE q = [plain EXCEPT !.ok = FALSE]
    <2>1. PICK no : no = FALSE
      OBVIOUS
    <2>2. q = [plain EXCEPT !.ok = no]
      BY <1>3, <2>1
    <2>3. q.next = p + 1
      BY <2>2
    <2> QED BY <1>1, <2>3
  <1>4. ASSUME NEW class, NEW dot \in Nat, dot > p, q = Member(class, dot)
        PROVE  q.next \in Nat /\ q.next > p
    <2>1. q.next = dot + 2
      BY <1>4
    <2> HIDE DEF Member
    <2> QED BY <1>4, <2>1
  <1>5. lengths # {} => shortest \in Nat
    <2>1. lengths \subseteq Nat
      BY TokensAre
    <2>2. lengths # {} => \E n \in lengths : \A j \in lengths : n <= j
      BY <2>1, SmallestOf
    <2> QED BY <2>1, <2>2
  <1>6. CASE ~IsOp(p + 1, "REFERENCE")
    <2>1. q = plain
      BY <1>1, <1>6 DEF Qualified
    <2> QED BY <1>1, <1>2, <2>1
  <1>7. CASE IsOp(p + 1, "REFERENCE") /\ tokens[p].v \in DOMAIN Imports
    <2>1. CASE Imports[tokens[p].v] \in ClassNames
      <3>1. q = Member(Imports[tokens[p].v], p + 1)
        BY <1>1, <1>7, <2>1 DEF Qualified
      <3>2. p + 1 \in Nat /\ p + 1 > p
        OBVIOUS
      <3> HIDE DEF Member
      <3> QED BY <1>1, <1>4, <3>1, <3>2
    <2>2. CASE Imports[tokens[p].v] \notin ClassNames
      <3>1. q = [plain EXCEPT !.ok = FALSE]
        BY <1>1, <1>7, <2>2 DEF Qualified
      <3> QED BY <1>1, <1>3, <3>1
    <2> QED BY <2>1, <2>2
  <1>8. CASE IsOp(p + 1, "REFERENCE") /\ tokens[p].v \notin DOMAIN Imports
    <2>1. CASE lengths # {}
      <3>1. q = Member(Dotted(p, shortest), p + 2 * shortest + 1)
        BY <1>1, <1>8, <2>1 DEF Qualified
      <3>2. PICK n \in Nat : n = shortest
        BY <1>5, <2>1
      <3> HIDE DEF Member, lengths, shortest
      <3>3. PICK dot \in Nat : dot = p + 2 * n + 1 /\ dot > p
        BY <3>2
      <3>4. q = Member(Dotted(p, n), dot)
        BY <3>1, <3>2, <3>3
      <3> QED BY <1>1, <1>4, <3>3, <3>4
    <2>2. CASE lengths = {}
      <3>1. q = plain
        BY <1>1, <1>8, <2>2 DEF Qualified
      <3> QED BY <1>1, <1>2, <3>1
    <2> QED BY <2>1, <2>2
  <1> QED BY <1>6, <1>7, <1>8

(* A list and an index at their beginning *)
LEMMA NewList ==
    ASSUME NEW make
    PROVE  IsActivation(List(make)) /\ List(make).kind = "list"
  <1>1. PICK none : none = <<>>
    OBVIOUS
  <1>2. IsSeq(none)
    BY <1>1 DEF IsSeq
  <1>3. PICK f : f = [kind |-> "list", make |-> make, items |-> none, comma |-> FALSE]
    OBVIOUS
  <1>4. IsList(f)
    BY <1>2, <1>3 DEF IsList
  <1> QED BY <1>1, <1>3, <1>4 DEF IsActivation, List

LEMMA NewIndex ==
    ASSUME NEW make
    PROVE  IsActivation(Index(make)) /\ Index(make).kind = "index"
  <1>1. PICK none : none = <<>>
    OBVIOUS
  <1>2. IsSeq(none)
    BY <1>1 DEF IsSeq
  <1>3. PICK f : f = [kind |-> "index", make |-> make, items |-> none]
    OBVIOUS
  <1>4. IsIndex(f)
    BY <1>2, <1>3 DEF IsIndex
  <1> QED BY <1>1, <1>3, <1>4 DEF IsActivation, Index

(* An expression calls for a list, for an index and the expression in it. *)
LEMMA BeginListOK ==
    ASSUME NEW s, Stacked(s), Last(s).kind = "expression", NEW make
    PROVE  Stacked(Append(s, List(make)))
  <1>1. PICK f : f = List(make)
    OBVIOUS
  <1>2. IsActivation(f) /\ f.kind = "list"
    BY <1>1, NewList
  <1>3. Calls(Last(s), f)
    BY <1>2 DEF Calls
  <1> QED BY <1>1, <1>2, <1>3, Pushed

LEMMA BeginIndexOK ==
    ASSUME NEW s, Stacked(s), Last(s).kind = "expression", NEW make, NEW end
    PROVE  /\ Stacked(s \o <<Index(make), Expression(end)>>)
           /\ s \o <<Index(make), Expression(end)>> = Append(Append(s, Index(make)), Expression(end))
  <1>1. PICK f, g : f = Index(make) /\ g = Expression(end)
    OBVIOUS
  <1>2. IsActivation(f) /\ f.kind = "index" /\ IsActivation(g) /\ g.kind = "expression"
    BY <1>1, NewIndex, NewExpression DEF Expression
  <1>3. Calls(Last(s), f) /\ Calls(f, g)
    BY <1>2 DEF Calls
  <1>4. PICK t : t = Append(s, f)
    OBVIOUS
  <1>5. Stacked(t) /\ Last(t) = f
    BY <1>2, <1>3, <1>4, Pushed, TopOf, Appended
  <1>6. Stacked(Append(t, g))
    BY <1>2, <1>3, <1>5, Pushed
  <1>7. s \o <<f, g>> = Append(t, g)
    <2>1. PICK R : s \in Seq(R)
      BY TopOf, HasElements
    <2>2. PICK Q : Q = R \cup {f, g}
      OBVIOUS
    <2>3. s \in Seq(Q) /\ f \in Q /\ g \in Q
      BY <2>1, <2>2
    <2> QED BY <1>4, <2>3
  <1> QED BY <1>1, <1>4, <1>6, <1>7

LEMMA NameOK == ASSUME TypeOK, Name PROVE TypeOK'
  <1>1. status = "parsing" /\ Stacked(stack) /\ pos \in Nat \ {0} /\ Last(stack).kind = "expression"
    BY InExpressionFacts DEF Name
  <1>2. UNCHANGED <<source, tokens>>
    BY DEF Name
  <1>3. PICK q : q = Qualified(pos)
    OBVIOUS
  <1>4. q.next \in Nat /\ q.next > pos
    BY <1>1, <1>3, QualifiedNext
  <1>5. pos' \in {pos + 3, q.next, q.next + 1}
    BY <1>3 DEF Name
  <1>6. pos' \in Nat \ {0}
    BY <1>1, <1>4, <1>5
  <1>7. \/ Fail
        \/ UNCHANGED status /\ \E make : stack' = Append(stack, List(make))
        \/ UNCHANGED status /\ \E make : stack' = stack \o <<Index(make), Expression("]")>>
        \/ UNCHANGED status /\ \E e : stack' = Returned(stack, e)
    BY DEF Name, Begin
  <1>8. CASE Fail
    BY <1>1, <1>2, <1>6, <1>8, FailOK
  <1>9. CASE ~Fail
    <2>1. Stacked(stack')
      BY <1>1, <1>7, <1>9, BeginListOK, BeginIndexOK, ReturnedOK
    <2> QED BY <1>1, <1>2, <1>6, <1>7, <1>9, <2>1, Stays
  <1> QED BY <1>8, <1>9

(* The identifiers that parseIdentifier takes at p *)
Lengths(p) == {n \in 0 .. Len(tokens) : IsDotted(p, n)}
Longest(p) == CHOOSE n \in Lengths(p) : \A j \in Lengths(p) : n >= j

LEMMA LongestIs ==
    ASSUME TypeOK, NEW p
    PROVE  Longest(p) \in Lengths(p) /\ Longest(p) \in Nat
  <1>1. PICK m \in Nat : m = Len(tokens)
    BY TokensAre
  <1>2. 0 \in Lengths(p) /\ Lengths(p) \subseteq 0 .. m
    BY <1>1 DEF Lengths, IsDotted
  <1>3. PICK k \in Lengths(p) : \A j \in Lengths(p) : j <= k
    BY <1>2, GreatestOf
  <1>4. \A j \in Lengths(p) : k >= j
    BY <1>2, <1>3
  <1> QED BY <1>2, <1>4 DEF Longest

LEMMA NewCases ==
    ASSUME New
    PROVE  /\ InExpression /\ Is(pos, "new") /\ UNCHANGED <<source, tokens, result>>
           /\ \/ /\ Fail
                 /\ \/ pos' = pos + 1 + 1
                    \/ pos' = pos + 2 * Longest(pos + 1) + 2 + 1
                    \/ pos' = pos + 2 * Longest(pos + 1) + 2 + 1 + 1
              \/ /\ Is(pos + 1, "id") /\ Is(pos + 2 * Longest(pos + 1) + 2, "(")
                 /\ \E make : stack' = Append(stack, List(make))
                 /\ pos' = pos + 2 * Longest(pos + 1) + 2 + 1
                 /\ UNCHANGED status
  BY DEF New, Longest, Lengths, Begin, Is, IsOp

LEMMA NewOK == ASSUME TypeOK, New PROVE TypeOK'
  <1>1. status = "parsing" /\ Stacked(stack) /\ pos \in Nat \ {0} /\ Last(stack).kind = "expression"
    BY NewCases, InExpressionFacts
  <1>2. UNCHANGED <<source, tokens>>
    BY NewCases
  <1>3. Longest(pos + 1) \in Nat
    BY LongestIs
  <1>4. pos' \in Nat \ {0}
    BY <1>1, <1>3, NewCases
  <1>5. CASE Fail
    BY <1>1, <1>2, <1>4, <1>5, FailOK
  <1>6. CASE ~Fail
    <2>1. UNCHANGED status /\ \E make : stack' = Append(stack, List(make))
      BY <1>6, NewCases
    <2>2. Stacked(stack')
      BY <1>1, <2>1, BeginListOK
    <2> QED BY <1>1, <1>2, <1>4, <2>1, <2>2, Stays
  <1> QED BY <1>5, <1>6

LEMMA FunctionValueOK == ASSUME TypeOK, FunctionValue PROVE TypeOK'
  <1>1. status = "parsing" /\ Stacked(stack) /\ pos \in Nat \ {0} /\ Last(stack).kind = "expression"
    BY InExpressionFacts DEF FunctionValue
  <1>2. PICK f : f = Statement("function")
    OBVIOUS
  <1>3. IsActivation(f) /\ f.kind = "statement" /\ f.form = "function"
    BY <1>2, FormNames, NewStatement
  <1>4. Calls(Last(stack), f)
    BY <1>1, <1>3 DEF Calls
  <1>5. Stacked(Append(stack, f))
    BY <1>1, <1>3, <1>4, Pushed
  <1> QED BY <1>1, <1>2, <1>5, Stays DEF FunctionValue, Begin

LEMMA NoValueOK == ASSUME TypeOK, NoValue PROVE TypeOK'
  <1>1. status = "parsing" /\ Stacked(stack) /\ pos \in Nat \ {0}
    BY InExpressionFacts DEF NoValue
  <1>2. pos' \in Nat \ {0} /\ Fail /\ UNCHANGED <<source, tokens>>
    BY <1>1 DEF NoValue
  <1> QED BY <1>1, <1>2, FailOK

-----------------------------------------------------------------------------
(***************************************************************************)
(* Lists and indexes, and the theorem                                      *)
(***************************************************************************)
LEMMA TopList ==
    ASSUME TypeOK, Parsing("list")
    PROVE  /\ status = "parsing" /\ Stacked(stack) /\ pos \in Nat \ {0} /\ Len(stack) > 1
           /\ Last(stack).kind = "list" /\ IsList(Last(stack))
  <1>1. status = "parsing" /\ Stacked(stack) /\ pos \in Nat \ {0} /\ Last(stack).kind = "list"
    BY DEF TypeOK, Parsing, Top
  <1>2. IsActivation(Last(stack))
    BY <1>1, TopOf
  <1>3. IsList(Last(stack))
    BY <1>1, <1>2 DEF IsActivation, IsStatement, IsBlock, IsExpression, IsList, IsIndex
  <1> QED BY <1>1, <1>3, NotFirst

LEMMA ListGoesOn ==
    ASSUME TypeOK, Parsing("list")
    PROVE  Stacked(Append(Below, [Top EXCEPT !.comma = FALSE]))
  <1>1. IsList(Last(stack)) /\ Stacked(stack)
    BY TopList
  <1>2. PICK make, items, comma : Last(stack) = [kind |-> "list", make |-> make, items |-> items, comma |-> comma]
    BY <1>1 DEF IsList
  <1>3. IsSeq(items)
    BY <1>1, <1>2 DEF IsList
  <1>4. PICK t : t = Last(stack)
    OBVIOUS
  <1>5. PICK f : f = [kind |-> "list", make |-> make, items |-> items, comma |-> FALSE]
    OBVIOUS
  <1>6. [t EXCEPT !.comma = FALSE] = f
    <2>1. t = [kind |-> "list", make |-> make, items |-> items, comma |-> comma]
      BY <1>2, <1>4
    <2>2. PICK no : no = FALSE
      OBVIOUS
    <2>3. [t EXCEPT !.comma = no] = [kind |-> "list", make |-> make, items |-> items, comma |-> no]
      BY <2>1
    <2> QED BY <1>5, <2>2, <2>3
  <1>7. IsActivation(f) /\ f.kind = "list"
    BY <1>3, <1>5 DEF IsActivation, IsList
  <1>8. Alike(Last(stack), f)
    BY <1>2, <1>7 DEF Alike
  <1>9. Stacked(Append(Front(stack), f))
    BY <1>1, <1>7, <1>8, Replaced
  <1> QED BY <1>4, <1>6, <1>9 DEF Below, Top

LEMMA ListStepOK == ASSUME TypeOK, ListStep PROVE TypeOK'
  <1>1. Parsing("list") /\ UNCHANGED <<source, tokens>>
    BY DEF ListStep
  <1>2. /\ status = "parsing" /\ Stacked(stack) /\ pos \in Nat \ {0} /\ Len(stack) > 1
        /\ Last(stack).kind = "list"
    BY <1>1, TopList
  <1>3. pos' \in Nat \ {0}
    <2>1. pos' = pos \/ pos' = pos + 1
      BY DEF ListStep
    <2> QED BY <1>2, <2>1
  <1>4. \/ Fail
        \/ UNCHANGED status /\ \E e : stack' = Returned(Below, e)
        \/ UNCHANGED status /\ stack' = Append(stack, Expression("any"))
        \/ UNCHANGED status /\ stack' = Append(Below, [Top EXCEPT !.comma = FALSE])
    BY DEF ListStep, Begin, Become
  <1>5. CASE Fail
    BY <1>1, <1>2, <1>3, <1>5, FailOK
  <1>6. Stacked(Append(stack, Expression("any")))
    <2>1. PICK f : f = Expression("any")
      OBVIOUS
    <2>2. IsActivation(f) /\ f.kind = "expression"
      BY <2>1, NewExpression DEF Expression
    <2>3. Calls(Last(stack), f)
      BY <1>2, <2>2 DEF Calls
    <2> QED BY <1>2, <2>1, <2>2, <2>3, Pushed
  <1>7. \A e : Stacked(Returned(Below, e))
    BY <1>2, ReturnsBelow DEF Below
  <1>8. CASE ~Fail
    <2>1. Stacked(stack')
      BY <1>1, <1>4, <1>6, <1>7, <1>8, ListGoesOn
    <2> QED BY <1>1, <1>2, <1>3, <1>4, <1>8, <2>1, Stays
  <1> QED BY <1>5, <1>8

LEMMA IndexEndOK == ASSUME TypeOK, IndexEnd PROVE TypeOK'
  <1>1. status = "parsing" /\ Stacked(stack) /\ pos \in Nat \ {0} /\ Last(stack).kind = "index"
    BY DEF TypeOK, IndexEnd, Parsing, Top
  <1>2. Len(stack) > 1
    BY <1>1, NotFirst
  <1>3. pos' \in Nat \ {0} /\ UNCHANGED <<source, tokens>>
    BY <1>1 DEF IndexEnd
  <1>4. Fail \/ \E e : stack' = Returned(Below, e) /\ UNCHANGED status
    BY DEF IndexEnd
  <1>5. CASE Fail
    BY <1>1, <1>3, <1>5, FailOK
  <1>6. ASSUME NEW e, stack' = Returned(Below, e), UNCHANGED status PROVE TypeOK'
    <2>1. Stacked(stack')
      BY <1>1, <1>2, <1>6, ReturnsBelow DEF Below
    <2> QED BY <1>1, <1>3, <1>6, <2>1, Stays
  <1> QED BY <1>4, <1>5, <1>6

LEMMA InitOK == ASSUME Init PROVE TypeOK
  <1>1. PICK f : f = Statement("function")
    OBVIOUS
  <1>2. IsActivation(f) /\ f.kind = "statement" /\ f.form = "function"
    BY <1>1, FormNames, NewStatement
  <1>3. PICK s : s = <<f>>
    OBVIOUS
  <1>4. Len(s) = 1 /\ s[1] = f /\ s # <<>>
    BY <1>3
  <1>5. IsSeq(s)
    BY <1>3, <1>4 DEF IsSeq
  <1>6. Calls(Under(s, 1), s[1])
    BY <1>2, <1>4 DEF Calls, Under, Ground
  <1>7. Stacked(s)
    BY <1>2, <1>4, <1>5, <1>6 DEF Stacked
  <1>8. IsSeq(tokens)
    BY WrittenAssumption DEF Init
  <1> QED BY <1>1, <1>3, <1>7, <1>8 DEF Init, TypeOK

LEMMA NextOK == ASSUME TypeOK, [Next]_vars PROVE TypeOK'
  <1>1. CASE Op
    BY <1>1, OpGoesOn, GoesOnOK DEF Op, InExpression
  <1>2. CASE Open
    BY <1>2, OpenGoesOn, GoesOnOK DEF Open, InExpression
  <1>3. CASE Close
    BY <1>3, CloseGoesOn, GoesOnOK DEF Close, InExpression
  <1>4. CASE UNCHANGED vars
    BY <1>4 DEF TypeOK, vars, Top
  <1>5. CASE BlockEnd \/ BeginStatement \/ Expect \/ BeginExpression \/ BeginBlock \/ Params
    BY <1>5, BlockEndOK, BeginStatementOK, ExpectOK, BeginExpressionOK, BeginBlockOK, ParamsOK
  <1>6. CASE Declare \/ ReturnValue \/ CatchName \/ Else \/ SingleEnd \/ Complete
    BY <1>6, DeclareOK, ReturnValueOK, CatchNameOK, ElseOK, SingleEndOK, CompleteOK
  <1>7. CASE ExpressionEnd \/ Constant \/ Name \/ New \/ FunctionValue \/ NoValue
    BY <1>7, ExpressionEndOK, ConstantOK, NameOK, NewOK, FunctionValueOK, NoValueOK
  <1>8. CASE ListStep \/ IndexEnd
    BY <1>8, ListStepOK, IndexEndOK
  <1> QED BY <1>1, <1>2, <1>3, <1>4, <1>5, <1>6, <1>7, <1>8 DEF Next, Parse, Over

(***************************************************************************)
(* Every activation is called by one that waits for it, counts the         *)
(* brackets that are among its operators, and is where its form goes on.   *)
(***************************************************************************)
THEOREM TypeTheorem == Spec => []TypeOK
  <1>1. Init => TypeOK
    BY InitOK
  <1>2. TypeOK /\ [Next]_vars => TypeOK'
    BY NextOK
  <1> QED BY <1>1, <1>2, PTL DEF Spec

-----------------------------------------------------------------------------
(***************************************************************************)
(* buildTree                                                               *)
(***************************************************************************)
(* What TreesAt says of one element, of any function for the others *)
Operands(f, has, rest) == IF has THEN f[rest] ELSE {[e |-> Null, rest |-> rest]}

Applied(f, op, n) ==
    UNION {{[e |-> Combined(op, left.e, right.e), rest |-> left.rest]
            : left \in {t \in Operands(f, HasLeft(op), right.rest) : Combines(op, t.e)}}
           : right \in Operands(f, HasRight(op), n - 1)}

TreeAt(queue, f, n) ==
    IF n = 0 \/ queue[n] = Bracket THEN {}
    ELSE IF queue[n].type # "operator" THEN {[e |-> queue[n], rest |-> n - 1]}
    ELSE Applied(f, queue[n].op, n)

Building(queue, f, k) == f = [n \in 0 .. k |-> TreeAt(queue, f, n)]

(* An operator is applied to what is before it, and leaves less than that. *)
LEMMA AppliedTo ==
    ASSUME NEW f, NEW op, NEW n, NEW tree
    PROVE  tree \in Applied(f, op, n) <=>
             \E right \in Operands(f, HasRight(op), n - 1) :
               \E left \in Operands(f, HasLeft(op), right.rest) :
                 Combines(op, left.e) /\ tree = [e |-> Combined(op, left.e, right.e), rest |-> left.rest]
  BY DEF Applied

LEMMA AppliedSame ==
    ASSUME NEW n \in Nat \ {0}, NEW f, NEW g, \A i \in 0 .. n - 1 : f[i] = g[i],
           \A t \in f[n - 1] : t.rest \in 0 .. n - 2, NEW op
    PROVE  Applied(f, op, n) = Applied(g, op, n)
  <1>1. Operands(f, HasRight(op), n - 1) = Operands(g, HasRight(op), n - 1)
    BY DEF Operands
  <1>2. ASSUME NEW right \in Operands(f, HasRight(op), n - 1)
        PROVE  Operands(f, HasLeft(op), right.rest) = Operands(g, HasLeft(op), right.rest)
    <2>1. right.rest \in 0 .. n - 1
      BY DEF Operands
    <2> QED BY <2>1 DEF Operands
  <1>3. ASSUME NEW tree PROVE tree \in Applied(f, op, n) <=> tree \in Applied(g, op, n)
    BY <1>1, <1>2, AppliedTo
  <1> QED BY <1>3

LEMMA TreeAtSame ==
    ASSUME NEW n \in Nat, NEW f, NEW g, \A i \in 0 .. n - 1 : f[i] = g[i],
           n # 0 => \A t \in f[n - 1] : t.rest \in 0 .. n - 2, NEW queue
    PROVE  TreeAt(queue, f, n) = TreeAt(queue, g, n)
  <1>1. CASE n = 0
    BY <1>1 DEF TreeAt
  <1>2. CASE n # 0
    BY <1>2, AppliedSame DEF TreeAt
  <1> QED BY <1>1, <1>2

Leaves(f, k) == \A n \in 0 .. k : \A t \in f[n] : t.rest \in 0 .. n - 1

LEMMA TreeAtLeaves ==
    ASSUME NEW queue, NEW f, NEW n \in Nat, n # 0 => Leaves(f, n - 1)
    PROVE  \A t \in TreeAt(queue, f, n) : t.rest \in 0 .. n - 1
  <1> SUFFICES ASSUME NEW t \in TreeAt(queue, f, n) PROVE t.rest \in 0 .. n - 1
    OBVIOUS
  <1>1. n # 0 /\ queue[n] # Bracket
    BY DEF TreeAt
  <1>2. CASE queue[n].type # "operator"
    BY <1>1, <1>2 DEF TreeAt
  <1>3. CASE queue[n].type = "operator"
    <2>1. PICK op : op = queue[n].op /\ t \in Applied(f, op, n)
      BY <1>1, <1>3 DEF TreeAt
    <2>2. PICK right \in Operands(f, HasRight(op), n - 1) :
            \E left \in Operands(f, HasLeft(op), right.rest) :
              Combines(op, left.e) /\ t = [e |-> Combined(op, left.e, right.e), rest |-> left.rest]
      BY <2>1, AppliedTo
    <2>3. PICK left \in Operands(f, HasLeft(op), right.rest) : t.rest = left.rest
      BY <2>2
    <2>4. right.rest \in 0 .. n - 1
      <3>1. CASE HasRight(op)
        <4>1. right \in f[n - 1] /\ n - 1 \in 0 .. n - 1
          BY <1>1, <3>1 DEF Operands
        <4>2. right.rest \in 0 .. n - 1 - 1
          BY <1>1, <4>1 DEF Leaves
        <4> QED BY <4>2
      <3>2. CASE ~HasRight(op)
        <4>1. right.rest = n - 1
          BY <3>2 DEF Operands
        <4> QED BY <1>1, <4>1
      <3> QED BY <3>1, <3>2
    <2>5. left.rest \in 0 .. n - 1
      <3>1. PICK r \in 0 .. n - 1 : r = right.rest
        BY <2>4
      <3>2. CASE HasLeft(op)
        <4>1. left \in f[r]
          BY <3>1, <3>2 DEF Operands
        <4>2. left.rest \in 0 .. r - 1
          BY <1>1, <3>1, <4>1 DEF Leaves
        <4> QED BY <3>1, <4>2
      <3>3. CASE ~HasLeft(op)
        BY <3>1, <3>3 DEF Operands
      <3> QED BY <3>2, <3>3
    <2> QED BY <2>3, <2>5
  <1> QED BY <1>2, <1>3

LEMMA BuildingExists ==
    ASSUME NEW queue, NEW m \in Nat
    PROVE  \E f : Building(queue, f, m) /\ Leaves(f, m)
  <1> DEFINE Upto(k) == \E f : Building(queue, f, k) /\ Leaves(f, k)
             T == {k \in Nat : Upto(k)}
  <1>1. Upto(0)
    <2>1. PICK f : f = [n \in 0 .. 0 |-> {}]
      OBVIOUS
    <2>2. \A n \in 0 .. 0 : TreeAt(queue, f, n) = {}
      BY DEF TreeAt
    <2>3. Building(queue, f, 0)
      BY <2>1, <2>2 DEF Building
    <2>4. Leaves(f, 0)
      BY <2>1 DEF Leaves
    <2> QED BY <2>3, <2>4
  <1>2. ASSUME NEW k \in Nat, Upto(k) PROVE Upto(k + 1)
    <2>1. PICK f : Building(queue, f, k) /\ Leaves(f, k)
      BY <1>2
    <2>2. PICK g : g = [n \in 0 .. k + 1 |-> IF n <= k THEN f[n] ELSE TreeAt(queue, f, n)]
      OBVIOUS
    <2>3. \A n \in 0 .. k : g[n] = f[n]
      BY <2>2
    <2>4. ASSUME NEW n \in 0 .. k + 1 PROVE g[n] = TreeAt(queue, g, n) /\ \A t \in g[n] : t.rest \in 0 .. n - 1
      <3>1. \A i \in 0 .. n - 1 : f[i] = g[i]
        BY <2>3
      <3>2. n # 0 => \A t \in f[n - 1] : t.rest \in 0 .. n - 2
        <4>1. n # 0 => n - 1 \in 0 .. k /\ n - 1 - 1 = n - 2
          OBVIOUS
        <4> QED BY <2>1, <4>1 DEF Leaves
      <3>3. TreeAt(queue, f, n) = TreeAt(queue, g, n)
        BY <3>1, <3>2, TreeAtSame
      <3>4. g[n] = TreeAt(queue, f, n)
        <4>1. CASE n <= k
          <5>1. n \in 0 .. k
            BY <4>1
          <5>2. f[n] = TreeAt(queue, f, n)
            BY <2>1, <5>1 DEF Building
          <5> QED BY <2>3, <5>1, <5>2
        <4>2. CASE ~(n <= k)
          BY <2>2, <4>2
        <4> QED BY <4>1, <4>2
      <3>5. n # 0 => Leaves(f, n - 1)
        BY <2>1 DEF Leaves
      <3>6. \A t \in g[n] : t.rest \in 0 .. n - 1
        BY <3>4, <3>5, TreeAtLeaves
      <3> QED BY <3>3, <3>4, <3>6
    <2>5. g = [n \in 0 .. k + 1 |-> g[n]]
      BY <2>2
    <2>6. Building(queue, g, k + 1)
      BY <2>4, <2>5, Zenon DEF Building
    <2>7. Leaves(g, k + 1)
      BY <2>4 DEF Leaves
    <2> QED BY <2>6, <2>7
  <1> HIDE DEF Upto
  <1>3. 0 \in T /\ \A k \in Nat : k \in T => k + 1 \in T
    BY <1>1, <1>2
  <1> HIDE DEF T
  <1>4. Nat \subseteq T
    BY <1>3, Induction
  <1>5. m \in T
    BY <1>4
  <1>6. Upto(m)
    BY <1>5 DEF T
  <1> QED BY <1>6 DEF Upto

(* An element that leaves its operands is what TreesAt says it is. *)
LEMMA TreesAtIs ==
    ASSUME NEW queue, IsSeq(queue)
    PROVE  \A n \in 0 .. Len(queue) : TreesAt(queue)[n] = TreeAt(queue, TreesAt(queue), n)
  <1>1. \E f : Building(queue, f, Len(queue))
    BY BuildingExists DEF IsSeq
  <1>2. TreesAt(queue) = CHOOSE f : Building(queue, f, Len(queue))
    BY DEF TreesAt, Building, TreeAt, Applied, Operands
  <1>3. Building(queue, TreesAt(queue), Len(queue))
    BY <1>1, <1>2, Zenon
  <1> QED BY <1>3 DEF Building

LEMMA CombinedPlain ==
    ASSUME NEW op, NEW l, NEW r
    PROVE  Plain(Combined(op, l, r))
  <1>1. CASE op \in {"ADD", "MUL"} /\ l.type = r.type /\ l.type \in {"int", "double"}
    <2>1. Combined(op, l, r).type = l.type
      BY <1>1 DEF Combined
    <2> QED BY <1>1, <2>1 DEF Plain
  <1>2. CASE ~(op \in {"ADD", "MUL"} /\ l.type = r.type /\ l.type \in {"int", "double"})
    <2>1. Combined(op, l, r).type = "oper"
      BY <1>2 DEF Combined, Oper
    <2> QED BY <2>1 DEF Plain
  <1> QED BY <1>1, <1>2

LEMMA TreesPlain ==
    ASSUME NEW queue, IsSeq(queue), \A i \in 1 .. Len(queue) : Plain(queue[i]), NEW t \in Trees(queue)
    PROVE  Plain(t.e)
  <1>1. PICK n \in Nat : n = Len(queue)
    BY DEF IsSeq
  <1>2. PICK f : f = TreesAt(queue)
    OBVIOUS
  <1>3. t \in TreeAt(queue, f, n)
    BY <1>1, <1>2, TreesAtIs DEF Trees
  <1>4. n # 0
    BY <1>3 DEF TreeAt
  <1>5. CASE queue[n].type # "operator"
    <2>1. t.e = queue[n]
      BY <1>3, <1>5 DEF TreeAt
    <2> QED BY <1>1, <1>4, <2>1
  <1>6. CASE queue[n].type = "operator"
    <2>1. t \in Applied(f, queue[n].op, n)
      BY <1>3, <1>6 DEF TreeAt
    <2>2. PICK op, l, r : t.e = Combined(op, l, r)
      BY <2>1, AppliedTo
    <2> QED BY <2>2, CombinedPlain
  <1> QED BY <1>5, <1>6

(* Nothing is built over a bracket that was left open. *)
LEMMA NoTrees ==
    ASSUME NEW queue, IsSeq(queue), NEW m \in 1 .. Len(queue), queue[m] = Bracket,
           \A i \in m .. Len(queue) : queue[i] = Bracket \/ queue[i].type = "operator"
    PROVE  Trees(queue) = {}
  <1>1. PICK last \in Nat : last = Len(queue)
    BY DEF IsSeq
  <1>2. PICK f : f = TreesAt(queue)
    OBVIOUS
  <1>3. \A n \in 0 .. last : f[n] = TreeAt(queue, f, n)
    BY <1>1, <1>2, TreesAtIs
  <1> DEFINE T == {k \in Nat : m + k <= last => f[m + k] = {}}
  <1>4. m \in 1 .. last
    BY <1>1
  <1>5. 0 \in T
    <2>1. f[m] = TreeAt(queue, f, m)
      BY <1>3, <1>4
    <2>2. f[m] = {}
      BY <2>1 DEF TreeAt
    <2> QED BY <1>4, <2>2
  <1>6. ASSUME NEW k \in Nat, k \in T, m + (k + 1) <= last PROVE f[m + (k + 1)] = {}
    <2>1. PICK n \in 1 .. last : n = m + (k + 1)
      BY <1>4, <1>6
    <2>2. f[n - 1] = {}
      <3>1. m + k <= last /\ n - 1 = m + k
        BY <1>4, <1>6, <2>1
      <3> QED BY <1>6, <3>1
    <2> DEFINE here == TreeAt(queue, f, n)
    <2> HIDE DEF here
    <2>3. f[n] = here
      BY <1>3, <2>1 DEF here
    <2>4. CASE queue[n] = Bracket
      <3>1. here = {}
        BY <2>4 DEF TreeAt, here
      <3> QED BY <2>1, <2>3, <3>1
    <2>5. CASE queue[n] # Bracket
      <3>1. queue[n].type = "operator"
        BY <1>1, <1>4, <2>1, <2>5
      <3>2. PICK op : f[n] = Applied(f, op, n)
        <4>1. here = Applied(f, queue[n].op, n)
          BY <2>1, <2>5, <3>1 DEF TreeAt, here
        <4> QED BY <2>3, <4>1
      <3>3. ASSUME NEW t \in Applied(f, op, n) PROVE FALSE
        <4>1. PICK right \in Operands(f, HasRight(op), n - 1) : \E left : left \in Operands(f, HasLeft(op), right.rest)
          BY <3>3, AppliedTo
        <4>2. ~HasRight(op)
          BY <2>2, <4>1 DEF Operands
        <4>3. right.rest = n - 1 /\ HasLeft(op)
          BY <4>1, <4>2 DEF Operands, HasRight, HasLeft
        <4> QED BY <2>2, <4>1, <4>3 DEF Operands
      <3> QED BY <2>1, <3>2, <3>3
    <2> QED BY <2>1, <2>4, <2>5
  <1>7. \A k \in Nat : k \in T => k + 1 \in T
    BY <1>6
  <1> HIDE DEF T
  <1>8. Nat \subseteq T
    BY <1>5, <1>7, Induction
  <1>9. last - m \in T
    BY <1>4, <1>8
  <1>10. f[last] = {}
    <2>1. m + (last - m) = last /\ m + (last - m) <= last
      BY <1>4
    <2> QED BY <1>9, <2>1 DEF T
  <1> QED BY <1>1, <1>2, <1>10 DEF Trees

-----------------------------------------------------------------------------
(***************************************************************************)
(* What has been read.  S is a set of blocks with all the blocks that are  *)
(* numbered with them: those that are finished belong to one.              *)
(***************************************************************************)
Numbers == {"if", "for"}

Inner(b) == UNION {Nested(b, type) : type \in Numbers}

Sound(S) == \A b \in S : Len(b.vars) \in Nat /\ Inner(b) \subseteq S

(* A statement of a block *)
Element(e, S) ==
    /\ e.type = "if" => e.then \in S /\ (e.else = Null \/ e.else \in S)
    /\ e.type = "for" => e.body \in S

(* How many parts a statement has before an item *)
Gathered(form, at) ==
    CASE form = "function" -> IF at = 1 THEN 0 ELSE IF at <= 3 THEN 1 ELSE 2
      [] form = "if" -> IF at <= 2 THEN 0 ELSE IF at <= 5 THEN 1 ELSE IF at = 6 THEN 2 ELSE 3
      [] form = "for" -> IF at <= 2 THEN 0 ELSE IF at <= 4 THEN 1 ELSE IF at <= 6 THEN 2 ELSE IF at <= 9 THEN 3 ELSE 4
      [] form = "while" -> IF at <= 2 THEN 0 ELSE IF at <= 5 THEN 1 ELSE 2

Counted == {"function", "if", "for", "while"}

(* The ith part of a statement *)
PartFits(form, i, p, S) ==
    /\ form = "function" /\ i = 1 => IsSeq(p)
    /\ form = "function" /\ i = 2 => p \in S
    /\ form = "if" /\ i = 2 => p \in S
    /\ form = "if" /\ i = 3 => p = Null \/ p \in S
    /\ form = "for" /\ i = 4 => p \in S
    /\ form = "while" /\ i = 2 => p \in S
    /\ form \in {"var", "expression"} => Plain(p)

(* An activation *)
Fits(f, S) ==
    /\ f.kind = "statement" =>
         /\ f.form \in Counted => Len(f.parts) = Gathered(f.form, f.at)
         /\ \A i \in 1 .. Len(f.parts) : PartFits(f.form, i, f.parts[i], S)
    /\ f.kind = "block" => \A i \in 1 .. Len(f.code) : Element(f.code[i], S)
    /\ f.kind = "expression" => \A i \in 1 .. Len(f.queue) : Plain(f.queue[i])

Filled(s, S) == \A k \in 1 .. Len(s) : Fits(s[k], S)

(* What an activation may receive *)
Accepts(f, e, S) ==
    /\ f.kind = "statement" =>
         /\ Asks(f) \in {"PARAMS", "EXPR", "BLOCK", "ELSE", "VALUE", "NAME"}
         /\ Asks(f) = "PARAMS" => IsSeq(e)
         /\ Asks(f) = "EXPR" => Plain(e)
         /\ Asks(f) = "BLOCK" => e \in S
         /\ Asks(f) = "ELSE" => e = Null \/ e \in S
    /\ f.kind = "expression" => Plain(e)
    /\ f.kind = "block" => Element(e, S)

(* Items that add a part, and those that add none: g parts are there before, h after. *)
Turn(form, item, g, h) ==
    /\ form \in Counted => g \in Nat
    /\ form \in Counted /\ item \in {"(", ")", "{", ";", "catch"} => h = g
    /\ form \in Counted /\ item \in {"PARAMS", "EXPR", "BLOCK", "ELSE", "VALUE", "NAME"} => h = g + 1
    /\ item = "EXPR" =>
         /\ form # "function"
         /\ form \in {"if", "while"} => g = 0
         /\ form = "for" => g \in {0, 1, 2}
    /\ item = "BLOCK" =>
         /\ form \notin {"var", "expression"}
         /\ form \in {"function", "if", "while"} => g = 1
         /\ form = "for" => g = 3
    /\ item = "ELSE" => form = "if" /\ g = 2
    /\ item = "PARAMS" => form = "function" /\ g = 0
    /\ item = "VALUE" => form = "return"
    /\ item = "NAME" => form = "try"
    /\ form \in {"var", "expression"} => item \in {"DECLARE", "EXPR", ";"}

LEMMA Gathers ==
    ASSUME NEW form \in DOMAIN Forms, NEW at \in 1 .. Len(Forms[form])
    PROVE  Turn(form, Forms[form][at], Gathered(form, at), Gathered(form, at + 1))
  <1> DEFINE goal(a) == Turn(form, Forms[form][a], Gathered(form, a), Gathered(form, a + 1))
  <1>1. form \in {"function", "var", "if", "for", "while", "return", "try", "throw", "expression"}
    BY FormNames
  <1>2. PICK n \in Nat : n = Len(Forms[form])
    BY FormLength
  <1>3. at \in 1 .. n
    BY <1>2
  <1>4. CASE form = "function"
    <2>1. goal(1)
      <3>1. Forms[form][1] = "PARAMS"
        BY <1>4, FormFunction
      <3>2. Gathered(form, 1) = 0 /\ Gathered(form, 1 + 1) = 1
        BY <1>4 DEF Gathered
      <3>3. Turn(form, "PARAMS", 0, 1)
        BY <1>4 DEF Turn, Counted
      <3> QED BY <3>1, <3>2, <3>3, Zenon
    <2>2. goal(2)
      <3>1. Forms[form][2] = "{"
        BY <1>4, FormFunction
      <3>2. Gathered(form, 2) = 1 /\ Gathered(form, 2 + 1) = 1
        BY <1>4 DEF Gathered
      <3>3. Turn(form, "{", 1, 1)
        BY <1>4 DEF Turn, Counted
      <3> QED BY <3>1, <3>2, <3>3, Zenon
    <2>3. goal(3)
      <3>1. Forms[form][3] = "BLOCK"
        BY <1>4, FormFunction
      <3>2. Gathered(form, 3) = 1 /\ Gathered(form, 3 + 1) = 2
        BY <1>4 DEF Gathered
      <3>3. Turn(form, "BLOCK", 1, 2)
        BY <1>4 DEF Turn, Counted
      <3> QED BY <3>1, <3>2, <3>3, Zenon
    <2>4. n = 3
      BY <1>2, <1>4, FormFunction
    <2>5. at \in {1, 2, 3}
      BY <1>3, <2>4
    <2> QED BY <2>1, <2>2, <2>3, <2>5, Zenon
  <1>5. CASE form = "var"
    <2>1. goal(1)
      <3>1. Forms[form][1] = "DECLARE"
        BY <1>5, FormVar
      <3>2. \A g, h : Turn(form, "DECLARE", g, h)
        BY <1>5 DEF Turn, Counted
      <3> QED BY <3>1, <3>2, Zenon
    <2>2. goal(2)
      <3>1. Forms[form][2] = "EXPR"
        BY <1>5, FormVar
      <3>2. \A g, h : Turn(form, "EXPR", g, h)
        BY <1>5 DEF Turn, Counted
      <3> QED BY <3>1, <3>2, Zenon
    <2>3. goal(3)
      <3>1. Forms[form][3] = ";"
        BY <1>5, FormVar
      <3>2. \A g, h : Turn(form, ";", g, h)
        BY <1>5 DEF Turn, Counted
      <3> QED BY <3>1, <3>2, Zenon
    <2>4. n = 3
      BY <1>2, <1>5, FormVar
    <2>5. at \in {1, 2, 3}
      BY <1>3, <2>4
    <2> QED BY <2>1, <2>2, <2>3, <2>5, Zenon
  <1>6. CASE form = "if"
    <2>1. goal(1)
      <3>1. Forms[form][1] = "("
        BY <1>6, FormIf
      <3>2. Gathered(form, 1) = 0 /\ Gathered(form, 1 + 1) = 0
        BY <1>6 DEF Gathered
      <3>3. Turn(form, "(", 0, 0)
        BY <1>6 DEF Turn, Counted
      <3> QED BY <3>1, <3>2, <3>3, Zenon
    <2>2. goal(2)
      <3>1. Forms[form][2] = "EXPR"
        BY <1>6, FormIf
      <3>2. Gathered(form, 2) = 0 /\ Gathered(form, 2 + 1) = 1
        BY <1>6 DEF Gathered
      <3>3. Turn(form, "EXPR", 0, 1)
        BY <1>6 DEF Turn, Counted
      <3> QED BY <3>1, <3>2, <3>3, Zenon
    <2>3. goal(3)
      <3>1. Forms[form][3] = ")"
        BY <1>6, FormIf
      <3>2. Gathered(form, 3) = 1 /\ Gathered(form, 3 + 1) = 1
        BY <1>6 DEF Gathered
      <3>3. Turn(form, ")", 1, 1)
        BY <1>6 DEF Turn, Counted
      <3> QED BY <3>1, <3>2, <3>3, Zenon
    <2>4. goal(4)
      <3>1. Forms[form][4] = "{"
        BY <1>6, FormIf
      <3>2. Gathered(form, 4) = 1 /\ Gathered(form, 4 + 1) = 1
        BY <1>6 DEF Gathered
      <3>3. Turn(form, "{", 1, 1)
        BY <1>6 DEF Turn, Counted
      <3> QED BY <3>1, <3>2, <3>3, Zenon
    <2>5. goal(5)
      <3>1. Forms[form][5] = "BLOCK"
        BY <1>6, FormIf
      <3>2. Gathered(form, 5) = 1 /\ Gathered(form, 5 + 1) = 2
        BY <1>6 DEF Gathered
      <3>3. Turn(form, "BLOCK", 1, 2)
        BY <1>6 DEF Turn, Counted
      <3> QED BY <3>1, <3>2, <3>3, Zenon
    <2>6. goal(6)
      <3>1. Forms[form][6] = "ELSE"
        BY <1>6, FormIf
      <3>2. Gathered(form, 6) = 2 /\ Gathered(form, 6 + 1) = 3
        BY <1>6 DEF Gathered
      <3>3. Turn(form, "ELSE", 2, 3)
        BY <1>6 DEF Turn, Counted
      <3> QED BY <3>1, <3>2, <3>3, Zenon
    <2>7. n = 6
      BY <1>2, <1>6, FormIf
    <2>8. at \in {1, 2, 3, 4, 5, 6}
      BY <1>3, <2>7
    <2> QED BY <2>1, <2>2, <2>3, <2>4, <2>5, <2>6, <2>8, Zenon
  <1>7. CASE form = "for"
    <2>1. goal(1)
      <3>1. Forms[form][1] = "("
        BY <1>7, FormFor
      <3>2. Gathered(form, 1) = 0 /\ Gathered(form, 1 + 1) = 0
        BY <1>7 DEF Gathered
      <3>3. Turn(form, "(", 0, 0)
        BY <1>7 DEF Turn, Counted
      <3> QED BY <3>1, <3>2, <3>3, Zenon
    <2>2. goal(2)
      <3>1. Forms[form][2] = "EXPR"
        BY <1>7, FormFor
      <3>2. Gathered(form, 2) = 0 /\ Gathered(form, 2 + 1) = 1
        BY <1>7 DEF Gathered
      <3>3. Turn(form, "EXPR", 0, 1)
        BY <1>7 DEF Turn, Counted
      <3> QED BY <3>1, <3>2, <3>3, Zenon
    <2>3. goal(3)
      <3>1. Forms[form][3] = ";"
        BY <1>7, FormFor
      <3>2. Gathered(form, 3) = 1 /\ Gathered(form, 3 + 1) = 1
        BY <1>7 DEF Gathered
      <3>3. Turn(form, ";", 1, 1)
        BY <1>7 DEF Turn, Counted
      <3> QED BY <3>1, <3>2, <3>3, Zenon
    <2>4. goal(4)
      <3>1. Forms[form][4] = "EXPR"
        BY <1>7, FormFor
      <3>2. Gathered(form, 4) = 1 /\ Gathered(form, 4 + 1) = 2
        BY <1>7 DEF Gathered
      <3>3. Turn(form, "EXPR", 1, 2)
        BY <1>7 DEF Turn, Counted
      <3> QED BY <3>1, <3>2, <3>3, Zenon
    <2>5. goal(5)
      <3>1. Forms[form][5] = ";"
        BY <1>7, FormFor
      <3>2. Gathered(form, 5) = 2 /\ Gathered(form, 5 + 1) = 2
        BY <1>7 DEF Gathered
      <3>3. Turn(form, ";", 2, 2)
        BY <1>7 DEF Turn, Counted
      <3> QED BY <3>1, <3>2, <3>3, Zenon
    <2>6. goal(6)
      <3>1. Forms[form][6] = "EXPR"
        BY <1>7, FormFor
      <3>2. Gathered(form, 6) = 2 /\ Gathered(form, 6 + 1) = 3
        BY <1>7 DEF Gathered
      <3>3. Turn(form, "EXPR", 2, 3)
        BY <1>7 DEF Turn, Counted
      <3> QED BY <3>1, <3>2, <3>3, Zenon
    <2>7. goal(7)
      <3>1. Forms[form][7] = ")"
        BY <1>7, FormFor
      <3>2. Gathered(form, 7) = 3 /\ Gathered(form, 7 + 1) = 3
        BY <1>7 DEF Gathered
      <3>3. Turn(form, ")", 3, 3)
        BY <1>7 DEF Turn, Counted
      <3> QED BY <3>1, <3>2, <3>3, Zenon
    <2>8. goal(8)
      <3>1. Forms[form][8] = "{"
        BY <1>7, FormFor
      <3>2. Gathered(form, 8) = 3 /\ Gathered(form, 8 + 1) = 3
        BY <1>7 DEF Gathered
      <3>3. Turn(form, "{", 3, 3)
        BY <1>7 DEF Turn, Counted
      <3> QED BY <3>1, <3>2, <3>3, Zenon
    <2>9. goal(9)
      <3>1. Forms[form][9] = "BLOCK"
        BY <1>7, FormFor
      <3>2. Gathered(form, 9) = 3 /\ Gathered(form, 9 + 1) = 4
        BY <1>7 DEF Gathered
      <3>3. Turn(form, "BLOCK", 3, 4)
        BY <1>7 DEF Turn, Counted
      <3> QED BY <3>1, <3>2, <3>3, Zenon
    <2>10. n = 9
      BY <1>2, <1>7, FormFor
    <2>11. at \in {1, 2, 3, 4, 5, 6, 7, 8, 9}
      BY <1>3, <2>10
    <2> QED BY <2>1, <2>2, <2>3, <2>4, <2>5, <2>6, <2>7, <2>8, <2>9, <2>11, Zenon
  <1>8. CASE form = "while"
    <2>1. goal(1)
      <3>1. Forms[form][1] = "("
        BY <1>8, FormWhile
      <3>2. Gathered(form, 1) = 0 /\ Gathered(form, 1 + 1) = 0
        BY <1>8 DEF Gathered
      <3>3. Turn(form, "(", 0, 0)
        BY <1>8 DEF Turn, Counted
      <3> QED BY <3>1, <3>2, <3>3, Zenon
    <2>2. goal(2)
      <3>1. Forms[form][2] = "EXPR"
        BY <1>8, FormWhile
      <3>2. Gathered(form, 2) = 0 /\ Gathered(form, 2 + 1) = 1
        BY <1>8 DEF Gathered
      <3>3. Turn(form, "EXPR", 0, 1)
        BY <1>8 DEF Turn, Counted
      <3> QED BY <3>1, <3>2, <3>3, Zenon
    <2>3. goal(3)
      <3>1. Forms[form][3] = ")"
        BY <1>8, FormWhile
      <3>2. Gathered(form, 3) = 1 /\ Gathered(form, 3 + 1) = 1
        BY <1>8 DEF Gathered
      <3>3. Turn(form, ")", 1, 1)
        BY <1>8 DEF Turn, Counted
      <3> QED BY <3>1, <3>2, <3>3, Zenon
    <2>4. goal(4)
      <3>1. Forms[form][4] = "{"
        BY <1>8, FormWhile
      <3>2. Gathered(form, 4) = 1 /\ Gathered(form, 4 + 1) = 1
        BY <1>8 DEF Gathered
      <3>3. Turn(form, "{", 1, 1)
        BY <1>8 DEF Turn, Counted
      <3> QED BY <3>1, <3>2, <3>3, Zenon
    <2>5. goal(5)
      <3>1. Forms[form][5] = "BLOCK"
        BY <1>8, FormWhile
      <3>2. Gathered(form, 5) = 1 /\ Gathered(form, 5 + 1) = 2
        BY <1>8 DEF Gathered
      <3>3. Turn(form, "BLOCK", 1, 2)
        BY <1>8 DEF Turn, Counted
      <3> QED BY <3>1, <3>2, <3>3, Zenon
    <2>6. n = 5
      BY <1>2, <1>8, FormWhile
    <2>7. at \in {1, 2, 3, 4, 5}
      BY <1>3, <2>6
    <2> QED BY <2>1, <2>2, <2>3, <2>4, <2>5, <2>7, Zenon
  <1>9. CASE form = "return"
    <2>1. goal(1)
      <3>1. Forms[form][1] = "VALUE"
        BY <1>9, FormReturn
      <3>2. \A g, h : Turn(form, "VALUE", g, h)
        BY <1>9 DEF Turn, Counted
      <3> QED BY <3>1, <3>2, Zenon
    <2>2. goal(2)
      <3>1. Forms[form][2] = ";"
        BY <1>9, FormReturn
      <3>2. \A g, h : Turn(form, ";", g, h)
        BY <1>9 DEF Turn, Counted
      <3> QED BY <3>1, <3>2, Zenon
    <2>3. n = 2
      BY <1>2, <1>9, FormReturn
    <2>4. at \in {1, 2}
      BY <1>3, <2>3
    <2> QED BY <2>1, <2>2, <2>4, Zenon
  <1>10. CASE form = "try"
    <2>1. goal(1)
      <3>1. Forms[form][1] = "{"
        BY <1>10, FormTry
      <3>2. \A g, h : Turn(form, "{", g, h)
        BY <1>10 DEF Turn, Counted
      <3> QED BY <3>1, <3>2, Zenon
    <2>2. goal(2)
      <3>1. Forms[form][2] = "BLOCK"
        BY <1>10, FormTry
      <3>2. \A g, h : Turn(form, "BLOCK", g, h)
        BY <1>10 DEF Turn, Counted
      <3> QED BY <3>1, <3>2, Zenon
    <2>3. goal(3)
      <3>1. Forms[form][3] = "catch"
        BY <1>10, FormTry
      <3>2. \A g, h : Turn(form, "catch", g, h)
        BY <1>10 DEF Turn, Counted
      <3> QED BY <3>1, <3>2, Zenon
    <2>4. goal(4)
      <3>1. Forms[form][4] = "("
        BY <1>10, FormTry
      <3>2. \A g, h : Turn(form, "(", g, h)
        BY <1>10 DEF Turn, Counted
      <3> QED BY <3>1, <3>2, Zenon
    <2>5. goal(5)
      <3>1. Forms[form][5] = "NAME"
        BY <1>10, FormTry
      <3>2. \A g, h : Turn(form, "NAME", g, h)
        BY <1>10 DEF Turn, Counted
      <3> QED BY <3>1, <3>2, Zenon
    <2>6. goal(6)
      <3>1. Forms[form][6] = ")"
        BY <1>10, FormTry
      <3>2. \A g, h : Turn(form, ")", g, h)
        BY <1>10 DEF Turn, Counted
      <3> QED BY <3>1, <3>2, Zenon
    <2>7. goal(7)
      <3>1. Forms[form][7] = "{"
        BY <1>10, FormTry
      <3>2. \A g, h : Turn(form, "{", g, h)
        BY <1>10 DEF Turn, Counted
      <3> QED BY <3>1, <3>2, Zenon
    <2>8. goal(8)
      <3>1. Forms[form][8] = "BLOCK"
        BY <1>10, FormTry
      <3>2. \A g, h : Turn(form, "BLOCK", g, h)
        BY <1>10 DEF Turn, Counted
      <3> QED BY <3>1, <3>2, Zenon
    <2>9. n = 8
      BY <1>2, <1>10, FormTry
    <2>10. at \in {1, 2, 3, 4, 5, 6, 7, 8}
      BY <1>3, <2>9
    <2> QED BY <2>1, <2>2, <2>3, <2>4, <2>5, <2>6, <2>7, <2>8, <2>10, Zenon
  <1>11. CASE form = "throw"
    <2>1. goal(1)
      <3>1. Forms[form][1] = "EXPR"
        BY <1>11, FormThrow
      <3>2. \A g, h : Turn(form, "EXPR", g, h)
        BY <1>11 DEF Turn, Counted
      <3> QED BY <3>1, <3>2, Zenon
    <2>2. goal(2)
      <3>1. Forms[form][2] = ";"
        BY <1>11, FormThrow
      <3>2. \A g, h : Turn(form, ";", g, h)
        BY <1>11 DEF Turn, Counted
      <3> QED BY <3>1, <3>2, Zenon
    <2>3. n = 2
      BY <1>2, <1>11, FormThrow
    <2>4. at \in {1, 2}
      BY <1>3, <2>3
    <2> QED BY <2>1, <2>2, <2>4, Zenon
  <1>12. CASE form = "expression"
    <2>1. goal(1)
      <3>1. Forms[form][1] = "EXPR"
        BY <1>12, FormExpression
      <3>2. \A g, h : Turn(form, "EXPR", g, h)
        BY <1>12 DEF Turn, Counted
      <3> QED BY <3>1, <3>2, Zenon
    <2>2. goal(2)
      <3>1. Forms[form][2] = ";"
        BY <1>12, FormExpression
      <3>2. \A g, h : Turn(form, ";", g, h)
        BY <1>12 DEF Turn, Counted
      <3> QED BY <3>1, <3>2, Zenon
    <2>3. n = 2
      BY <1>2, <1>12, FormExpression
    <2>4. at \in {1, 2}
      BY <1>3, <2>3
    <2> QED BY <2>1, <2>2, <2>4, Zenon
  <1> QED BY <1>1, <1>4, <1>5, <1>6, <1>7, <1>8, <1>9, <1>10, <1>11, <1>12

(* The blocks that are numbered with one, from its statements *)
LEMMA NestedIn ==
    ASSUME NEW S, NEW names, NEW code, IsSeq(code), \A i \in 1 .. Len(code) : Element(code[i], S)
    PROVE  Inner([vars |-> names, code |-> code]) \subseteq S
  <1>1. PICK block : block = [vars |-> names, code |-> code]
    OBVIOUS
  <1>2. \A e \in Range(block.code) : Element(e, S)
    BY <1>1 DEF Range, IsSeq
  <1>3. ASSUME NEW x \in Inner(block) PROVE x \in S
    <2>1. PICK type \in Numbers : x \in Nested(block, type)
      BY <1>3 DEF Inner
    <2>2. CASE type = "if"
      <3>1. Nested(block, "if") = UNION {{e.then} \cup (IF e.else = Null THEN {} ELSE {e.else})
                                        : e \in {f \in Range(block.code) : f.type = "if"}}
        BY DEF Nested
      <3>2. PICK e \in Range(block.code) : e.type = "if" /\ (x = e.then \/ (e.else # Null /\ x = e.else))
        BY <2>1, <2>2, <3>1
      <3> QED BY <1>2, <3>2 DEF Element
    <2>3. CASE type = "for"
      <3>1. Nested(block, "for") = UNION {{e.body} : e \in {f \in Range(block.code) : f.type = "for"}}
        BY DEF Nested
      <3>2. PICK e \in Range(block.code) : e.type = "for" /\ x = e.body
        BY <2>1, <2>3, <3>1
      <3> QED BY <1>2, <3>2 DEF Element
    <2> QED BY <2>1, <2>2, <2>3 DEF Numbers
  <1> QED BY <1>1, <1>3

(* A block is added to the blocks that there are. *)
LEMMA OneMore ==
    ASSUME NEW S, Sound(S), NEW b, Len(b.vars) \in Nat, Inner(b) \subseteq S
    PROVE  Sound(S \cup {b})
  BY DEF Sound

LEMMA FitsMore ==
    ASSUME NEW f, NEW S, Fits(f, S), NEW R, S \subseteq R
    PROVE  Fits(f, R)
  BY DEF Fits, PartFits, Element

LEMMA FilledMore ==
    ASSUME NEW s, NEW S, Filled(s, S), NEW R, S \subseteq R
    PROVE  Filled(s, R)
  BY FitsMore DEF Filled

LEMMA PartComes ==
    ASSUME NEW form, NEW item \in {"PARAMS", "EXPR", "BLOCK", "ELSE", "VALUE", "NAME"},
           NEW g, NEW h, Turn(form, item, g, h), NEW m \in Nat, form \in Counted => m = g,
           NEW e, NEW S, item = "PARAMS" => IsSeq(e), item = "EXPR" => Plain(e),
           item = "BLOCK" => e \in S, item = "ELSE" => e = Null \/ e \in S
    PROVE  PartFits(form, m + 1, e, S)
  <1>1. CASE form \in {"var", "expression"}
    BY <1>1 DEF PartFits, Turn
  <1>2. CASE form = "function"
    <2>1. m = g
      BY <1>2 DEF Counted
    <2>2. (item = "PARAMS" /\ g = 0) \/ (item = "BLOCK" /\ g = 1)
      BY <1>2 DEF Turn
    <2>3. (item = "PARAMS" /\ m = 0) \/ (item = "BLOCK" /\ m = 1)
      BY <2>1, <2>2
    <2> QED BY <1>2, <2>3 DEF PartFits
  <1>3. CASE form = "if"
    <2>1. m = g
      BY <1>3 DEF Counted
    <2>2. (item = "EXPR" /\ g = 0) \/ (item = "BLOCK" /\ g = 1) \/ (item = "ELSE" /\ g = 2)
      BY <1>3 DEF Turn
    <2>3. (item = "EXPR" /\ m = 0) \/ (item = "BLOCK" /\ m = 1) \/ (item = "ELSE" /\ m = 2)
      BY <2>1, <2>2
    <2> QED BY <1>3, <2>3 DEF PartFits
  <1>4. CASE form = "for"
    <2>1. m = g
      BY <1>4 DEF Counted
    <2>2. (item = "EXPR" /\ g \in {0, 1, 2}) \/ (item = "BLOCK" /\ g = 3)
      BY <1>4 DEF Turn
    <2>3. (item = "EXPR" /\ m \in {0, 1, 2}) \/ (item = "BLOCK" /\ m = 3)
      BY <2>1, <2>2
    <2> QED BY <1>4, <2>3 DEF PartFits
  <1>5. CASE form = "while"
    <2>1. m = g
      BY <1>5 DEF Counted
    <2>2. (item = "EXPR" /\ g = 0) \/ (item = "BLOCK" /\ g = 1)
      BY <1>5 DEF Turn
    <2>3. (item = "EXPR" /\ m = 0) \/ (item = "BLOCK" /\ m = 1)
      BY <2>1, <2>2
    <2> QED BY <1>5, <2>3 DEF PartFits
  <1>6. CASE form \notin {"var", "expression", "function", "if", "for", "while"}
    BY <1>6 DEF PartFits
  <1> QED BY <1>1, <1>2, <1>3, <1>4, <1>5, <1>6

LEMMA FitsReceived ==
    ASSUME NEW f, IsActivation(f), f.kind = "statement" => Waits(f),
           NEW S, Fits(f, S), NEW e, Accepts(f, e, S)
    PROVE  Fits(Received(f, e), S)
  <1>1. CASE f.kind = "statement"
    <2>1. IsStatement(f) /\ f.at <= Len(Forms[f.form])
      BY <1>1 DEF IsActivation, IsStatement, IsBlock, IsExpression, IsList, IsIndex, Waits
    <2>2. PICK form, at, parts : f = [kind |-> "statement", form |-> form, at |-> at, parts |-> parts]
      BY <2>1 DEF IsStatement
    <2>3. form \in DOMAIN Forms /\ IsSeq(parts) /\ at \in 1 .. Len(Forms[form]) + 1 /\ at <= Len(Forms[form])
      BY <2>1, <2>2 DEF IsStatement
    <2>4. at \in 1 .. Len(Forms[form])
      <3>1. PICK n \in Nat : n = Len(Forms[form])
        BY <2>3, FormLength
      <3> QED BY <2>3, <3>1
    <2>5. PICK g, h : g = Gathered(form, at) /\ h = Gathered(form, at + 1)
      OBVIOUS
    <2>6. PICK item : item = Forms[form][at]
      OBVIOUS
    <2>7. Turn(form, item, g, h)
      BY <2>3, <2>4, <2>5, <2>6, Gathers
    <2>8. PICK m \in Nat : m = Len(parts)
      BY <2>3 DEF IsSeq
    <2>9. /\ form \in Counted => m = g
          /\ \A i \in 1 .. m : PartFits(form, i, parts[i], S)
      BY <2>2, <2>5, <2>8 DEF Fits
    <2>10. /\ item \in {"PARAMS", "EXPR", "BLOCK", "ELSE", "VALUE", "NAME"}
           /\ item = "PARAMS" => IsSeq(e)
           /\ item = "EXPR" => Plain(e)
           /\ item = "BLOCK" => e \in S
           /\ item = "ELSE" => e = Null \/ e \in S
      BY <2>2, <2>6 DEF Accepts, Asks
    <2>11. PartFits(form, m + 1, e, S)
      BY <2>7, <2>9, <2>10, PartComes
    <2>12. PICK more : more = Append(parts, e)
      OBVIOUS
    <2>13. Len(more) = m + 1 /\ (\A i \in 1 .. m : more[i] = parts[i]) /\ more[m + 1] = e
      BY <2>3, <2>8, <2>12, Appended
    <2>14. \A i \in 1 .. m + 1 : PartFits(form, i, more[i], S)
      <3>1. \A i \in 1 .. m + 1 : i \in 1 .. m \/ i = m + 1
        OBVIOUS
      <3> QED BY <2>9, <2>11, <2>13, <3>1
    <2>15. form \in Counted => m + 1 = h
      BY <2>7, <2>9, <2>10 DEF Turn
    <2>16. PICK r : r = Received(f, e)
      OBVIOUS
    <2>17. r = [kind |-> "statement", form |-> form, at |-> at + 1, parts |-> more]
      BY <2>2, <2>12, <2>16 DEF Received
    <2>18. r.kind = "statement" /\ r.form = form /\ r.at = at + 1 /\ r.parts = more
      BY <2>17
    <2>19. Fits(r, S)
      BY <2>5, <2>13, <2>14, <2>15, <2>18 DEF Fits
    <2> QED BY <2>16, <2>19
  <1>2. CASE f.kind = "block"
    <2>1. IsBlock(f)
      BY <1>2 DEF IsActivation, IsStatement, IsBlock, IsExpression, IsList, IsIndex
    <2>2. PICK names, code, single : f = [kind |-> "block", vars |-> names, code |-> code, single |-> single]
      BY <2>1 DEF IsBlock
    <2>3. PICK n \in Nat : n = Len(code) /\ IsSeq(code)
      BY <2>1, <2>2 DEF IsBlock, IsSeq
    <2>4. PICK more : more = Append(code, e)
      OBVIOUS
    <2>5. Len(more) = n + 1 /\ (\A i \in 1 .. n : more[i] = code[i]) /\ more[n + 1] = e
      BY <2>3, <2>4, Appended
    <2>6. Element(e, S) /\ \A i \in 1 .. n : Element(code[i], S)
      BY <1>2, <2>2, <2>3 DEF Accepts, Fits
    <2>7. \A i \in 1 .. n + 1 : Element(more[i], S)
      <3>1. \A i \in 1 .. n + 1 : i \in 1 .. n \/ i = n + 1
        OBVIOUS
      <3> QED BY <2>5, <2>6, <3>1
    <2>8. PICK r : r = Received(f, e)
      OBVIOUS
    <2>9. r = [kind |-> "block", vars |-> names, code |-> more, single |-> single]
      BY <2>2, <2>4, <2>8 DEF Received
    <2>10. r.kind = "block" /\ r.code = more
      BY <2>9
    <2>11. Fits(r, S)
      BY <2>5, <2>7, <2>10 DEF Fits
    <2> QED BY <2>8, <2>11
  <1>3. CASE f.kind = "expression"
    <2>1. IsExpression(f)
      BY <1>3 DEF IsActivation, IsStatement, IsBlock, IsExpression, IsList, IsIndex
    <2>2. PICK end, queue, ops, brackets :
             f = [kind |-> "expression", end |-> end, queue |-> queue, ops |-> ops, brackets |-> brackets]
      BY <2>1 DEF IsExpression
    <2>3. PICK n \in Nat : n = Len(queue) /\ IsSeq(queue)
      BY <2>1, <2>2 DEF IsExpression, IsSeq
    <2>4. PICK more : more = Append(queue, e)
      OBVIOUS
    <2>5. Len(more) = n + 1 /\ (\A i \in 1 .. n : more[i] = queue[i]) /\ more[n + 1] = e
      BY <2>3, <2>4, Appended
    <2>6. Plain(e) /\ \A i \in 1 .. n : Plain(queue[i])
      BY <1>3, <2>2, <2>3 DEF Accepts, Fits
    <2>7. \A i \in 1 .. n + 1 : Plain(more[i])
      <3>1. \A i \in 1 .. n + 1 : i \in 1 .. n \/ i = n + 1
        OBVIOUS
      <3> QED BY <2>5, <2>6, <3>1
    <2>8. PICK r : r = Received(f, e)
      OBVIOUS
    <2>9. r = [kind |-> "expression", end |-> end, queue |-> more, ops |-> ops, brackets |-> brackets]
      BY <2>2, <2>4, <2>8 DEF Received
    <2>10. r.kind = "expression" /\ r.queue = more
      BY <2>9
    <2>11. Fits(r, S)
      BY <2>5, <2>7, <2>10 DEF Fits
    <2> QED BY <2>8, <2>11
  <1>4. CASE f.kind \in {"list", "index"}
    <2>1. Received(f, e).kind = f.kind
      BY ReceivedOK DEF Alike
    <2> QED BY <1>4, <2>1 DEF Fits
  <1>5. f.kind \in {"statement", "block", "expression", "list", "index"}
    BY DEF IsActivation, IsStatement, IsBlock, IsExpression, IsList, IsIndex
  <1> QED BY <1>1, <1>2, <1>3, <1>4, <1>5

(* What is called for is accepted. *)
LEMMA CallerAccepts ==
    ASSUME NEW b, NEW f, IsActivation(b), IsActivation(f), Calls(b, f), NEW S, NEW e,
           f.kind \in {"expression", "list", "index"} => Plain(e),
           f.kind = "block" => e \in S,
           f.kind = "statement" /\ f.form = "function" => Plain(e),
           f.kind = "statement" /\ f.form # "function" => Element(e, S)
    PROVE  Accepts(b, e, S)
  <1>1. CASE f.kind = "statement"
    BY <1>1 DEF Calls, Accepts
  <1>2. CASE f.kind = "block"
    <2>1. b.kind = "statement" /\ Asks(b) \in {"BLOCK", "ELSE"} /\ e \in S
      BY <1>2 DEF Calls, Waits
    <2> QED BY <2>1 DEF Accepts
  <1>3. CASE f.kind = "expression"
    <2>1. b.kind \in {"list", "index"} \/ (b.kind = "statement" /\ Asks(b) \in {"EXPR", "VALUE"})
      BY <1>3 DEF Calls, Waits
    <2>2. Plain(e)
      BY <1>3
    <2>3. CASE b.kind \in {"list", "index"}
      BY <2>3 DEF Accepts
    <2>4. CASE b.kind = "statement" /\ Asks(b) \in {"EXPR", "VALUE"}
      BY <2>2, <2>4 DEF Accepts
    <2> QED BY <2>1, <2>3, <2>4
  <1>4. CASE f.kind \in {"list", "index"}
    BY <1>4 DEF Calls, Accepts
  <1>5. f.kind \in {"statement", "block", "expression", "list", "index"}
    BY DEF IsActivation, IsStatement, IsBlock, IsExpression, IsList, IsIndex
  <1> QED BY <1>1, <1>2, <1>3, <1>4, <1>5

LEMMA FilledPush ==
    ASSUME NEW s, IsSeq(s), NEW S, Filled(s, S), NEW f, Fits(f, S)
    PROVE  Filled(Append(s, f), S)
  <1>1. PICK n \in Nat : n = Len(s)
    BY DEF IsSeq
  <1>2. PICK t : t = Append(s, f)
    OBVIOUS
  <1>3. Len(t) = n + 1 /\ (\A i \in 1 .. n : t[i] = s[i]) /\ t[n + 1] = f
    BY <1>1, <1>2, Appended
  <1>4. \A k \in 1 .. n + 1 : k \in 1 .. n \/ k = n + 1
    OBVIOUS
  <1>5. \A k \in 1 .. n + 1 : Fits(t[k], S)
    BY <1>1, <1>3, <1>4 DEF Filled
  <1> QED BY <1>2, <1>3, <1>5 DEF Filled

LEMMA FilledPart ==
    ASSUME NEW s, IsSeq(s), NEW S, Filled(s, S), NEW n \in 0 .. Len(s)
    PROVE  Filled(SubSeq(s, 1, n), S) /\ IsSeq(SubSeq(s, 1, n))
  <1>1. PICK m \in Nat : m = Len(s)
    BY DEF IsSeq
  <1>2. 1 \in 1 .. Len(s) + 1 /\ n \in 1 - 1 .. Len(s)
    BY <1>1
  <1>3. PICK t : t = SubSeq(s, 1, n)
    OBVIOUS
  <1>4. IsSeq(t) /\ Len(t) = n - 1 + 1 /\ \A i \in 1 .. n - 1 + 1 : t[i] = s[1 + i - 1]
    BY <1>2, <1>3, Parts
  <1>5. Len(t) = n /\ \A i \in 1 .. n : t[i] = s[i] /\ i \in 1 .. m
    BY <1>1, <1>4
  <1>6. Filled(t, S)
    BY <1>1, <1>5 DEF Filled
  <1> QED BY <1>3, <1>4, <1>6

LEMMA FilledFront ==
    ASSUME NEW s, Stacked(s), NEW S, Filled(s, S)
    PROVE  Filled(Front(s), S) /\ IsSeq(Front(s))
  <1>1. PICK n \in Nat \ {0} : n = Len(s)
    BY TopOf
  <1>2. n - 1 \in 0 .. Len(s)
    BY <1>1
  <1> QED BY <1>1, <1>2, TopOf, FilledPart DEF Front

LEMMA FilledLast ==
    ASSUME NEW s, Stacked(s), NEW S, Filled(s, S)
    PROVE  Fits(Last(s), S)
  <1>1. PICK n \in Nat \ {0} : n = Len(s) /\ Last(s) = s[n]
    BY TopOf
  <1>2. n \in 1 .. n
    BY <1>1
  <1> QED BY <1>1, <1>2 DEF Filled

LEMMA FilledReplace ==
    ASSUME NEW s, Stacked(s), NEW S, Filled(s, S), NEW f, Fits(f, S)
    PROVE  Filled(Append(Front(s), f), S)
  <1>1. PICK u : u = Front(s)
    OBVIOUS
  <1>2. Filled(u, S) /\ IsSeq(u)
    BY <1>1, FilledFront
  <1> QED BY <1>1, <1>2, FilledPush

LEMMA FilledReturned ==
    ASSUME NEW s, Stacked(s), Last(s).kind = "statement" => Waits(Last(s)),
           NEW S, Filled(s, S), NEW e, Accepts(Last(s), e, S)
    PROVE  Filled(Returned(s, e), S)
  <1>1. PICK f : f = Last(s)
    OBVIOUS
  <1>2. IsActivation(f) /\ Fits(f, S)
    BY <1>1, TopOf, FilledLast
  <1>3. Fits(Received(f, e), S)
    BY <1>1, <1>2, FitsReceived
  <1> QED BY <1>1, <1>3, FilledReplace DEF Returned

(* An activation ends, and e goes to its caller. *)
LEMMA FilledBelow ==
    ASSUME NEW s, Stacked(s), Len(s) > 1, NEW S, Filled(s, S), NEW e,
           Last(s).kind \in {"expression", "list", "index"} => Plain(e),
           Last(s).kind = "block" => e \in S,
           Last(s).kind = "statement" /\ Last(s).form = "function" => Plain(e),
           Last(s).kind = "statement" /\ Last(s).form # "function" => Element(e, S)
    PROVE  Filled(Returned(Front(s), e), S)
  <1>1. PICK b, f : b = Last(Front(s)) /\ f = Last(s)
    OBVIOUS
  <1>2. Stacked(Front(s)) /\ Calls(b, f) /\ IsActivation(f)
    BY <1>1, Popped, TopOf
  <1>3. IsActivation(b) /\ Filled(Front(s), S)
    BY <1>1, <1>2, TopOf, FilledFront
  <1>4. Accepts(b, e, S)
    BY <1>1, <1>2, <1>3, CallerAccepts
  <1>5. b.kind = "statement" => Waits(b)
    BY <1>2, CallerWaits
  <1> QED BY <1>1, <1>2, <1>3, <1>4, <1>5, FilledReturned

(* What goes to whoever asks for no error *)
LEMMA SwallowFills ==
    ASSUME Stacked(stack), NEW S, Filled(stack, S), Swallow
    PROVE  Filled(stack', S)
  <1>1. PICK n \in Nat \ {0} : n = Len(stack)
    BY TopOf
  <1>2. Swallowers \subseteq 0 .. n /\ Swallowers # {}
    BY <1>1 DEF Swallow, Swallowers
  <1>3. PICK k : k = CHOOSE i \in Swallowers : \A j \in Swallowers : j <= i
    OBVIOUS
  <1>4. \E i \in Swallowers : \A j \in Swallowers : j <= i
    BY <1>2, GreatestOf
  <1>5. k \in Swallowers
    BY <1>3, <1>4
  <1>6. /\ k \in 2 .. n
        /\ stack[k].kind = "statement"
        /\ (stack[k].form = "return" /\ stack[k].at = 1) \/ stack[k].form = "function"
    BY <1>1, <1>5 DEF Swallowers
  <1>7. stack' = IF stack[k].form = "return" THEN Returned(SubSeq(stack, 1, k), Null)
                 ELSE Returned(SubSeq(stack, 1, k - 1), [type |-> "function", args |-> <<>>, body |-> Null])
    BY <1>3 DEF Swallow
  <1>8. CASE stack[k].form = "return"
    <2>1. PICK s : s = SubSeq(stack, 1, k)
      OBVIOUS
    <2>2. k \in 1 .. Len(stack) /\ k \in 0 .. Len(stack)
      BY <1>1, <1>6
    <2>3. Stacked(s) /\ Last(s) = stack[k]
      BY <2>1, <2>2, Kept
    <2>4. Filled(s, S)
      BY <2>1, <2>2, TopOf, FilledPart
    <2>5. PICK form, at : form = stack[k].form /\ at = stack[k].at
      OBVIOUS
    <2>6. form = "return" /\ at = 1
      BY <1>6, <1>8, <2>5
    <2>7. Len(Forms[form]) = 2 /\ Forms[form][1] = "VALUE"
      BY <2>6, FormReturn
    <2>8. Waits(Last(s)) /\ Asks(Last(s)) = "VALUE"
      BY <1>6, <2>3, <2>5, <2>6, <2>7 DEF Waits, Asks
    <2>9. Accepts(Last(s), Null, S)
      BY <1>6, <2>3, <2>8 DEF Accepts
    <2> QED BY <1>7, <1>8, <2>1, <2>3, <2>4, <2>8, <2>9, FilledReturned
  <1>9. CASE stack[k].form # "return"
    <2>1. PICK s : s = SubSeq(stack, 1, k - 1)
      OBVIOUS
    <2>2. k - 1 \in 1 .. Len(stack) /\ k - 1 \in 0 .. Len(stack)
      BY <1>1, <1>6
    <2>3. Stacked(s) /\ Last(s) = stack[k - 1]
      BY <2>1, <2>2, Kept
    <2>4. Filled(s, S)
      BY <2>1, <2>2, TopOf, FilledPart
    <2>5. Calls(stack[k - 1], stack[k])
      <3>1. Calls(Under(stack, k), stack[k])
        BY <1>1, <1>6 DEF Stacked
      <3> QED BY <1>6, <3>1 DEF Under
    <2>6. Last(s).kind \in {"ground", "expression"}
      BY <1>6, <1>9, <2>3, <2>5 DEF Calls
    <2>7. PICK e : e = [type |-> "function", args |-> <<>>, body |-> Null]
      OBVIOUS
    <2>8. Plain(e)
      <3>1. e.type = "function"
        BY <2>7
      <3> QED BY <3>1 DEF Plain
    <2>9. Accepts(Last(s), e, S)
      BY <2>6, <2>8 DEF Accepts
    <2> QED BY <1>7, <1>9, <2>1, <2>3, <2>4, <2>6, <2>7, <2>9, FilledReturned
  <1> QED BY <1>8, <1>9

(* The content of the stack, and of the function when it is read *)
Contents ==
    \E S : /\ Sound(S) /\ Filled(stack, S)
           /\ status = "done" => Len(result.args) \in Nat /\ result.body \in S

LEMMA ContentsStay ==
    ASSUME NEW S, Sound(S), Filled(stack', S), status' # "done"
    PROVE  Contents'
  BY DEF Contents

LEMMA FailFills ==
    ASSUME TypeOK, status = "parsing", Fail, NEW S, Sound(S), Filled(stack, S)
    PROVE  Contents'
  <1>1. Stacked(stack)
    BY DEF TypeOK
  <1>2. CASE Swallow
    <2>1. status' # "done"
      BY <1>2 DEF Swallow
    <2> QED BY <1>1, <1>2, <2>1, SwallowFills, ContentsStay
  <1>3. CASE ~Swallow
    <2>1. status' # "done" /\ stack' = stack
      BY <1>3 DEF Fail
    <2> QED BY <2>1, ContentsStay
  <1> QED BY <1>2, <1>3

-----------------------------------------------------------------------------
(***************************************************************************)
(* The content, action by action                                           *)
(***************************************************************************)
LEMMA NewFits ==
    ASSUME NEW S
    PROVE  /\ \A form : Fits(Statement(form), S)
           /\ \A single : Fits(CodeBlock(single), S)
           /\ \A end : Fits(Expression(end), S)
           /\ \A make : Fits(List(make), S)
           /\ \A make : Fits(Index(make), S)
  <1>1. PICK none : none = <<>>
    OBVIOUS
  <1>2. Len(none) = 0
    BY <1>1
  <1>3. ASSUME NEW form PROVE Fits(Statement(form), S)
    <2>1. PICK f : f = Statement(form)
      OBVIOUS
    <2>2. f.kind = "statement" /\ f.form = form /\ f.at = 1 /\ f.parts = none
      BY <1>1, <2>1 DEF Statement
    <2>3. form \in Counted => Gathered(form, 1) = 0
      BY DEF Gathered, Counted
    <2>4. Fits(f, S)
      BY <1>2, <2>2, <2>3 DEF Fits
    <2> QED BY <2>1, <2>4
  <1>4. ASSUME NEW single PROVE Fits(CodeBlock(single), S)
    <2>1. PICK f : f = CodeBlock(single)
      OBVIOUS
    <2>2. f.kind = "block" /\ f.code = none
      BY <1>1, <2>1 DEF CodeBlock
    <2>3. Fits(f, S)
      BY <1>2, <2>2 DEF Fits
    <2> QED BY <2>1, <2>3
  <1>5. ASSUME NEW end PROVE Fits(Expression(end), S)
    <2>1. PICK f : f = Expression(end)
      OBVIOUS
    <2>2. f.kind = "expression" /\ f.queue = none
      BY <1>1, <2>1 DEF Expression
    <2>3. Fits(f, S)
      BY <1>2, <2>2 DEF Fits
    <2> QED BY <2>1, <2>3
  <1>6. \A make : Fits(List(make), S) /\ Fits(Index(make), S)
    BY DEF Fits, List, Index
  <1> QED BY <1>3, <1>4, <1>5, <1>6

(* An action that begins something *)
LEMMA BeginsFills ==
    ASSUME TypeOK, NEW S, Sound(S), Filled(stack, S), NEW f, Fits(f, S),
           stack' = Append(stack, f), status' # "done"
    PROVE  Contents'
  <1>1. IsSeq(stack)
    BY DEF TypeOK, Stacked
  <1>2. Filled(stack', S)
    BY <1>1, FilledPush
  <1> QED BY <1>2, ContentsStay

(* One that ends with a value that is no statement of a block *)
LEMMA EndsFills ==
    ASSUME TypeOK, Len(stack) > 1, NEW S, Sound(S), Filled(stack, S), NEW e, Plain(e),
           Top.kind \in {"expression", "list", "index"}, stack' = Returned(Below, e), status' # "done"
    PROVE  Contents'
  <1>1. Stacked(stack)
    BY DEF TypeOK
  <1>2. Filled(Returned(Front(stack), e), S)
    BY <1>1, FilledBelow DEF Top
  <1> QED BY <1>2, ContentsStay DEF Below

(* One that a value goes to *)
LEMMA ReceivesFills ==
    ASSUME TypeOK, NEW S, Sound(S), Filled(stack, S), NEW e, Accepts(Top, e, S),
           Top.kind = "statement" => Waits(Top), stack' = Returned(stack, e), status' # "done"
    PROVE  Contents'
  <1>1. Stacked(stack)
    BY DEF TypeOK
  <1>2. Filled(Returned(stack, e), S)
    BY <1>1, FilledReturned DEF Top
  <1> QED BY <1>2, ContentsStay

LEMMA TookFills ==
    ASSUME TypeOK, NEW S, Sound(S), Filled(stack, S), NEW e, Accepts(Top, e, S), Waits(Top),
           stack' = Append(Below, Took(e)), status' # "done"
    PROVE  Contents'
  <1>1. Took(e) = Received(Top, e)
    BY DEF Took, Received, Waits
  <1>2. stack' = Returned(stack, e)
    BY <1>1 DEF Returned, Top, Below
  <1> QED BY <1>2, ReceivesFills

(* The end of a block: it is now one of the blocks. *)
LEMMA BlockFills ==
    ASSUME TypeOK, NEW S, Sound(S), Filled(stack, S), Top.kind = "block",
           stack' = Returned(Below, [vars |-> Top.vars, code |-> Top.code]), status' # "done"
    PROVE  Contents'
  <1>1. Stacked(stack)
    BY DEF TypeOK
  <1>2. IsActivation(Top) /\ Fits(Top, S) /\ Len(stack) > 1
    BY <1>1, TopOf, FilledLast, NotFirst DEF Top
  <1>3. IsBlock(Top)
    BY <1>2 DEF IsActivation, IsStatement, IsBlock, IsExpression, IsList, IsIndex
  <1>4. PICK names, code : names = Top.vars /\ code = Top.code /\ IsSeq(names) /\ IsSeq(code)
    BY <1>3 DEF IsBlock
  <1>5. PICK b : b = [vars |-> names, code |-> code]
    OBVIOUS
  <1>6. \A i \in 1 .. Len(code) : Element(code[i], S)
    BY <1>2, <1>4 DEF Fits
  <1>7. Len(b.vars) \in Nat /\ Inner(b) \subseteq S
    <2>1. Inner(b) \subseteq S
      BY <1>4, <1>5, <1>6, NestedIn
    <2> QED BY <1>4, <1>5, <2>1 DEF IsSeq
  <1>8. PICK R : R = S \cup {b}
    OBVIOUS
  <1>9. Sound(R) /\ Filled(stack, R) /\ b \in R
    BY <1>7, <1>8, OneMore, FilledMore
  <1>10. Filled(Returned(Front(stack), b), R)
    BY <1>1, <1>2, <1>9, FilledBelow DEF Top
  <1> QED BY <1>4, <1>5, <1>9, <1>10, ContentsStay DEF Below

LEMMA BlockEndFills == ASSUME TypeOK, NEW S, Sound(S), Filled(stack, S), BlockEnd PROVE Contents'
  BY BlockFills DEF BlockEnd, Parsing

LEMMA SingleEndFills == ASSUME TypeOK, NEW S, Sound(S), Filled(stack, S), SingleEnd PROVE Contents'
  BY BlockFills DEF SingleEnd, Parsing

LEMMA BeginFills ==
    ASSUME TypeOK, NEW S, Sound(S), Filled(stack, S),
           BeginStatement \/ BeginExpression \/ BeginBlock \/ FunctionValue
    PROVE  Contents'
  <1>1. status' # "done"
    BY DEF BeginStatement, BeginExpression, BeginBlock, FunctionValue, AtItem, InExpression, Parsing
  <1>2. PICK f : Fits(f, S) /\ stack' = Append(stack, f)
    BY NewFits DEF BeginStatement, BeginExpression, BeginBlock, FunctionValue, Begin
  <1> QED BY <1>1, <1>2, BeginsFills

LEMMA ExpectFills == ASSUME TypeOK, NEW S, Sound(S), Filled(stack, S), Expect PROVE Contents'
  <1>1. AtItem(Item) /\ Item \in {"(", ")", "{", ";", "catch"}
    BY DEF Expect, AtItem
  <1>2. status = "parsing" /\ Stacked(stack) /\ Top.kind = "statement" /\ Waits(Top)
    BY <1>1, AtItemFacts
  <1>3. CASE Fail
    BY <1>2, <1>3, FailFills
  <1>4. CASE Become([Top EXCEPT !.at = @ + 1]) /\ UNCHANGED status
    <2>1. PICK form, at, parts : Top = [kind |-> "statement", form |-> form, at |-> at, parts |-> parts]
      BY <1>2, TopStatement
    <2>2. form \in DOMAIN Forms /\ at \in 1 .. Len(Forms[form])
      BY <1>1, <2>1, AtItemFacts, TopStatement
    <2>3. PICK item, g, h : item = Forms[form][at] /\ g = Gathered(form, at) /\ h = Gathered(form, at + 1)
      OBVIOUS
    <2>4. Turn(form, item, g, h)
      BY <2>2, <2>3, Gathers
    <2>5. item \in {"(", ")", "{", ";", "catch"}
      BY <1>1, <2>1, <2>3 DEF Item
    <2>6. form \in Counted => h = g
      BY <2>4, <2>5 DEF Turn
    <2>7. Fits(Top, S)
      BY <1>2, FilledLast DEF Top
    <2>8. /\ form \in Counted => Len(parts) = g
          /\ \A i \in 1 .. Len(parts) : PartFits(form, i, parts[i], S)
      BY <2>1, <2>3, <2>7 DEF Fits
    <2>9. PICK t, f : t = Top /\ f = [t EXCEPT !.at = t.at + 1]
      OBVIOUS
    <2>10. f = [kind |-> "statement", form |-> form, at |-> at + 1, parts |-> parts]
      <3>1. t = [kind |-> "statement", form |-> form, at |-> at, parts |-> parts]
        BY <2>1, <2>9
      <3> QED BY <2>9, <3>1
    <2>11. f.kind = "statement" /\ f.form = form /\ f.at = at + 1 /\ f.parts = parts
      BY <2>10
    <2>12. Fits(f, S)
      BY <2>3, <2>6, <2>8, <2>11 DEF Fits
    <2>13. stack' = Append(Front(stack), f)
      BY <1>4, <2>9 DEF Become, Below
    <2>14. Filled(stack', S)
      BY <1>2, <2>12, <2>13, FilledReplace
    <2>15. status' # "done"
      BY <1>2, <1>4
    <2> QED BY <2>14, <2>15, ContentsStay
  <1> QED BY <1>3, <1>4 DEF Expect

LEMMA ParamsFills == ASSUME TypeOK, NEW S, Sound(S), Filled(stack, S), Params PROVE Contents'
  <1>1. AtItem("PARAMS")
    BY ParamsCases
  <1>2. /\ status = "parsing" /\ Stacked(stack) /\ pos \in Nat \ {0}
        /\ Top.kind = "statement" /\ Waits(Top) /\ Asks(Top) = "PARAMS"
    BY <1>1, AtItemFacts
  <1>3. CASE Fail
    BY <1>2, <1>3, FailFills
  <1>4. CASE ~Fail
    <2>1. PICK c : c = CloseAt
      OBVIOUS
    <2>2. /\ Others # {} /\ ListClosed
          /\ stack' = Append(Below, Took([j \in 1 .. (c - pos) \div 2 |-> tokens[pos + 2 * j - 1].v]))
          /\ UNCHANGED status
      BY <1>4, <2>1 DEF Params, Wanted, Others, CloseAt, ListClosed, Become
    <2>3. c \in pos + 1 .. Len(tokens)
      BY <2>1, <2>2, CloseAtFirst
    <2>4. PICK m \in Nat : m = (c - pos) \div 2
      <3>1. PICK d \in Nat : d = c - pos
        BY <1>2, <2>3, TokensAre
      <3> QED BY <3>1
    <2>5. PICK args : args = [j \in 1 .. m |-> tokens[pos + 2 * j - 1].v]
      OBVIOUS
    <2>6. IsSeq(args)
      <3>1. PICK R : R = {tokens[pos + 2 * j - 1].v : j \in 1 .. m}
        OBVIOUS
      <3>2. args \in [1 .. m -> R]
        BY <2>5, <3>1
      <3>3. args \in Seq(R)
        BY <3>2, SeqDef
      <3> QED BY <3>3, SeqIsSeq
    <2>7. Accepts(Top, args, S)
      BY <1>2, <2>6 DEF Accepts
    <2>8. stack' = Append(Below, Took(args)) /\ status' # "done"
      BY <1>2, <2>2, <2>4, <2>5
    <2> QED BY <1>2, <2>7, <2>8, TookFills
  <1> QED BY <1>3, <1>4

LEMMA DeclareFills == ASSUME TypeOK, NEW S, Sound(S), Filled(stack, S), Declare PROVE Contents'
  <1>1. AtItem("DECLARE")
    BY DEF Declare
  <1>2. status = "parsing" /\ Stacked(stack) /\ Top.kind = "statement" /\ Waits(Top) /\ Asks(Top) = "DECLARE"
    BY <1>1, AtItemFacts
  <1>3. CASE Fail
    BY <1>2, <1>3, FailFills
  <1>4. CASE ~Fail
    <2>1. PICK n \in {2, 3} :
             /\ stack' = Front(Below) \o <<[Last(Below) EXCEPT !.vars = Append(@, tokens[pos].v)], [Top EXCEPT !.at = n]>>
             /\ UNCHANGED status
      BY <1>4 DEF Declare
    <2>2. PICK b, block, t, here, x :
             /\ x = tokens[pos].v
             /\ b = Last(Below) /\ block = [b EXCEPT !.vars = Append(b.vars, x)]
             /\ t = Top /\ here = [t EXCEPT !.at = n]
      OBVIOUS
    <2>3. /\ Stacked(Below) /\ IsBlock(b) /\ Alike(Top, here)
          /\ Front(Below) \o <<block, here>> = Append(Append(Front(Below), block), here)
      BY <1>1, <2>2, DeclareFacts
    <2>4. Filled(Below, S) /\ Fits(Top, S)
      BY <1>2, FilledFront, FilledLast DEF Below, Top
    <2>5. Fits(b, S)
      BY <2>2, <2>3, <2>4, FilledLast
    <2>6. block.kind = "block" /\ block.code = b.code
      <3>1. PICK names, code, single : b = [kind |-> "block", vars |-> names, code |-> code, single |-> single]
        BY <2>3 DEF IsBlock
      <3> QED BY <2>2, <3>1
    <2>7. Fits(block, S)
      <3>1. b.kind = "block"
        BY <2>3 DEF IsBlock
      <3> QED BY <2>5, <2>6, <3>1 DEF Fits
    <2>8. Fits(here, S)
      <3>1. PICK form, at, parts : t = [kind |-> "statement", form |-> form, at |-> at, parts |-> parts]
        BY <1>2, <2>2, TopStatement
      <3>2. form = "var"
        <4>1. t.form = "var"
          BY <1>1, <1>2, <2>2, AtItemFacts, TopStatement, WhoseItem DEF Asks
        <4> QED BY <3>1, <4>1
      <3>3. here.kind = "statement" /\ here.form = form /\ here.parts = parts
        BY <2>2, <3>1
      <3>4. \A i \in 1 .. Len(parts) : PartFits(form, i, parts[i], S)
        BY <2>2, <2>4, <3>1 DEF Fits
      <3> QED BY <3>2, <3>3, <3>4 DEF Fits, Counted
    <2>9. PICK u : u = Append(Front(Below), block)
      OBVIOUS
    <2>10. Filled(u, S) /\ IsSeq(u)
      <3>1. IsSeq(Front(Below))
        BY <2>3, <2>4, FilledFront
      <3> QED BY <2>3, <2>4, <2>7, <2>9, <3>1, FilledReplace, Appended
    <2>11. stack' = Append(u, here)
      BY <2>1, <2>2, <2>3, <2>9
    <2> QED BY <1>2, <2>1, <2>8, <2>10, <2>11, FilledPush, ContentsStay
  <1> QED BY <1>3, <1>4

LEMMA ReturnValueFills == ASSUME TypeOK, NEW S, Sound(S), Filled(stack, S), ReturnValue PROVE Contents'
  <1>1. AtItem("VALUE") /\ UNCHANGED status
    BY DEF ReturnValue
  <1>2. status = "parsing" /\ Top.kind = "statement" /\ Waits(Top) /\ Asks(Top) = "VALUE"
    BY <1>1, AtItemFacts
  <1>3. stack' = Append(Below, Took(Null)) \/ stack' = Append(stack, Expression("any"))
    BY DEF ReturnValue, Become, Begin
  <1>4. Accepts(Top, Null, S)
    BY <1>2 DEF Accepts
  <1> QED BY <1>1, <1>2, <1>3, <1>4, TookFills, NewFits, BeginsFills

LEMMA CatchNameFills == ASSUME TypeOK, NEW S, Sound(S), Filled(stack, S), CatchName PROVE Contents'
  <1>1. AtItem("NAME")
    BY DEF CatchName
  <1>2. status = "parsing" /\ Top.kind = "statement" /\ Waits(Top) /\ Asks(Top) = "NAME"
    BY <1>1, AtItemFacts
  <1>3. Accepts(Top, tokens[pos].v, S)
    BY <1>2 DEF Accepts
  <1>4. Fail \/ (stack' = Append(Below, Took(tokens[pos].v)) /\ UNCHANGED status)
    BY DEF CatchName, Become
  <1> QED BY <1>2, <1>3, <1>4, TookFills, FailFills

LEMMA ElseFills == ASSUME TypeOK, NEW S, Sound(S), Filled(stack, S), Else PROVE Contents'
  <1>1. AtItem("ELSE")
    BY DEF Else
  <1>2. status = "parsing" /\ Top.kind = "statement" /\ Waits(Top) /\ Asks(Top) = "ELSE"
    BY <1>1, AtItemFacts
  <1>3. Accepts(Top, Null, S)
    BY <1>2 DEF Accepts
  <1>4. \/ Fail
        \/ stack' = Append(Below, Took(Null)) /\ UNCHANGED status
        \/ (\E single : stack' = Append(stack, CodeBlock(single))) /\ UNCHANGED status
    BY DEF Else, Become, Begin
  <1> QED BY <1>2, <1>3, <1>4, TookFills, FailFills, NewFits, BeginsFills

(* What a statement comes to, when it has all its parts *)
LEMMA BuiltIs ==
    ASSUME NEW form \in DOMAIN Forms, NEW parts, IsSeq(parts), parts # <<>>, NEW S,
           form \in Counted => Len(parts) = Gathered(form, Len(Forms[form]) + 1),
           \A i \in 1 .. Len(parts) : PartFits(form, i, parts[i], S)
    PROVE  /\ form # "function" => Element(Built(form, parts), S)
           /\ form = "function" =>
                /\ Plain(Built(form, parts))
                /\ Len(Built(form, parts).args) \in Nat /\ Built(form, parts).body \in S
  <1>1. PICK e : e = Built(form, parts)
    OBVIOUS
  <1>2. PICK p : p = parts
    OBVIOUS
  <1>3. CASE form = "function"
    <2>1. Len(parts) = 2
      <3>1. Len(Forms[form]) = 3
        BY <1>3, FormFunction
      <3>2. Gathered(form, 4) = 2
        BY <1>3 DEF Gathered
      <3>3. Len(Forms[form]) + 1 = 4
        BY <3>1
      <3> QED BY <1>3, <3>2, <3>3, Zenon DEF Counted
    <2>2. IsSeq(p[1]) /\ p[2] \in S
      <3>1. 1 \in 1 .. Len(parts) /\ 2 \in 1 .. Len(parts)
        BY <2>1
      <3> QED BY <1>2, <1>3, <3>1 DEF PartFits
    <2>3. e = [type |-> "function", args |-> p[1], body |-> p[2]]
      BY <1>1, <1>2, <1>3 DEF Built
    <2>4. e.type = "function" /\ e.args = p[1] /\ e.body = p[2]
      BY <2>3
    <2> QED BY <1>1, <1>3, <2>2, <2>4 DEF Plain, IsSeq
  <1>4. CASE form = "if"
    <2>1. Len(parts) = 3
      <3>1. Len(Forms[form]) = 6
        BY <1>4, FormIf
      <3>2. Gathered(form, 7) = 3
        BY <1>4 DEF Gathered
      <3>3. Len(Forms[form]) + 1 = 7
        BY <3>1
      <3> QED BY <1>4, <3>2, <3>3, Zenon DEF Counted
    <2>2. p[2] \in S /\ (p[3] = Null \/ p[3] \in S)
      <3>1. 2 \in 1 .. Len(parts) /\ 3 \in 1 .. Len(parts)
        BY <2>1
      <3> QED BY <1>2, <1>4, <3>1 DEF PartFits
    <2>3. e = [type |-> "if", test |-> p[1], then |-> p[2], else |-> p[3]]
      BY <1>1, <1>2, <1>4 DEF Built
    <2>4. e.type = "if" /\ e.then = p[2] /\ e.else = p[3]
      BY <2>3
    <2> QED BY <1>1, <1>4, <2>2, <2>4 DEF Element
  <1>5. CASE form = "for"
    <2>1. Len(parts) = 4
      <3>1. Len(Forms[form]) = 9
        BY <1>5, FormFor
      <3>2. Gathered(form, 10) = 4
        BY <1>5 DEF Gathered
      <3>3. Len(Forms[form]) + 1 = 10
        BY <3>1
      <3> QED BY <1>5, <3>2, <3>3, Zenon DEF Counted
    <2>2. p[4] \in S
      <3>1. 4 \in 1 .. Len(parts)
        BY <2>1
      <3> QED BY <1>2, <1>5, <3>1 DEF PartFits
    <2>3. e = [type |-> "for", init |-> p[1], test |-> p[2], inc |-> p[3], body |-> p[4]]
      BY <1>1, <1>2, <1>5 DEF Built
    <2>4. e.type = "for" /\ e.body = p[4]
      BY <2>3
    <2> QED BY <1>1, <1>5, <2>2, <2>4 DEF Element
  <1>6. CASE form = "while"
    <2>1. Len(parts) = 2
      <3>1. Len(Forms[form]) = 5
        BY <1>6, FormWhile
      <3>2. Gathered(form, 6) = 2
        BY <1>6 DEF Gathered
      <3>3. Len(Forms[form]) + 1 = 6
        BY <3>1
      <3> QED BY <1>6, <3>2, <3>3, Zenon DEF Counted
    <2>2. p[2] \in S
      <3>1. 2 \in 1 .. Len(parts)
        BY <2>1
      <3> QED BY <1>2, <1>6, <3>1 DEF PartFits
    <2>3. e = [type |-> "for", init |-> Null, test |-> p[1], inc |-> Null, body |-> p[2]]
      BY <1>1, <1>2, <1>6 DEF Built
    <2>4. e.type = "for" /\ e.body = p[2]
      BY <2>3
    <2> QED BY <1>1, <1>6, <2>2, <2>4 DEF Element
  <1>7. CASE form \in {"return", "throw"}
    <2>1. e = [type |-> form, value |-> p[1]]
      BY <1>1, <1>2, <1>7 DEF Built
    <2>2. e.type = form
      BY <2>1
    <2> QED BY <1>1, <1>7, <2>2 DEF Element
  <1>8. CASE form = "try"
    <2>1. PICK caught : e = [type |-> "try", body |-> p[1], var |-> p[2], catch |-> caught]
      BY <1>1, <1>2, <1>8 DEF Built
    <2>2. e.type = "try"
      BY <2>1
    <2> QED BY <1>1, <1>8, <2>2 DEF Element
  <1>9. CASE form \in {"var", "expression"}
    <2>1. e = p[1]
      BY <1>1, <1>2, <1>9 DEF Built
    <2>2. 1 \in 1 .. Len(parts)
      <3>1. PICK n \in Nat : n = Len(parts)
        BY DEF IsSeq
      <3>2. n # 0
        <4>1. PICK R : parts \in Seq(R)
          BY HasElements
        <4> QED BY <3>1, <4>1, EmptySeq
      <3> QED BY <3>1, <3>2
    <2>3. Plain(e)
      BY <1>2, <1>9, <2>1, <2>2 DEF PartFits
    <2> QED BY <1>1, <1>9, <2>3 DEF Plain, Element
  <1> QED BY <1>3, <1>4, <1>5, <1>6, <1>7, <1>8, <1>9, FormNames

LEMMA CompleteFills == ASSUME TypeOK, NEW S, Sound(S), Filled(stack, S), Complete PROVE Contents'
  <1>1. /\ status = "parsing" /\ Stacked(stack) /\ Top.kind = "statement"
        /\ Top.at > Len(Forms[Top.form])
    BY DEF TypeOK, Complete, Parsing
  <1>2. PICK form, at, parts : Top = [kind |-> "statement", form |-> form, at |-> at, parts |-> parts]
    BY <1>1, TopStatement
  <1>3. form \in DOMAIN Forms /\ IsSeq(parts) /\ at = Len(Forms[form]) + 1 /\ Top.form = form /\ Top.parts = parts
    <2>1. PICK n \in Nat : n = Len(Forms[form])
      BY <1>1, <1>2, TopStatement
    <2>2. at \in 1 .. n + 1 /\ at > n
      BY <1>1, <1>2, <2>1, TopStatement
    <2> QED BY <1>1, <1>2, <2>1, <2>2, TopStatement
  <1>4. Fits(Top, S)
    BY <1>1, FilledLast DEF Top
  <1>5. /\ form \in Counted => Len(parts) = Gathered(form, Len(Forms[form]) + 1)
        /\ \A i \in 1 .. Len(parts) : PartFits(form, i, parts[i], S)
    BY <1>2, <1>3, <1>4 DEF Fits
  <1>6. PICK e : e = Built(form, parts)
    OBVIOUS
  <1>7. parts # <<>> =>
          /\ form # "function" => Element(e, S)
          /\ form = "function" => Plain(e) /\ Len(e.args) \in Nat /\ e.body \in S
    BY <1>3, <1>5, <1>6, BuiltIs
  <1>8. CASE Len(stack) = 1
    <2>1. status' = "done" /\ result' = e /\ stack' = stack
      BY <1>3, <1>6, <1>8 DEF Complete
    <2>2. form = "function"
      <3>1. PICK f : f = Last(stack)
        OBVIOUS
      <3>2. f.kind = "statement" /\ f.form = form
        BY <1>1, <1>3, <3>1 DEF Top
      <3>3. ~(Len(stack) > 1)
        BY <1>8
      <3>4. Len(stack) > 1 \/ form = "function"
        BY <1>1, <3>1, <3>2, NotFirst, Zenon
      <3> QED BY <3>3, <3>4
    <2>3. parts # <<>>
      <3>1. Len(Forms[form]) + 1 = 4
        <4>1. Len(Forms[form]) = 3
          BY <2>2, FormFunction
        <4> QED BY <4>1
      <3>2. Gathered(form, 4) = 2
        BY <2>2 DEF Gathered
      <3>3. Len(parts) = 2
        BY <1>5, <2>2, <3>1, <3>2, Zenon DEF Counted
      <3> QED BY <3>3
    <2>4. Len(result'.args) \in Nat /\ result'.body \in S
      BY <1>7, <2>1, <2>2, <2>3
    <2> QED BY <2>1, <2>4 DEF Contents
  <1>9. CASE Len(stack) # 1
    <2>1. Len(stack) > 1
      <3>1. PICK n \in Nat \ {0} : n = Len(stack)
        BY <1>1, TopOf
      <3> QED BY <1>9, <3>1
    <2>2. stack' = (IF parts = <<>> THEN Front(stack) ELSE Returned(Front(stack), e)) /\ status' # "done"
      BY <1>1, <1>3, <1>6, <1>9 DEF Complete, Below
    <2>3. CASE parts = <<>>
      BY <1>1, <2>2, <2>3, FilledFront, ContentsStay
    <2>4. CASE parts # <<>>
      <3>1. PICK f : f = Last(stack)
        OBVIOUS
      <3>2. f.kind = "statement" /\ f.form = form
        BY <1>1, <1>3, <3>1 DEF Top
      <3>3. Filled(Returned(Front(stack), e), S)
        BY <1>1, <1>7, <2>1, <2>4, <3>1, <3>2, FilledBelow
      <3> QED BY <2>2, <2>4, <3>3, ContentsStay
    <2> QED BY <2>3, <2>4
  <1> QED BY <1>8, <1>9

-----------------------------------------------------------------------------
(***************************************************************************)
(* The content of expressions                                              *)
(***************************************************************************)
LEMMA GoesOnFills ==
    ASSUME TypeOK, Parsing("expression"), NEW n, GoesOn(n), UNCHANGED status, NEW S, Sound(S), Filled(stack, S)
    PROVE  Contents'
  <1>1. status = "parsing" /\ Stacked(stack) /\ Top.kind = "expression"
    BY TopExpression
  <1>2. PICK f : /\ f.kind = "expression" /\ (AllPlain(Top.queue) => AllPlain(f.queue))
                 /\ stack' = Append(Below, f)
    BY DEF GoesOn
  <1>3. Fits(Top, S)
    BY <1>1, FilledLast DEF Top
  <1>4. Fits(f, S)
    BY <1>1, <1>2, <1>3 DEF Fits, AllPlain
  <1>5. Filled(stack', S)
    BY <1>1, <1>2, <1>4, FilledReplace DEF Below
  <1> QED BY <1>1, <1>5, ContentsStay

LEMMA ExpressionEndFills == ASSUME TypeOK, NEW S, Sound(S), Filled(stack, S), ExpressionEnd PROVE Contents'
  <1>1. status = "parsing" /\ Stacked(stack) /\ Len(stack) > 1 /\ Top.kind = "expression" /\ Parsing("expression")
    BY TopExpression DEF ExpressionEnd
  <1>2. PICK end, queue, ops :
           /\ Top = [kind |-> "expression", end |-> end, queue |-> queue, ops |-> ops, brackets |-> Top.brackets]
           /\ IsSeq(queue) /\ Ops(ops)
    BY <1>1, TopRecord
  <1>3. Top.queue = queue /\ Top.ops = ops
    BY <1>2
  <1>4. PICK all : all = queue \o Reverse(ops)
    OBVIOUS
  <1>5. IsSeq(all) /\ AllPlain(all)
    <2>1. Fits(Top, S)
      BY <1>1, FilledLast DEF Top
    <2>2. AllPlain(queue)
      BY <1>1, <1>3, <2>1 DEF Fits, AllPlain
    <2>3. IsSeq(ops) /\ AllPlain(ops)
      BY <1>2, OpsPlain DEF Ops
    <2>4. IsSeq(Reverse(ops)) /\ AllPlain(Reverse(ops))
      BY <2>3, PlainReversed, Reversed
    <2> QED BY <1>2, <1>4, <2>2, <2>4, PlainJoined, Joined
  <1>6. Fail \/ \E tree \in Trees(all) : stack' = Returned(Below, tree.e) /\ UNCHANGED status
    BY <1>3, <1>4 DEF ExpressionEnd
  <1>7. ASSUME NEW tree \in Trees(all), stack' = Returned(Below, tree.e), UNCHANGED status
        PROVE  Contents'
    <2>1. Plain(tree.e)
      BY <1>5, TreesPlain DEF AllPlain
    <2> QED BY <1>1, <1>7, <2>1, EndsFills
  <1> QED BY <1>1, <1>6, <1>7, FailFills

LEMMA ConstantFills == ASSUME TypeOK, NEW S, Sound(S), Filled(stack, S), Constant PROVE Contents'
  <1>1. status = "parsing" /\ Top.kind = "expression" /\ UNCHANGED status
    BY InExpressionFacts DEF Constant
  <1>2. PICK type, n : /\ stack' = Returned(stack, Literal(type, n))
                       /\ type \in Literals
    BY DEF Constant, Literals
  <1>3. PICK e : e = Literal(type, n)
    OBVIOUS
  <1>4. e.type = type
    BY <1>3 DEF Literal
  <1>5. Accepts(Top, e, S)
    BY <1>1, <1>2, <1>4 DEF Accepts, Plain, Literals
  <1> QED BY <1>1, <1>2, <1>3, <1>5, ReceivesFills

LEMMA NameFills == ASSUME TypeOK, NEW S, Sound(S), Filled(stack, S), Name PROVE Contents'
  <1>1. status = "parsing" /\ Stacked(stack) /\ Top.kind = "expression" /\ Last(stack).kind = "expression"
    BY InExpressionFacts DEF Name
  <1>2. \/ Fail
        \/ UNCHANGED status /\ \E make : stack' = Append(stack, List(make))
        \/ UNCHANGED status /\ \E make : stack' = stack \o <<Index(make), Expression("]")>>
        \/ UNCHANGED status /\ \E id, class : stack' = Returned(stack, [type |-> "var", var |-> id, class |-> class])
    BY DEF Name, Begin
  <1>3. ASSUME NEW make, stack' = stack \o <<Index(make), Expression("]")>>, UNCHANGED status PROVE Contents'
    <2>1. stack' = Append(Append(stack, Index(make)), Expression("]"))
      BY <1>1, <1>3, BeginIndexOK
    <2>2. PICK t, f, g : f = Index(make) /\ g = Expression("]") /\ t = Append(stack, f)
      OBVIOUS
    <2>3. Fits(f, S) /\ Fits(g, S)
      BY <2>2, NewFits
    <2>4. Filled(t, S) /\ IsSeq(t)
      BY <1>1, <2>2, <2>3, TopOf, FilledPush, Appended
    <2>5. Filled(Append(t, g), S)
      BY <2>3, <2>4, FilledPush
    <2> QED BY <1>1, <1>3, <2>1, <2>2, <2>5, ContentsStay
  <1>4. ASSUME NEW id, NEW class, stack' = Returned(stack, [type |-> "var", var |-> id, class |-> class]),
               UNCHANGED status
        PROVE  Contents'
    <2>1. PICK e : e = [type |-> "var", var |-> id, class |-> class]
      OBVIOUS
    <2>2. Plain(e)
      <3>1. e.type = "var"
        BY <2>1
      <3> QED BY <3>1 DEF Plain
    <2>3. Accepts(Top, e, S)
      BY <1>1, <2>2 DEF Accepts
    <2> QED BY <1>1, <1>4, <2>1, <2>3, ReceivesFills
  <1> QED BY <1>1, <1>2, <1>3, <1>4, FailFills, NewFits, BeginsFills

LEMMA NewNoValueFills == ASSUME TypeOK, NEW S, Sound(S), Filled(stack, S), New \/ NoValue PROVE Contents'
  <1>1. status = "parsing"
    BY InExpressionFacts, NewCases DEF NoValue
  <1>2. Fail \/ (UNCHANGED status /\ \E make : stack' = Append(stack, List(make)))
    BY NewCases DEF NoValue
  <1> QED BY <1>1, <1>2, FailFills, NewFits, BeginsFills

LEMMA ListStepFills == ASSUME TypeOK, NEW S, Sound(S), Filled(stack, S), ListStep PROVE Contents'
  <1>1. status = "parsing" /\ Stacked(stack) /\ Len(stack) > 1 /\ Top.kind = "list" /\ IsList(Top)
    BY TopList DEF ListStep, Top
  <1>2. \/ Fail
        \/ UNCHANGED status /\ stack' = Returned(Below, WithArgs(Top.make, Top.items))
        \/ UNCHANGED status /\ stack' = Append(stack, Expression("any"))
        \/ UNCHANGED status /\ stack' = Append(Below, [Top EXCEPT !.comma = FALSE])
    BY DEF ListStep, Begin, Become
  <1>3. CASE UNCHANGED status /\ stack' = Returned(Below, WithArgs(Top.make, Top.items))
    <2>1. PICK e, make, items : e = WithArgs(make, items) /\ make = Top.make /\ items = Top.items
      OBVIOUS
    <2>2. \/ e = [type |-> "new", class |-> make.class, args |-> items]
          \/ e = [type |-> "call", fn |-> make.fn, class |-> make.class, args |-> items]
      BY <2>1 DEF WithArgs
    <2>3. e.type \in {"new", "call"}
      BY <2>2
    <2>4. Plain(e)
      BY <2>3 DEF Plain
    <2> QED BY <1>1, <1>3, <2>1, <2>4, EndsFills
  <1>4. CASE UNCHANGED status /\ stack' = Append(Below, [Top EXCEPT !.comma = FALSE])
    <2>1. PICK t, f, no : no = FALSE /\ t = Top /\ f = [t EXCEPT !.comma = no]
      OBVIOUS
    <2>2. f.kind = "list"
      <3>1. PICK make, items, comma : t = [kind |-> "list", make |-> make, items |-> items, comma |-> comma]
        BY <1>1, <2>1 DEF IsList
      <3>2. f = [kind |-> "list", make |-> make, items |-> items, comma |-> no]
        BY <2>1, <3>1
      <3> QED BY <3>2
    <2>3. Fits(f, S)
      BY <2>2 DEF Fits
    <2>4. stack' = Append(Front(stack), f)
      BY <1>4, <2>1 DEF Below
    <2> QED BY <1>1, <1>4, <2>3, <2>4, FilledReplace, ContentsStay
  <1> QED BY <1>1, <1>2, <1>3, <1>4, FailFills, NewFits, BeginsFills

LEMMA IndexEndFills == ASSUME TypeOK, NEW S, Sound(S), Filled(stack, S), IndexEnd PROVE Contents'
  <1>1. status = "parsing" /\ Stacked(stack) /\ Top.kind = "index" /\ Last(stack).kind = "index"
    BY DEF TypeOK, IndexEnd, Parsing, Top
  <1>2. Len(stack) > 1
    BY <1>1, NotFirst
  <1>3. PICK var, class, index : var = Top.make.var /\ class = Top.make.class /\ index = Top.items[1]
    OBVIOUS
  <1>4. PICK e : e = [type |-> "array", var |-> var, class |-> class, index |-> index]
    OBVIOUS
  <1>5. Fail \/ (stack' = Returned(Below, e) /\ UNCHANGED status)
    BY <1>3, <1>4 DEF IndexEnd
  <1>6. Plain(e)
    <2>1. e.type = "array"
      BY <1>4
    <2> QED BY <2>1 DEF Plain
  <1> QED BY <1>1, <1>2, <1>5, <1>6, FailFills, EndsFills

LEMMA InitContents == ASSUME Init PROVE Contents
  <1>1. PICK f, s : f = Statement("function") /\ s = <<f>>
    OBVIOUS
  <1>2. Len(s) = 1 /\ s[1] = f
    BY <1>1
  <1>3. Fits(f, {})
    BY <1>1, NewFits
  <1>4. Filled(s, {})
    BY <1>2, <1>3 DEF Filled
  <1>5. stack = s /\ status # "done"
    BY <1>1 DEF Init
  <1> QED BY <1>4, <1>5 DEF Contents, Sound

LEMMA NextContents == ASSUME TypeOK, Contents, [Next]_vars PROVE Contents'
  <1>1. CASE UNCHANGED vars
    BY <1>1 DEF Contents, vars
  <1>2. CASE Parse
    <2>1. PICK S : Sound(S) /\ Filled(stack, S)
      BY DEF Contents
    <2>2. CASE Op
      BY <2>1, <2>2, OpGoesOn, GoesOnFills DEF Op, InExpression
    <2>3. CASE Open
      BY <2>1, <2>3, OpenGoesOn, GoesOnFills DEF Open, InExpression
    <2>4. CASE Close
      BY <2>1, <2>4, CloseGoesOn, GoesOnFills DEF Close, InExpression
    <2>5. CASE BlockEnd \/ BeginStatement \/ Expect \/ BeginExpression \/ BeginBlock \/ Params
      BY <2>1, <2>5, BlockEndFills, BeginFills, ExpectFills, ParamsFills
    <2>6. CASE Declare \/ ReturnValue \/ CatchName \/ Else \/ SingleEnd \/ Complete
      BY <2>1, <2>6, DeclareFills, ReturnValueFills, CatchNameFills, ElseFills, SingleEndFills, CompleteFills
    <2>7. CASE ExpressionEnd \/ Constant \/ Name \/ New \/ FunctionValue \/ NoValue
      BY <2>1, <2>7, ExpressionEndFills, ConstantFills, NameFills, NewNoValueFills, BeginFills
    <2>8. CASE ListStep \/ IndexEnd
      BY <2>1, <2>8, ListStepFills, IndexEndFills
    <2> QED BY <1>2, <2>2, <2>3, <2>4, <2>5, <2>6, <2>7, <2>8 DEF Parse
  <1> QED BY <1>1, <1>2 DEF Next, Over

-----------------------------------------------------------------------------
(***************************************************************************)
(* The slots of nested blocks                                              *)
(***************************************************************************)
(* Of the blocks k deep, from those k - 1 deep *)
Deeper(f, k) ==
    IF k = 0 THEN {[block |-> result.body, start |-> Len(result.args) + 1, taken |-> 0 .. Len(result.args)]}
    ELSE UNION {UNION {{[block |-> child, start |-> ChildStart(outer, type),
                         taken |-> outer.taken \cup Ids(outer)]
                        : child \in Nested(outer.block, type)}
                       : type \in Numbers}
                : outer \in f[k - 1]}

Dives(f, m) == f = [k \in 0 .. m |-> Deeper(f, k)]

LEMMA DivesExist ==
    ASSUME NEW m \in Nat
    PROVE  \E f : Dives(f, m)
  <1> DEFINE Upto(k) == \E f : Dives(f, k)
             T == {k \in Nat : Upto(k)}
  <1>1. Upto(0)
    <2>1. PICK f : f = [k \in 0 .. 0 |-> Deeper(<<>>, 0)]
      OBVIOUS
    <2>2. \A k \in 0 .. 0 : Deeper(f, k) = Deeper(<<>>, 0)
      BY DEF Deeper
    <2>3. Dives(f, 0)
      BY <2>1, <2>2 DEF Dives
    <2> QED BY <2>3
  <1>2. ASSUME NEW k \in Nat, Upto(k) PROVE Upto(k + 1)
    <2>1. PICK f : Dives(f, k)
      BY <1>2
    <2>2. PICK g : g = [n \in 0 .. k + 1 |-> IF n <= k THEN f[n] ELSE Deeper(f, n)]
      OBVIOUS
    <2>3. \A n \in 0 .. k : g[n] = f[n]
      BY <2>2
    <2>4. ASSUME NEW n \in 0 .. k + 1 PROVE g[n] = Deeper(g, n)
      <3>1. n # 0 => f[n - 1] = g[n - 1]
        BY <2>3
      <3>2. Deeper(f, n) = Deeper(g, n)
        BY <3>1 DEF Deeper
      <3>3. CASE n <= k
        <4>1. n \in 0 .. k
          BY <3>3
        <4>2. f[n] = Deeper(f, n)
          BY <2>1, <4>1 DEF Dives
        <4> QED BY <2>3, <3>2, <4>1, <4>2
      <3>4. CASE ~(n <= k)
        BY <2>2, <3>2, <3>4
      <3> QED BY <3>3, <3>4
    <2>5. g = [n \in 0 .. k + 1 |-> g[n]]
      BY <2>2
    <2> QED BY <2>4, <2>5, Zenon DEF Dives
  <1> HIDE DEF Upto
  <1>3. 0 \in T /\ \A k \in Nat : k \in T => k + 1 \in T
    BY <1>1, <1>2
  <1> HIDE DEF T
  <1>4. m \in T
    BY <1>3, Induction
  <1>5. Upto(m)
    BY <1>4 DEF T
  <1> QED BY <1>5 DEF Upto

Reached == Numbered(Numbers)

LEMMA NumberedIs ==
    ASSUME TypeOK
    PROVE  \A k \in 0 .. Len(tokens) : Reached[k] = Deeper(Reached, k)
  <1>1. \E f : Dives(f, Len(tokens))
    BY TokensAre, DivesExist
  <1>2. Reached = CHOOSE f : Dives(f, Len(tokens))
    BY DEF Reached, Numbered, Dives, Deeper
  <1>3. Dives(Reached, Len(tokens))
    BY <1>1, <1>2, Zenon
  <1> QED BY <1>3 DEF Dives

(* A block that was read, and what is taken around it is before its own slots. *)
Placed(b, S) == b.block \in S /\ b.start \in Nat \ {0} /\ b.taken \subseteq 0 .. b.start - 1

LEMMA ChildPlaced ==
    ASSUME NEW S, Sound(S), NEW outer, Placed(outer, S), NEW type \in Numbers,
           NEW child \in Nested(outer.block, type), NEW b,
           b = [block |-> child, start |-> ChildStart(outer, type), taken |-> outer.taken \cup Ids(outer)]
    PROVE  Placed(b, S)
  <1>1. PICK n \in Nat : n = Len(outer.block.vars)
    BY DEF Sound, Placed
  <1>2. PICK start \in Nat \ {0} : start = outer.start
    BY DEF Placed
  <1>3. child \in S
    BY DEF Sound, Inner, Placed
  <1>4. b.block = child /\ b.start = start + n /\ b.taken = outer.taken \cup (start .. start + n - 1)
    BY <1>1, <1>2 DEF ChildStart, Ids, Numbers
  <1>5. outer.taken \subseteq 0 .. start - 1
    BY <1>2 DEF Placed
  <1>6. b.taken \subseteq 0 .. start + n - 1
    <2>1. \A x \in 0 .. start - 1 : x \in 0 .. start + n - 1
      OBVIOUS
    <2>2. \A x \in start .. start + n - 1 : x \in 0 .. start + n - 1
      OBVIOUS
    <2> QED BY <1>4, <1>5, <2>1, <2>2
  <1>7. b.start \in Nat \ {0} /\ 0 .. b.start - 1 = 0 .. start + n - 1
    BY <1>4
  <1> QED BY <1>3, <1>4, <1>6, <1>7 DEF Placed

LEMMA NumberedPlaced ==
    ASSUME TypeOK, NEW S, Sound(S), Len(result.args) \in Nat, result.body \in S
    PROVE  \A k \in 0 .. Len(tokens) : \A b \in Reached[k] : Placed(b, S)
  <1>1. PICK m \in Nat : m = Len(tokens)
    BY TokensAre
  <1>2. \A k \in 0 .. m : Reached[k] = Deeper(Reached, k)
    BY <1>1, NumberedIs
  <1> DEFINE goal(k) == k <= m => \A b \in Reached[k] : Placed(b, S)
             T == {k \in Nat : goal(k)}
  <1>3. goal(0)
    <2>1. SUFFICES ASSUME NEW b \in Reached[0] PROVE Placed(b, S)
      OBVIOUS
    <2>2. 0 \in 0 .. m
      OBVIOUS
    <2>3. b = [block |-> result.body, start |-> Len(result.args) + 1, taken |-> 0 .. Len(result.args)]
      BY <1>2, <2>1, <2>2 DEF Deeper
    <2>4. PICK n \in Nat : n = Len(result.args)
      OBVIOUS
    <2>5. b.block \in S /\ b.start = n + 1 /\ b.taken = 0 .. n
      BY <2>3, <2>4
    <2>6. b.start \in Nat \ {0} /\ b.taken \subseteq 0 .. b.start - 1
      BY <2>5
    <2> QED BY <2>5, <2>6 DEF Placed
  <1>4. ASSUME NEW k \in Nat, goal(k) PROVE goal(k + 1)
    <2>1. SUFFICES ASSUME k + 1 <= m, NEW b \in Reached[k + 1] PROVE Placed(b, S)
      OBVIOUS
    <2>2. k + 1 \in 0 .. m /\ k + 1 # 0 /\ k + 1 - 1 = k /\ k <= m
      BY <2>1
    <2>3. b \in Deeper(Reached, k + 1)
      BY <1>2, <2>1, <2>2
    <2>4. PICK outer \in Reached[k] : \E type \in Numbers : \E child \in Nested(outer.block, type) :
             b = [block |-> child, start |-> ChildStart(outer, type), taken |-> outer.taken \cup Ids(outer)]
      BY <2>2, <2>3 DEF Deeper
    <2>5. Placed(outer, S)
      BY <1>4, <2>2
    <2> QED BY <2>4, <2>5, ChildPlaced
  <1> HIDE DEF goal
  <1>5. 0 \in T /\ \A k \in Nat : k \in T => k + 1 \in T
    BY <1>3, <1>4
  <1> HIDE DEF T
  <1>6. Nat \subseteq T
    BY <1>5, Induction
  <1>7. ASSUME NEW k \in 0 .. m PROVE \A b \in Reached[k] : Placed(b, S)
    <2>1. k \in Nat /\ k <= m
      OBVIOUS
    <2>2. k \in T
      BY <1>6, <2>1
    <2>3. goal(k)
      BY <2>2 DEF T
    <2> QED BY <2>1, <2>3 DEF goal
  <1> QED BY <1>1, <1>7

LEMMA ContentsSlots == ASSUME TypeOK, Contents PROVE SlotsDistinct
  <1>1. SUFFICES ASSUME status = "done", NEW k \in 0 .. Len(tokens), NEW b \in Reached[k]
                 PROVE  Ids(b) \cap b.taken = {}
    BY DEF SlotsDistinct, Apart, Reached, Numbers
  <1>2. PICK S : Sound(S) /\ Len(result.args) \in Nat /\ result.body \in S
    BY <1>1 DEF Contents
  <1>3. Placed(b, S)
    BY <1>1, <1>2, NumberedPlaced
  <1>4. PICK n \in Nat : n = Len(b.block.vars)
    BY <1>2, <1>3 DEF Placed, Sound
  <1>5. PICK start \in Nat : start = b.start
    BY <1>3 DEF Placed
  <1>6. Ids(b) = start .. start + n - 1 /\ b.taken \subseteq 0 .. start - 1
    BY <1>3, <1>4, <1>5 DEF Placed, Ids
  <1>7. (start .. start + n - 1) \cap (0 .. start - 1) = {}
    OBVIOUS
  <1> QED BY <1>6, <1>7

(***************************************************************************)
(* No two variables that are alive at once share a slot, outside of try    *)
(* and catch: CodeBlock::setStartingVarId numbers a nested block from      *)
(* behind its parent, however deep it is, for every source that the parser *)
(* accepts.                                                                *)
(***************************************************************************)
THEOREM SlotsTheorem == Spec => []SlotsDistinct
  <1>1. Init => TypeOK /\ Contents
    BY InitOK, InitContents
  <1>2. TypeOK /\ Contents /\ [Next]_vars => (TypeOK /\ Contents)'
    BY NextOK, NextContents
  <1>3. TypeOK /\ Contents => SlotsDistinct
    BY ContentsSlots
  <1> QED BY <1>1, <1>2, <1>3, PTL DEF Spec
=============================================================================
