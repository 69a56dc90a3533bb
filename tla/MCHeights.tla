------------------------------ MODULE MCHeights ------------------------------
(***************************************************************************)
(* Expressions and statements of every type, in every position they can    *)
(* have, one inside the other.                                             *)
(***************************************************************************)
EXTENDS Heights, MCSources

CallOf(fn, class, args) == [type |-> "call", fn |-> fn, class |-> class, args |-> args]
NewOf(args) == [type |-> "new", class |-> "C", args |-> args]
At(name, e) == [type |-> "array", var |-> name, class |-> "none", index |-> e]
Ref(l, r) == Op("REFERENCE", l, r)
ClassVar == [type |-> "var", var |-> "t", class |-> "C"]
Lambda == [type |-> "function", fn |-> "l"]
Throw(e) == [type |-> "throw", value |-> e]
TryCatch(c, d) == [type |-> "try", var |-> "x", body |-> c, catch |-> d]

Calls == {CallOf("m", "none", args) : args \in {<<>>, <<V("a")>>, <<V("g"), N(1)>>}} \cup
         {CallOf("sm", "none", <<V("a")>>), CallOf("q", "C", <<V("a")>>), CallOf("x", "none", <<N(1)>>),
          Ref(V("a"), CallOf("q", "none", <<V("b"), N(1)>>)),
          Ref(Ref(V("a"), V("q")), CallOf("q", "none", <<>>))}
Plain == {V("this"), V("a"), V("g"), V("s"), ClassVar, N(1), F(1), S(1), At("a", V("i")), At("g", N(0)),
          Ref(V("a"), V("q")), Ref(V("a"), At("q", N(1))), NewOf(<<>>), NewOf(<<V("a"), N(2)>>), Lambda}
Operations == {Op(op, l, r) : op \in Arith \cup Compares, l \in {V("a"), N(2)}, r \in {V("g"), N(1), F(2)}} \cup
              {Op("NOT", Null, V("g")), Op("SUB", NewOf(<<V("a")>>), CallOf("m", "none", <<V("b")>>))}
Places == {V("a"), V("g"), V("s"), At("a", V("i")), Ref(V("a"), V("q"))}
Steps == {Op(op, v, Null) : op \in {"INCREMENT", "DECREMENT"}, v \in Places \ {Ref(V("a"), V("q"))}}
Sets == {Op("SET", p, e) : p \in Places, e \in {V("b"), Op("ADD", V("a"), N(1)), CallOf("m", "none", <<V("a")>>)}}

Bodies == {<<>>, <<Let("x", V("a"))>>, <<CallOf("m", "none", <<>>), Op("INCREMENT", V("g"), Null)>>}
Controls ==
    {IfElse(t, c, d) : t \in {V("g"), Op("LESS_THAN", V("a"), V("b")), Op("GREATER_THAN", V("a"), N(1))},
                       c \in Bodies, d \in Bodies} \cup
    {IfOnly(t, c) : t \in {V("a"), Op("EQUALS", V("a"), N(1))}, c \in Bodies} \cup
    {ForLoop(Let("i", N(0)), t, s, c) : t \in {V("a"), Op("LESS_THAN_EQUAL", V("i"), N(2))},
                       s \in {Op("INCREMENT", V("i"), Null), Let("i", V("b"))}, c \in Bodies} \cup
    {While(V("g"), c) : c \in Bodies} \cup
    {TryCatch(c, d) : c \in Bodies \cup {<<Throw(V("a"))>>}, d \in Bodies} \cup
    {Throw(NewOf(<<>>)), Return(V("a")), [type |-> "return", value |-> Null]}

(* No statement without an effect, and no call of an own method at the head of a reference. *)
WellUsed == {<<e, TRUE>> : e \in Calls \cup Plain \cup Operations \cup Sets \cup Steps} \cup
            {<<e, FALSE>> : e \in Calls \cup Sets \cup Steps \cup Controls}

(* m().q and what can be done with it: a call of an own method at the head of a reference. *)
OwnCallFirst ==
    LET q == Ref(CallOf("m", "none", <<>>), V("q"))
    IN  {<<q, TRUE>>, <<Op("SET", V("x"), q), FALSE>>, <<Op("SET", q, V("a")), FALSE>>}

HMethods == [m |-> "instance", sm |-> "static"]
HClassStatics == [C |-> [t |-> 0]]
=============================================================================
