---------------------------- MODULE MCToolchain ------------------------------
(***************************************************************************)
(* Sources for Toolchain, and what they are called with.                   *)
(***************************************************************************)
EXTENDS Toolchain, MCSources

InputOf == {Assembled(p).code : p \in Sources}
Called(values) == [{"a", "b", "g"} -> values]
IntInputs == Called({I(-2), I(0), I(3)})
MixedInputs == Called({I(-2), I(3), D(0), D(2)})
InputsFor(p) == IF p \in Generic THEN MixedInputs ELSE IntInputs

(* Sources whose code does not do what they say, and inputs that show it. *)
One == {I(3)}

LoopCopy ==     \* for (i = 0; i < 2; i++) { y = i; x = x + y; } return x;
    {<<Let("x", V("a")), ForLoop(Let("i", N(0)), Op("LESS_THAN", V("i"), N(2)), Op("INCREMENT", V("i"), Null),
                                 <<Let("y", V("i")), Let("x", Op("ADD", V("x"), V("y")))>>), Return(V("x"))>>}

FieldDecrement ==   \* g--; return g;
    {<<Op("DECREMENT", V("g"), Null), Return(V("g"))>>}

OneInputs(p) == Called(One)
=============================================================================
