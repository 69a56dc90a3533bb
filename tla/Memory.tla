------------------------------- MODULE Memory -------------------------------
(***************************************************************************)
(* What the heap promises the rest of the runtime, without free list, marks*)
(* or sweep: an object is created in memory no other object uses, with     *)
(* every slot clear; it changes only when the script stores into it; and it*)
(* disappears only when nothing can reach it any more.                     *)
(***************************************************************************)
EXTENDS Integers, FiniteSets

CONSTANTS Size, Roots, Null

VARIABLES
    extent,    \* where each object ends; its domain is the objects
    field,     \* the references each object holds
    ref,       \* what each root refers to
    pinned     \* objects that are never collected

vars == <<extent, field, ref, pinned>>

Live == DOMAIN extent
Refs(a) == {field[a][i] : i \in DOMAIN field[a]} \ {Null}
Held == {ref[r] : r \in Roots} \ {Null}

Closed(S) == \A a \in S : Refs(a) \cap Live \subseteq S

(* Some set closed under references holds every root, and not a. *)
Unreachable(a) ==
    \E S \in SUBSET Live : Held \subseteq S /\ Closed(S) /\ a \notin S

Init ==
    /\ extent = [a \in {} |-> Null]
    /\ field = [a \in {} |-> Null]
    /\ ref = [r \in Roots |-> Null]
    /\ pinned = {}

Create(a) ==
    /\ a \notin Live
    /\ DOMAIN extent' = Live \cup {a}
    /\ \E end \in a + 1 .. Size :
          /\ \A b \in Live : extent[b] <= a \/ end <= b
          /\ extent' = [b \in Live \cup {a} |-> IF b = a THEN end ELSE extent[b]]
    /\ \E n \in 0 .. Size :
          field' = [b \in Live \cup {a} |->
                       IF b = a THEN [i \in 0 .. n - 1 |-> Null] ELSE field[b]]
    /\ \E r \in Roots : ref' = [ref EXCEPT ![r] = a]
    /\ pinned' \in {pinned, pinned \cup {a}}

Reclaim(a) ==
    /\ a \notin pinned
    /\ Unreachable(a)
    /\ extent' = [b \in Live \ {a} |-> extent[b]]
    /\ field' = [b \in Live \ {a} |-> field[b]]
    /\ UNCHANGED <<ref, pinned>>

Store(a, i, v) ==
    /\ a \in Held
    /\ v \in Live \cup {Null}
    /\ field' = [field EXCEPT ![a][i] = v]
    /\ UNCHANGED <<extent, ref, pinned>>

Load(r, v) ==
    /\ v \in Live \cup {Null}
    /\ ref' = [ref EXCEPT ![r] = v]
    /\ UNCHANGED <<extent, field, pinned>>

Next ==
    \/ \E a \in 0 .. Size - 1 : Create(a)
    \/ \E a \in Live : Reclaim(a)
    \/ \E a \in Held, v \in Live \cup {Null} :
          \E i \in DOMAIN field[a] : Store(a, i, v)
    \/ \E r \in Roots, v \in Live \cup {Null} : Load(r, v)

Spec == Init /\ [][Next]_vars
=============================================================================
