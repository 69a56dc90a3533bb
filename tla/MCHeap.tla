------------------------------- MODULE MCHeap -------------------------------
(***************************************************************************)
(* Instances of Heap for TLC, in units of 8 bytes.                         *)
(***************************************************************************)
EXTENDS Heap

CONSTANTS Leaf, Node, Pair, Str

(* No field, one, two, and a string's slot for its native object. *)
MCFieldCount ==
    [c \in Classes |-> CASE c = Leaf -> 0
                         [] c \in {Node, Str} -> 1
                         [] c = Pair -> 2]

(* The roots are interchangeable. *)
RootSymmetry == Permutations(Roots)
=============================================================================
