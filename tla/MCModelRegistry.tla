-------------------------- MODULE MCModelRegistry --------------------------
(* Instances of ModelRegistry for TLC. *)
EXTENDS ModelRegistry

CONSTANTS a, b, v1, v2, w1, w2, x1, x2

OnlyA == (a :> v1)
BothV1 == (a :> v1) @@ (b :> v1)
PinNoneOrA == {{}, {a}}
OnlyAServed == (a :> v1) @@ (b :> None)
Unpinned == {{}}
=============================================================================
