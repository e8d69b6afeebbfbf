------------------------------ MODULE Selection ------------------------------
(***************************************************************************)
(* What a loop with a test inside copies from a vector: the elements at    *)
(* some positions, in their order.                                         *)
(***************************************************************************)
EXTENDS Integers, Sequences, FiniteSets

\* the elements of sequence s at the positions P, in their order
At(s, P) ==
    [k \in 1 .. Cardinality(P) |->
        s[CHOOSE p \in P : Cardinality({r \in P : r < p}) = k - 1]]
=============================================================================
