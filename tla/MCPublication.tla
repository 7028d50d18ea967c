---------------------------- MODULE MCPublication ----------------------------
(***************************************************************************)
(* Small instances of Publication for TLC.                                 *)
(***************************************************************************)
EXTENDS Publication, TLC

CONSTANTS w1, w2, w3, c1, c2, c3

\* c2 and c3 both follow c1; neither follows the other.
Fork == {<<c1, c>> : c \in Sha \ {c1}}

WriterSymmetry == Permutations(Writer)
=============================================================================
