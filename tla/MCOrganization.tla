--------------------------- MODULE MCOrganization ---------------------------
(* Organization with a few users, addresses and web workers as model       *)
(* values.  Both halves have the same workers: the half that rests looks   *)
(* the same however they are permuted.                                     *)
EXTENDS Organization, TLC

CONSTANTS u1, u2, u3, g1, a1, w1, w2

OneAddress == a1 :> g1

Symmetry == Permutations(Users) \union Permutations(Workers)

=============================================================================
