---------------------------- MODULE MCMembership ----------------------------
(* Membership with a few users and web workers as model values. *)
EXTENDS Membership, TLC

CONSTANTS u1, u2, u3, w1, w2

Symmetry == Permutations(Users) \union Permutations(Workers)

=============================================================================
