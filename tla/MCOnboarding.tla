---------------------------- MODULE MCOnboarding ----------------------------
(* Onboarding with a few users, addresses and web workers as model values. *)
EXTENDS Onboarding, TLC

CONSTANTS g1, g2, a1, a2, a3, w1, w2

TwoSpellings == a1 :> g1 @@ a2 :> g1 @@ a3 :> g2

=============================================================================
