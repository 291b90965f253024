---------------------------- MODULE Organization ----------------------------
(***************************************************************************)
(* The two halves of apps/organizations side by side: the roles of the     *)
(* members, and the ways into the organization.  Each half has its own     *)
(* rows, and runs while the other rests in its initial state, so a         *)
(* property of one half is checked as it would be in that half alone.      *)
(***************************************************************************)
EXTENDS Membership, Onboarding

CONSTANT Halves   \* the halves that are looked at

VARIABLE half     \* the one that runs

orgVars == <<half, vars, onboardVars>>

OrgInit == half \in Halves /\ Init /\ OnboardInit

OrgNext ==
  \/ half = "roles" /\ Next /\ UNCHANGED <<half, onboardVars>>
  \/ half = "entries" /\ OnboardNext /\ UNCHANGED <<half, vars>>

OrgSpec == OrgInit /\ [][OrgNext]_orgVars

=============================================================================
