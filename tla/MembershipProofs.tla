-------------------------- MODULE MembershipProofs --------------------------
(***************************************************************************)
(* The proof that an organization keeps an owner as long as no handler     *)
(* saves on outdated reads, for any users, web workers and roles.          *)
(***************************************************************************)
EXTENDS Membership, FiniteSetTheorems, TLAPS

USE MembershipAssumption

-----------------------------------------------------------------------------
(* Types *)

\* The state before the first request has the right types.
LEMMA InitTypes == Init => TypeOK
<1> SUFFICES ASSUME Init PROVE TypeOK
  OBVIOUS
<1>1. /\ role \in [Users -> Roles \union {"none"}]
      /\ active \in [Users -> BOOLEAN]
  BY DEF Init
<1>2. pc \in [Workers -> Label] /\ \A w \in Workers : pc[w] = "idle"
  BY DEF Init, Label
<1>3. call \in [Workers -> Calls \union Leaves \union {NoCall}]
  BY DEF Init
<1>4. QED BY <1>1, <1>2, <1>3 DEF Init, TypeOK

\* Every step keeps the types.
LEMMA StepTypes == TypeOK /\ [Next]_vars => TypeOK'
<1> SUFFICES ASSUME TypeOK, [Next]_vars PROVE TypeOK'
  OBVIOUS
<1> USE DEF TypeOK, Label, Goto, rows, locals
<1>1. ASSUME NEW u \in Users, NEW r \in Roles, Enter(u, r) PROVE TypeOK'
  BY <1>1 DEF Enter
<1>2. ASSUME NEW w \in Workers, NEW c \in Calls, Authorise(w, c) PROVE TypeOK'
  BY <1>2 DEF Authorise, Begin, Calls
<1>3. ASSUME NEW w \in Workers, NEW c \in Leaves, ReadOwned(w, c) PROVE TypeOK'
  BY <1>3 DEF ReadOwned, Begin
<1>4. ASSUME NEW w \in Workers, FetchTarget(w) PROVE TypeOK'
  <2>1. call[w].on \in Users
    BY <1>4 DEF FetchTarget, Calls
  <2>2. QED BY <1>4, <2>1 DEF FetchTarget, End
<1>5. ASSUME NEW w \in Workers, CountOwners(w) PROVE TypeOK'
  BY <1>5 DEF CountOwners, End
<1>6. ASSUME NEW w \in Workers, Save(w) PROVE TypeOK'
  <2>1. /\ call[w].on \in Users
        /\ call[w].op = "patch" => call[w].as \in Roles
    BY <1>6 DEF Save, Calls
  <2>2. QED BY <1>6, <2>1 DEF Save, End, Outdate
<1>7. ASSUME NEW w \in Workers, CloseOrg(w) PROVE TypeOK'
  BY <1>7 DEF CloseOrg
<1>8. ASSUME NEW w \in Workers, PurgeMember(w) PROVE TypeOK'
  <2>1. call[w].by \in Users
    BY <1>8 DEF PurgeMember, Leaves
  <2>2. QED BY <1>8, <2>1 DEF PurgeMember, Outdate
<1>9. ASSUME NEW w \in Workers, PurgeUser(w) PROVE TypeOK'
  <2>1. call[w].by \in Users
    BY <1>9 DEF PurgeUser, Leaves
  <2>2. QED BY <1>9, <2>1 DEF PurgeUser, End
<1>10. CASE UNCHANGED vars
  BY <1>10 DEF vars
<1>11. QED
  BY <1>1, <1>2, <1>3, <1>4, <1>5, <1>6, <1>7, <1>8, <1>9, <1>10 DEF Next

\* The type invariant, for all users, workers, roles and bounds.
THEOREM MembershipTypes == Spec => []TypeOK
  BY InitTypes, StepTypes, PTL DEF Spec

-----------------------------------------------------------------------------
(* The owner who remains *)

\* A count above one means another owner.
LEMMA AnotherOwner ==
  ASSUME NEW S, IsFiniteSet(S), ~LastOne(S), NEW x
  PROVE  S \ {x} # {}
<1> SUFFICES ASSUME S \ {x} = {} PROVE FALSE
  OBVIOUS
<1>1. CASE S = {}
  BY <1>1, FS_EmptySet DEF LastOne
<1>2. CASE S = {x}
  BY <1>2, FS_Singleton DEF LastOne
<1>3. QED BY <1>1, <1>2

\* A handler that saves on reads nobody has overwritten leaves an owner.
LEMMA SaveKeepsOwner ==
  ASSUME MembershipInv, NEW w \in Workers, Save(w), ~raced', orgActive
  PROVE  Owners' # {}
<1> DEFINE x == call[w].on
<1>1. /\ x \in Users /\ Owners # {} /\ pc[w] = "save"
      /\ call[w].op \in {"patch", "delete"}
  BY DEF Save, MembershipInv, TypeOK, OwnerUnlessRaced, Calls, Outdate
<1>2. CASE seen[w] = "none"
  BY <1>1, <1>2 DEF Save, Owners
<1>3. ASSUME seen[w] # "none", ~Unseats(call[w]) PROVE Owners' # {}
  <2>1. x \in Owners'
    BY <1>1, <1>3 DEF Save, Owners, MembershipInv, TypeOK, Informed, Unseats, Outdate
  <2>2. QED BY <2>1
<1>4. ASSUME seen[w] # "none", Unseats(call[w]) PROVE Owners' # {}
  <2>1. w \notin dirty
    BY <1>4 DEF Save, Outdate
  <2>2. Owners \ {x} # {}
    BY <1>1, <1>4, <2>1 DEF MembershipInv, Informed, Owners
  <2>3. \A u \in Users \ {x} : role'[u] = role[u] /\ active'[u] = active[u]
    BY <1>1 DEF Save, MembershipInv, TypeOK
  <2>4. QED BY <2>2, <2>3 DEF Owners
<1>5. QED BY <1>2, <1>3, <1>4

\* An owner whose account goes has closed the organization, or another owner
\* is left.
LEMMA PurgeKeepsOwner ==
  ASSUME MembershipInv, NEW w \in Workers, PurgeMember(w), ~raced', orgActive
  PROVE  Owners' # {}
<1>1. w \notin dirty /\ pc[w] = "members" /\ ~raced
  BY DEF PurgeMember, Outdate
<1>2. call[w].by \notin Owners /\ Owners # {}
  BY <1>1 DEF MembershipInv, Informed, OwnerUnlessRaced
<1>3. Owners' = Owners
  BY <1>2 DEF PurgeMember, Owners, MembershipInv, TypeOK
<1>4. QED BY <1>2, <1>3

\* Every step keeps what the workers know.
LEMMA StepInformed ==
  ASSUME MembershipInv, [Next]_vars, NEW v \in Workers
  PROVE  Informed(v)'
<1> USE DEF MembershipInv, TypeOK, Goto, rows, locals
<1>1. ASSUME NEW u \in Users, NEW r \in Roles, Enter(u, r) PROVE Informed(v)'
  BY <1>1 DEF Enter, Informed
<1>2. ASSUME NEW w \in Workers, NEW c \in Calls, Authorise(w, c) PROVE Informed(v)'
  BY <1>2 DEF Authorise, Begin, Informed, Owners
<1>3. ASSUME NEW w \in Workers, NEW c \in Leaves, ReadOwned(w, c) PROVE Informed(v)'
  BY <1>3 DEF ReadOwned, Begin, Informed, Owners
<1>4. ASSUME NEW w \in Workers, FetchTarget(w) PROVE Informed(v)'
  BY <1>4 DEF FetchTarget, End, Allowed, Informed, Owners
<1>5. ASSUME NEW w \in Workers, CountOwners(w) PROVE Informed(v)'
  <2>1. IsFiniteSet(Owners)
    BY FS_Subset DEF Owners
  <2>2. ~LastOne(Owners) => Owners \ {call[w].on} # {}
    BY <2>1, AnotherOwner
  <2>3. Owners' = Owners
    BY <1>5 DEF CountOwners, Owners
  <2>4. QED BY <1>5, <2>2, <2>3 DEF CountOwners, End, Informed, Unseats
<1>6. ASSUME NEW w \in Workers, Save(w) PROVE Informed(v)'
  BY <1>6 DEF Save, End, Outdate, Informed, Owners
<1>7. ASSUME NEW w \in Workers, CloseOrg(w) PROVE Informed(v)'
  BY <1>7 DEF CloseOrg, Informed, Owners
<1>8. ASSUME NEW w \in Workers, PurgeMember(w) PROVE Informed(v)'
  BY <1>8 DEF PurgeMember, Outdate, Informed, Owners
<1>9. ASSUME NEW w \in Workers, PurgeUser(w) PROVE Informed(v)'
  BY <1>9 DEF PurgeUser, End, Informed, Owners
<1>10. CASE UNCHANGED vars
  BY <1>10 DEF vars, Informed, Owners
<1>11. QED
  BY <1>1, <1>2, <1>3, <1>4, <1>5, <1>6, <1>7, <1>8, <1>9, <1>10 DEF Next

\* Every step keeps an owner, or saves on outdated reads, or closes the
\* organization.
LEMMA StepOwner == MembershipInv /\ [Next]_vars => OwnerUnlessRaced'
<1> SUFFICES ASSUME MembershipInv, [Next]_vars, orgActive', ~raced'
             PROVE  Owners' # {}
  BY DEF OwnerUnlessRaced
<1> USE DEF MembershipInv, rows, locals
<1>1. ASSUME NEW u \in Users, NEW r \in Roles, Enter(u, r) PROVE Owners' # {}
  <2>1. \A x \in Users \ {u} : role'[x] = role[x] /\ active'[x] = active[x]
    BY <1>1 DEF Enter, TypeOK
  <2>2. u \notin Owners /\ Owners # {}
    BY <1>1 DEF Enter, Owners, OwnerUnlessRaced
  <2>3. QED BY <2>1, <2>2 DEF Owners
<1>2. ASSUME NEW w \in Workers, Save(w) PROVE Owners' # {}
  BY <1>2, SaveKeepsOwner DEF Save
<1>3. ASSUME NEW w \in Workers, PurgeMember(w) PROVE Owners' # {}
  BY <1>3, PurgeKeepsOwner DEF PurgeMember
<1>4. CASE UNCHANGED <<role, active, orgActive, raced>>
  BY <1>4 DEF Owners, OwnerUnlessRaced
<1>5. Next => \/ UNCHANGED <<role, active, orgActive, raced>>
              \/ \E u \in Users, r \in Roles : Enter(u, r)
              \/ \E w \in Workers : Save(w) \/ PurgeMember(w) \/ CloseOrg(w)
  BY DEF Next, Authorise, ReadOwned, FetchTarget, CountOwners, PurgeUser
<1>6. \A w \in Workers : ~CloseOrg(w)
  BY DEF CloseOrg
<1>7. QED BY <1>1, <1>2, <1>3, <1>4, <1>5, <1>6 DEF vars

\* The inductive invariant, for all users, workers, roles and bounds.
THEOREM MembershipInvariant == Spec => []MembershipInv
<1>1. Init => MembershipInv
  <2>1. Init => OwnerUnlessRaced
    BY DEF Init, OwnerUnlessRaced, Owners
  <2>2. Init => \A w \in Workers : Informed(w)
    BY DEF Init, Informed
  <2>3. QED BY <2>1, <2>2, InitTypes DEF MembershipInv
<1>2. MembershipInv /\ [Next]_vars => MembershipInv'
  BY StepTypes, StepInformed, StepOwner DEF MembershipInv
<1>3. QED BY <1>1, <1>2, PTL DEF Spec

\* An active organization has an active owner, unless a handler saved on reads
\* that another one had overwritten.
THEOREM OwnerRemainsUnlessRaced == Spec => []OwnerUnlessRaced
<1>1. MembershipInv => OwnerUnlessRaced
  BY DEF MembershipInv
<1>2. QED BY <1>1, MembershipInvariant, PTL

=============================================================================
