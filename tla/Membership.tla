----------------------------- MODULE Membership -----------------------------
(***************************************************************************)
(* The members of one organization: MemberDetailView of                    *)
(* apps/organizations changes their roles and removes them, and            *)
(* DeleteAccountView of apps/auth_core deletes a user, and with an owner   *)
(* the organization.  Both guard the last owner by reading first and       *)
(* saving later, in autocommit mode and without a lock, so every statement *)
(* is a step of its own.                                                   *)
(***************************************************************************)
EXTENDS Integers, FiniteSets

CONSTANTS
  Users,     \* the users who are or may become members
  Workers,   \* web workers, each handling one request at a time
  Roles,     \* OrganizationMember.Role; editor and viewer are treated alike
  Ops,       \* the requests that come: "patch", "delete", "leave"
  MaxCalls   \* bound: requests handled

ASSUME MembershipAssumption ==
  /\ IsFiniteSet(Users)
  /\ {"owner", "admin"} \subseteq Roles
  /\ Roles \subseteq {"owner", "admin", "editor", "viewer"}
  /\ Ops \subseteq {"patch", "delete", "leave"}
  /\ MaxCalls \in Nat

Managers == {"owner", "admin"}

\* A request of MemberDetailView: by whom, on whom, and the new role.
Calls == [op : {"patch"}, by : Users, on : Users, as : Roles]
           \union [op : {"delete"}, by : Users, on : Users]

\* DELETE /auth/delete-account/.
Leaves == [op : {"leave"}, by : Users]

NoCall == [op |-> "none"]

VARIABLES
  role,       \* OrganizationMember.role, "none" without a row
  active,     \* OrganizationMember.is_active
  orgActive,  \* Organization.is_active
  deleted,    \* users whose account is gone
  pc, call,   \* a worker's next statement and the request it handles
  asRole,     \* the role of the requester, as read
  seen,       \* the role of the target, as read, "none" once that row is gone
  calls,      \* what is spent of MaxCalls
  dirty,      \* workers whose reads were overwritten by somebody else since
  raced       \* some worker saved on such reads

rows   == <<role, active, orgActive, deleted>>
locals == <<pc, call, asRole, seen, calls>>
vars   == <<rows, locals, dirty, raced>>

Owners == {u \in Users : role[u] = "owner" /\ active[u]}

Label == {"idle", "target", "count", "save", "close", "members", "user"}

-----------------------------------------------------------------------------
(* Helpers *)

Goto(w, l) == pc' = [pc EXCEPT ![w] = l]

\* A worker takes up a request: its reads start here.
Begin(w, c, l) ==
  /\ pc[w] = "idle"
  /\ c.op \in Ops
  /\ calls < MaxCalls
  /\ calls' = calls + 1
  /\ call' = [call EXCEPT ![w] = c]
  /\ dirty' = dirty \ {w}
  /\ Goto(w, l)

End(w) == /\ Goto(w, "idle")
          /\ call' = [call EXCEPT ![w] = NoCall]

\* The member rows change: what the other busy workers have read is old.
Outdate(w) ==
  /\ dirty' = dirty \union {v \in Workers : v # w /\ pc[v] # "idle"}
  /\ raced' = (raced \/ w \in dirty)

-----------------------------------------------------------------------------
(* How members come *)

\* create_organization_with_owner has run.
Init ==
  /\ \E founder \in Users :
       /\ role = [u \in Users |-> IF u = founder THEN "owner" ELSE "none"]
       /\ active = [u \in Users |-> u = founder]
  /\ orgActive = TRUE
  /\ deleted = {}
  /\ pc = [w \in Workers |-> "idle"]
  /\ call = [w \in Workers |-> NoCall]
  /\ asRole = [w \in Workers |-> "none"]
  /\ seen = [w \in Workers |-> "none"]
  /\ calls = 0
  /\ dirty = {}
  /\ raced = FALSE

\* An approved join request or an accepted invitation inserts the row, unless
\* the user has one, even of a removed member (unique_together).
Enter(u, r) ==
  /\ role[u] = "none"
  /\ u \notin deleted
  /\ role' = [role EXCEPT ![u] = r]
  /\ active' = [active EXCEPT ![u] = TRUE]
  /\ dirty' = dirty \union {v \in Workers : pc[v] # "idle"}
  /\ UNCHANGED <<orgActive, deleted, locals, raced>>

-----------------------------------------------------------------------------
(* MemberDetailView *)

\* _get_membership_or_403 and the check of the requester's role; anything
\* else is answered 403.
Authorise(w, c) ==
  /\ active[c.by]
  /\ role[c.by] \in Managers
  /\ Begin(w, c, "target")
  /\ asRole' = [asRole EXCEPT ![w] = role[c.by]]
  /\ UNCHANGED <<rows, seen, raced>>

\* Nobody acts on themselves, and only an owner on the role of owner.
Allowed(w) ==
  LET c == call[w]
  IN  /\ active[c.on]
      /\ c.on # c.by
      /\ c.op = "patch" /\ c.as = "owner" => asRole[w] = "owner"
      /\ c.op = "delete" /\ role[c.on] = "owner" => asRole[w] = "owner"

\* _get_target_member and the checks on it.
FetchTarget(w) ==
  /\ pc[w] = "target"
  /\ \/ /\ Allowed(w)
        /\ seen' = [seen EXCEPT ![w] = role[call[w].on]]
        /\ Goto(w, IF role[call[w].on] = "owner" THEN "count" ELSE "save")
        /\ UNCHANGED call
     \/ /\ ~Allowed(w)
        /\ End(w)
        /\ UNCHANGED seen
  /\ UNCHANGED <<rows, asRole, calls, dirty, raced>>

\* The request takes the role of owner away from its target.
Unseats(c) == c.op = "delete" \/ (c.op = "patch" /\ c.as # "owner")

\* Mutant: the count starts at the wrong end.
LastOneCounted(S) == Cardinality(S) < 1

\* owner_count <= 1
LastOne(S) == Cardinality(S) <= 1

CountOwners(w) ==
  /\ pc[w] = "count"
  /\ \/ /\ LastOne(Owners) /\ Unseats(call[w])
        /\ End(w)
     \/ /\ ~(LastOne(Owners) /\ Unseats(call[w]))
        /\ Goto(w, "save")
        /\ UNCHANGED call
  /\ UNCHANGED <<rows, asRole, seen, calls, dirty, raced>>

\* save(update_fields=...) of the row that was read, whatever it is by now;
\* an error when it has been deleted.
Save(w) ==
  /\ pc[w] = "save"
  /\ LET c == call[w]
     IN  \/ /\ seen[w] # "none"
            /\ \/ /\ c.op = "patch"
                  /\ role' = [role EXCEPT ![c.on] = c.as]
                  /\ UNCHANGED active
               \/ /\ c.op = "delete"
                  /\ active' = [active EXCEPT ![c.on] = FALSE]
                  /\ UNCHANGED role
            /\ Outdate(w)
         \/ /\ seen[w] = "none"
            /\ UNCHANGED <<role, active, dirty, raced>>
  /\ End(w)
  /\ UNCHANGED <<orgActive, deleted, asRole, seen, calls>>

-----------------------------------------------------------------------------
(* DeleteAccountView *)

\* Mutant: the organization of an owner stays open.
ReadOwnedNever(w, c) ==
  /\ c.by \notin deleted
  /\ Begin(w, c, "members")
  /\ UNCHANGED <<rows, asRole, seen, raced>>

\* The owner memberships of the user, removed ones included.
ReadOwned(w, c) ==
  /\ c.by \notin deleted
  /\ Begin(w, c, IF role[c.by] = "owner" THEN "close" ELSE "members")
  /\ UNCHANGED <<rows, asRole, seen, raced>>

\* The organization of an owner becomes inactive, other owners or not.
CloseOrg(w) ==
  /\ pc[w] = "close"
  /\ orgActive' = FALSE
  /\ Goto(w, "members")
  /\ UNCHANGED <<role, active, deleted, call, asRole, seen, calls, dirty, raced>>

\* _delete_user_manually: the membership goes ...
PurgeMember(w) ==
  /\ pc[w] = "members"
  /\ role' = [role EXCEPT ![call[w].by] = "none"]
  /\ active' = [active EXCEPT ![call[w].by] = FALSE]
  /\ seen' = [v \in Workers |->
                IF pc[v] \in {"count", "save"} /\ call[v].on = call[w].by
                  THEN "none" ELSE seen[v]]
  /\ Outdate(w)
  /\ Goto(w, "user")
  /\ UNCHANGED <<orgActive, deleted, call, asRole, calls>>

\* ... then the user, unless a membership refers to it again.
PurgeUser(w) ==
  /\ pc[w] = "user"
  /\ deleted' = IF role[call[w].by] = "none" THEN deleted \union {call[w].by}
                                             ELSE deleted
  /\ End(w)
  /\ UNCHANGED <<role, active, orgActive, asRole, seen, calls, dirty, raced>>

-----------------------------------------------------------------------------

Next ==
  \/ \E u \in Users, r \in Roles : Enter(u, r)
  \/ \E w \in Workers :
       \/ \E c \in Calls : Authorise(w, c)
       \/ \E c \in Leaves : ReadOwned(w, c)
       \/ FetchTarget(w) \/ CountOwners(w) \/ Save(w)
       \/ CloseOrg(w) \/ PurgeMember(w) \/ PurgeUser(w)

Spec == Init /\ [][Next]_vars

-----------------------------------------------------------------------------
(* Properties *)

\* The rows keep their types, and a busy worker handles a request of the
\* kind its statement belongs to.
TypeOK ==
  /\ role \in [Users -> Roles \union {"none"}]
  /\ active \in [Users -> BOOLEAN]
  /\ orgActive \in BOOLEAN
  /\ deleted \in SUBSET Users
  /\ pc \in [Workers -> Label]
  /\ call \in [Workers -> Calls \union Leaves \union {NoCall}]
  /\ \A w \in Workers :
       /\ pc[w] \in {"target", "count", "save"} => call[w] \in Calls
       /\ pc[w] \in {"close", "members", "user"} => call[w] \in Leaves
  /\ asRole \in [Workers -> Roles \union {"none"}]
  /\ seen \in [Workers -> Roles \union {"none"}]
  /\ calls \in Nat
  /\ dirty \in SUBSET Workers
  /\ raced \in BOOLEAN

\* The guards are right: an active organization keeps an active owner as long
\* as no handler saves on reads another one has overwritten.  Changes of
\* role, removals, promotions and deleted accounts do it no harm otherwise.
OwnerUnlessRaced == orgActive /\ ~raced => Owners # {}

(* The inductive invariant: what a worker has read still holds unless it is
   dirty, and a worker about to unseat an owner has seen another one. *)

Informed(w) ==
  w \notin dirty =>
    /\ pc[w] \in {"count", "save"} =>
         active[call[w].on] /\ role[call[w].on] = seen[w]
    /\ pc[w] = "save" /\ seen[w] = "owner" /\ Unseats(call[w]) =>
         Owners \ {call[w].on} # {}
    /\ pc[w] = "members" /\ orgActive => call[w].by \notin Owners

MembershipInv ==
  /\ TypeOK
  /\ \A w \in Workers : Informed(w)
  /\ OwnerUnlessRaced

-----------------------------------------------------------------------------
(* What tests and comments say, and the code does not do *)

\* test_organizations.py:551: "Cannot demote the last owner to a lower role."
OwnersRemain == orgActive => Owners # {}

\* auth_core/v1/views.py:311: the organization is marked inactive if the user
\* who is deleted is an owner of it.
ClosedByAnOwner ==
  [][\A w \in Workers : pc[w] = "close" /\ orgActive /\ ~orgActive'
       => call[w].by \in Owners]_vars

=============================================================================
