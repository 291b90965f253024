----------------------------- MODULE Onboarding -----------------------------
(***************************************************************************)
(* How users come into one organization of apps/organizations: they ask    *)
(* and a manager approves or rejects, or they accept an invitation.        *)
(* Only approve_join_request takes a lock; the other handlers read, decide *)
(* in memory and write, each statement a step of its own, with the unique  *)
(* constraints of the tables behind them.  That the reviewer is an owner   *)
(* or admin is Authorise of module Membership.                             *)
(***************************************************************************)
EXTENDS Integers, FiniteSets

CONSTANTS
  Guests,       \* verified users who are not members yet
  Servers,      \* web workers, each handling one request at a time
  Addresses,    \* the e-mail addresses invited, as they are spelled
  HolderOf,     \* the user whose address it is, upper and lower case alike
  MaxAsks,      \* bound: join requests of a user
  MaxInvites    \* bound: invitations to an address

ASSUME OnboardingAssumption ==
  /\ HolderOf \in [Addresses -> Guests]
  /\ MaxAsks \in Nat
  /\ MaxInvites \in Nat

Requests    == Guests \X (1..MaxAsks)         \* the user and the n-th request
Invitations == Addresses \X (1..MaxInvites)   \* the address and the n-th one

Decisions == {"approve", "reject", "cancel"}

Errands == [op : {"ask"}, of : Guests]
           \union [op : Decisions, of : Requests]
           \union [op : {"invite"}, of : Addresses]
           \union [op : {"join"}, of : Invitations]

NoErrand == [op |-> "none"]

VARIABLES
  row,        \* the OrganizationMember row of a user: "none", "active", "removed"
  status,     \* JoinRequest.status, "absent" before it is made
  invite,     \* an invitation: "absent", "open", "lapsed" (unused) or "used"
  at, serves, \* a worker's next statement and the request it handles
  crossed     \* addresses for which two invitations were made at the same time

onboarded == <<row, status, invite>>
onboardVars == <<onboarded, at, serves, crossed>>

Steps == {"idle", "askMember", "askPending", "ask", "decide",
          "invalidate", "invite", "joinMember", "enter", "mark"}

Pending(u) == {r \in Requests : r[1] = u /\ status[r] = "pending"}

Unused(a) == {i \in Invitations : i[1] = a /\ invite[i] \in {"open", "lapsed"}}

-----------------------------------------------------------------------------
(* Helpers *)

TakeUp(w, c, l) ==
  /\ at[w] = "idle"
  /\ at' = [at EXCEPT ![w] = l]
  /\ serves' = [serves EXCEPT ![w] = c]

MoveOn(w, l) ==
  /\ at' = [at EXCEPT ![w] = l]
  /\ UNCHANGED serves

Leave(w) ==
  /\ at' = [at EXCEPT ![w] = "idle"]
  /\ serves' = [serves EXCEPT ![w] = NoErrand]

\* The handler goes on if the check passes, and answers with an error if not.
Check(w, l, passes) ==
  /\ \/ passes /\ MoveOn(w, l)
     \/ ~passes /\ Leave(w)
  /\ UNCHANGED <<onboarded, crossed>>

-----------------------------------------------------------------------------
(* Asking to join *)

OnboardInit ==
  /\ row = [u \in Guests |-> "none"]
  /\ status = [r \in Requests |-> "absent"]
  /\ invite = [i \in Invitations |-> "absent"]
  /\ at = [w \in Servers |-> "idle"]
  /\ serves = [w \in Servers |-> NoErrand]
  /\ crossed = {}

\* CreateJoinRequestSerializer: neither a member nor waiting.
Ask(w, u) ==
  /\ row[u] # "active"
  /\ Pending(u) = {}
  /\ TakeUp(w, [op |-> "ask", of |-> u], "askMember")
  /\ UNCHANGED <<onboarded, crossed>>

\* create_join_request asks both questions again, in two queries.
AskMember(w) ==
  /\ at[w] = "askMember"
  /\ Check(w, "askPending", row[serves[w].of] # "active")

AskPending(w) ==
  /\ at[w] = "askPending"
  /\ Check(w, "ask", Pending(serves[w].of) = {})

\* Mutant: the table has no unique_pending_join_request.
InsertRequestAgain(w) ==
  /\ at[w] = "ask"
  /\ \E r \in Requests :
       /\ r[1] = serves[w].of
       /\ status[r] = "absent"
       /\ status' = [status EXCEPT ![r] = "pending"]
  /\ Leave(w)
  /\ UNCHANGED <<row, invite, crossed>>

\* The insertion; unique_pending_join_request refuses a second pending one.
InsertRequest(w) ==
  /\ at[w] = "ask"
  /\ \/ /\ Pending(serves[w].of) = {}
        /\ \E r \in Requests :
             /\ r[1] = serves[w].of
             /\ status[r] = "absent"
             /\ status' = [status EXCEPT ![r] = "pending"]
     \/ /\ Pending(serves[w].of) # {}
        /\ UNCHANGED status
  /\ Leave(w)
  /\ UNCHANGED <<row, invite, crossed>>

-----------------------------------------------------------------------------
(* Deciding a request *)

\* Mutant: the view leaves the check of the status to the service.
FetchAny(w, d, r) ==
  /\ status[r] # "absent"
  /\ TakeUp(w, [op |-> d, of |-> r], "decide")
  /\ UNCHANGED <<onboarded, crossed>>

\* The view, or an action of JoinRequestAdmin, reads the request.  One that is
\* no longer pending is answered 400 (an approval answers it after the lock, to
\* the same effect) or left out of the admin's selection.
FetchRequest(w, d, r) ==
  /\ status[r] = "pending"
  /\ TakeUp(w, [op |-> d, of |-> r], "decide")
  /\ UNCHANGED <<onboarded, crossed>>

\* Mutant: no select_for_update, the status is the one the view read.
ApproveFetched(w) ==
  LET r == serves[w].of
  IN  /\ at[w] = "decide" /\ serves[w].op = "approve"
      /\ \/ /\ row[r[1]] = "none"
            /\ status' = [status EXCEPT ![r] = "approved"]
            /\ row' = [row EXCEPT ![r[1]] = "active"]
         \/ /\ row[r[1]] # "none"
            /\ UNCHANGED <<status, row>>
      /\ Leave(w)
      /\ UNCHANGED <<invite, crossed>>

\* Mutant: update_or_create in place of create.
ApproveTwice(w) ==
  LET r == serves[w].of
  IN  /\ at[w] = "decide" /\ serves[w].op = "approve"
      /\ \/ /\ status[r] = "pending"
            /\ status' = [status EXCEPT ![r] = "approved"]
            /\ row' = [row EXCEPT ![r[1]] = "active"]
         \/ /\ status[r] # "pending"
            /\ UNCHANGED <<status, row>>
      /\ Leave(w)
      /\ UNCHANGED <<invite, crossed>>

\* approve_join_request, one transaction: the status is read again under a
\* lock, the member is inserted and the request approved.  A row that exists,
\* active or removed, fails the insertion and rolls everything back.  No request
\* is_expired: JoinRequest.save sets expires_at only while there is no primary
\* key, and the UUID default is there from the start.
Approve(w) ==
  LET r  == serves[w].of
      ok == status[r] = "pending" /\ row[r[1]] = "none"
  IN  /\ at[w] = "decide" /\ serves[w].op = "approve"
      /\ \/ /\ ok
            /\ status' = [status EXCEPT ![r] = "approved"]
            /\ row' = [row EXCEPT ![r[1]] = "active"]
         \/ /\ ~ok
            /\ UNCHANGED <<status, row>>
      /\ Leave(w)
      /\ UNCHANGED <<invite, crossed>>

\* reject_join_request and CancelJoinRequestView save their decision over
\* whatever the status is by now: the one they check was read before.
Overrule(w) ==
  LET r == serves[w].of
  IN  /\ at[w] = "decide" /\ serves[w].op # "approve"
      /\ status' = [status EXCEPT ![r] =
                      IF serves[w].op = "reject" THEN "rejected" ELSE "cancelled"]
      /\ Leave(w)
      /\ UNCHANGED <<row, invite, crossed>>

-----------------------------------------------------------------------------
(* Invitations *)

\* InviteView: whoever holds the address is not a member.
Invite(w, a) ==
  /\ row[HolderOf[a]] # "active"
  /\ TakeUp(w, [op |-> "invite", of |-> a], "invalidate")
  /\ UNCHANGED <<onboarded, crossed>>

\* Mutant: only invitations that can still be accepted are invalidated.
InvalidateOpen(w) ==
  LET a == serves[w].of
  IN  /\ at[w] = "invalidate"
      /\ invite' = [i \in Invitations |->
                      IF i[1] = a /\ invite[i] = "open" THEN "used" ELSE invite[i]]
      /\ MoveOn(w, "invite")
      /\ UNCHANGED <<row, status, crossed>>

\* create_invitation first marks the unused ones to the same spelling used ...
Invalidate(w) ==
  LET a == serves[w].of
  IN  /\ at[w] = "invalidate"
      /\ invite' = [i \in Invitations |->
                      IF i \in Unused(a) THEN "used" ELSE invite[i]]
      /\ MoveOn(w, "invite")
      /\ UNCHANGED <<row, status, crossed>>

\* ... then makes the new one.
InsertInvitation(w) ==
  LET a == serves[w].of
  IN  /\ at[w] = "invite"
      /\ \E i \in Invitations :
           /\ i[1] = a
           /\ invite[i] = "absent"
           /\ invite' = [invite EXCEPT ![i] = "open"]
      /\ crossed' = IF \E v \in Servers \ {w} : at[v] = "invite" /\ serves[v].of = a
                      THEN crossed \union {a} ELSE crossed
      /\ Leave(w)
      /\ UNCHANGED <<row, status>>

\* expires_at goes by.
LapseInvitation(i) ==
  /\ invite[i] = "open"
  /\ invite' = [invite EXCEPT ![i] = "lapsed"]
  /\ UNCHANGED <<row, status, at, serves, crossed>>

\* JoinOrganizationView: the holder of the address presents an invitation
\* that is neither used nor expired; anybody else is answered 403.
PresentInvitation(w, i) ==
  /\ invite[i] = "open"
  /\ TakeUp(w, [op |-> "join", of |-> i], "joinMember")
  /\ UNCHANGED <<onboarded, crossed>>

JoinMember(w) ==
  /\ at[w] = "joinMember"
  /\ Check(w, "enter", row[HolderOf[serves[w].of[1]]] # "active")

\* Mutant: update_or_create in place of create.
InsertMemberAgain(w) ==
  /\ at[w] = "enter"
  /\ row' = [row EXCEPT ![HolderOf[serves[w].of[1]]] = "active"]
  /\ MoveOn(w, "mark")
  /\ UNCHANGED <<status, invite, crossed>>

\* The insertion of the member; unique_together refuses a second row, even of
\* a removed member, and the invitation stays as it is.
InsertMember(w) ==
  LET u == HolderOf[serves[w].of[1]]
  IN  /\ at[w] = "enter"
      /\ \/ /\ row[u] = "none"
            /\ row' = [row EXCEPT ![u] = "active"]
            /\ MoveOn(w, "mark")
         \/ /\ row[u] # "none"
            /\ Leave(w)
            /\ UNCHANGED row
      /\ UNCHANGED <<status, invite, crossed>>

MarkUsed(w) ==
  /\ at[w] = "mark"
  /\ invite' = [invite EXCEPT ![serves[w].of] = "used"]
  /\ Leave(w)
  /\ UNCHANGED <<row, status, crossed>>

-----------------------------------------------------------------------------
(* Around the handlers *)

\* MemberDetailView.delete of module Membership: the row stays, inactive.
Remove(u) ==
  /\ row[u] = "active"
  /\ row' = [row EXCEPT ![u] = "removed"]
  /\ UNCHANGED <<status, invite, at, serves, crossed>>

\* A web worker dies between two statements.
Die(w) ==
  /\ at[w] # "idle"
  /\ Leave(w)
  /\ UNCHANGED <<onboarded, crossed>>

OnboardNext ==
  \/ \E w \in Servers :
       \/ \E u \in Guests : Ask(w, u)
       \/ \E d \in Decisions, r \in Requests : FetchRequest(w, d, r)
       \/ \E a \in Addresses : Invite(w, a)
       \/ \E i \in Invitations : PresentInvitation(w, i)
       \/ AskMember(w) \/ AskPending(w) \/ InsertRequest(w)
       \/ Approve(w) \/ Overrule(w)
       \/ Invalidate(w) \/ InsertInvitation(w)
       \/ JoinMember(w) \/ InsertMember(w) \/ MarkUsed(w)
       \/ Die(w)
  \/ \E i \in Invitations : LapseInvitation(i)
  \/ \E u \in Guests : Remove(u)

OnboardSpec == OnboardInit /\ [][OnboardNext]_onboardVars

-----------------------------------------------------------------------------
(* Properties *)

\* The rows keep their types, and a busy worker handles a request of the kind
\* its statement belongs to.
OnboardTypeOK ==
  /\ row \in [Guests -> {"none", "active", "removed"}]
  /\ status \in [Requests ->
                   {"absent", "pending", "approved", "rejected", "cancelled"}]
  /\ invite \in [Invitations -> {"absent", "open", "lapsed", "used"}]
  /\ at \in [Servers -> Steps]
  /\ serves \in [Servers -> Errands \union {NoErrand}]
  /\ \A w \in Servers :
       /\ at[w] \in {"askMember", "askPending", "ask"} => serves[w].of \in Guests
       /\ at[w] = "decide" => serves[w].of \in Requests
       /\ at[w] \in {"invalidate", "invite"} => serves[w].of \in Addresses
       /\ at[w] \in {"joinMember", "enter", "mark"} => serves[w].of \in Invitations
  /\ crossed \in SUBSET Addresses

\* A user waits with one request at most, whatever handlers run at the same
\* time: their checks alone do not see to that.
OnePendingRequest ==
  \A r, s \in Requests :
    r[1] = s[1] /\ status[r] = "pending" /\ status[s] = "pending" => r = s

\* An approved request stands for the one time its user came in: the user has
\* a row, and no other request of the same user was approved.
ApprovedIsIn ==
  \A r \in Requests : status[r] = "approved" =>
    /\ row[r[1]] # "none"
    /\ \A s \in Requests : s[1] = r[1] /\ status[s] = "approved" => s = r

\* A request that was rejected or cancelled is never approved afterwards, and
\* none is ever reopened.
DecidedIsNotApproved ==
  [][\A r \in Requests :
       /\ status[r] \in {"rejected", "cancelled"} =>
            status'[r] \in {"rejected", "cancelled"}
       /\ status[r] # "absent" => status'[r] = status[r] \/ status'[r] # "pending"
    ]_onboardVars

\* A request is settled when it is decided and no rejection or cancellation that
\* read it earlier is still to be saved.
Settled(r) ==
  /\ status[r] \in {"approved", "rejected", "cancelled"}
  /\ ~ \E w \in Servers : at[w] = "decide" /\ serves[w].of = r /\ serves[w].op # "approve"

\* Only those who read a request before it was decided can decide it again:
\* once they are done the decision stands (reject_join_request,
\* CancelJoinRequestView).
SettledForGood ==
  [][\A r \in Requests :
       Settled(r) => Settled(r)' /\ status'[r] = status[r]]_onboardVars

\* A removed member stays out: neither an invitation of an earlier day nor a
\* new request brings the row back.
RemovedStaysOut ==
  [][\A u \in Guests : row[u] = "removed" => row'[u] = "removed"]_onboardVars

\* A new invitation replaces the earlier ones to the same address, unless two
\* were made at the same time.
OneInvitation ==
  \A a \in Addresses \ crossed :
    \A i, j \in Unused(a) : i = j

(* The inductive invariant: whoever is about to make an invitation has none
   in the way, unless two make one. *)

Cleared(w) ==
  at[w] = "invite" /\ serves[w].of \notin crossed => Unused(serves[w].of) = {}

OnboardingInv ==
  /\ OnboardTypeOK
  /\ OnePendingRequest
  /\ ApprovedIsIn
  /\ OneInvitation
  /\ \A w \in Servers : Cleared(w)

-----------------------------------------------------------------------------
(* What the documentation says, and the code does not do *)

\* docs/api/organizations/v1.html:621: "Only pending requests can be cancelled.",
\* and 728: "Reject a pending join request."
ApprovalStands ==
  [][\A r \in Requests : status[r] = "approved" => status'[r] = "approved"]_onboardVars

=============================================================================
