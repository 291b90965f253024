-------------------------- MODULE OnboardingProofs --------------------------
(***************************************************************************)
(* Proofs about Onboarding for any users, web workers and addresses: what  *)
(* the lock, the unique constraints and the invalidation of invitations    *)
(* guarantee whatever handlers run at the same time.                       *)
(***************************************************************************)
EXTENDS Onboarding, TLAPS

USE OnboardingAssumption

Statuses == {"absent", "pending", "approved", "rejected", "cancelled"}

-----------------------------------------------------------------------------
(* Types *)

\* A request belongs to a user, an invitation to an address with a holder.
LEMMA OnboardParts ==
  /\ \A r \in Requests : r[1] \in Guests
  /\ \A i \in Invitations : i[1] \in Addresses /\ HolderOf[i[1]] \in Guests
BY DEF Requests, Invitations

\* What is called has the type its operation says.
LEMMA CallTypes ==
  /\ \A u \in Guests : [op |-> "ask", of |-> u] \in Errands
  /\ \A d \in Decisions, r \in Requests : [op |-> d, of |-> r] \in Errands
  /\ \A a \in Addresses : [op |-> "invite", of |-> a] \in Errands
  /\ \A i \in Invitations : [op |-> "join", of |-> i] \in Errands
BY DEF Errands

\* The first state has the right types.
LEMMA OnboardInitTypes == OnboardInit => OnboardTypeOK
BY DEF OnboardInit, OnboardTypeOK, Steps

\* Every step keeps the types.
LEMMA OnboardStepTypes == OnboardTypeOK /\ [OnboardNext]_onboardVars => OnboardTypeOK'
<1> SUFFICES ASSUME OnboardTypeOK, [OnboardNext]_onboardVars PROVE OnboardTypeOK'
  OBVIOUS
<1> USE DEF OnboardTypeOK, Steps, MoveOn, Leave, onboarded
<1>1. ASSUME NEW w \in Servers, NEW u \in Guests, Ask(w, u) PROVE OnboardTypeOK'
  BY <1>1, CallTypes DEF Ask, TakeUp
<1>2. ASSUME NEW w \in Servers, NEW d \in Decisions, NEW r \in Requests,
             FetchRequest(w, d, r)
      PROVE  OnboardTypeOK'
  BY <1>2, CallTypes DEF FetchRequest, TakeUp
<1>3. ASSUME NEW w \in Servers, NEW a \in Addresses, Invite(w, a) PROVE OnboardTypeOK'
  BY <1>3, CallTypes DEF Invite, TakeUp
<1>4. ASSUME NEW w \in Servers, NEW i \in Invitations, PresentInvitation(w, i) PROVE OnboardTypeOK'
  BY <1>4, CallTypes DEF PresentInvitation, TakeUp
<1>5. ASSUME NEW w \in Servers, AskMember(w) PROVE OnboardTypeOK'
  BY <1>5 DEF AskMember, Check
<1>6. ASSUME NEW w \in Servers, AskPending(w) PROVE OnboardTypeOK'
  BY <1>6 DEF AskPending, Check
<1>7. ASSUME NEW w \in Servers, InsertRequest(w) PROVE OnboardTypeOK'
  BY <1>7 DEF InsertRequest
<1>8. ASSUME NEW w \in Servers, Approve(w) PROVE OnboardTypeOK'
  BY <1>8, OnboardParts DEF Approve
<1>9. ASSUME NEW w \in Servers, Overrule(w) PROVE OnboardTypeOK'
  BY <1>9 DEF Overrule
<1>10. ASSUME NEW w \in Servers, Invalidate(w) PROVE OnboardTypeOK'
  BY <1>10 DEF Invalidate
<1>11. ASSUME NEW w \in Servers, InsertInvitation(w) PROVE OnboardTypeOK'
  BY <1>11 DEF InsertInvitation
<1>12. ASSUME NEW w \in Servers, JoinMember(w) PROVE OnboardTypeOK'
  BY <1>12 DEF JoinMember, Check
<1>13. ASSUME NEW w \in Servers, InsertMember(w) PROVE OnboardTypeOK'
  BY <1>13, OnboardParts DEF InsertMember
<1>14. ASSUME NEW w \in Servers, MarkUsed(w) PROVE OnboardTypeOK'
  BY <1>14 DEF MarkUsed
<1>15. ASSUME NEW w \in Servers, Die(w) PROVE OnboardTypeOK'
  BY <1>15 DEF Die
<1>16. ASSUME NEW i \in Invitations, LapseInvitation(i) PROVE OnboardTypeOK'
  BY <1>16 DEF LapseInvitation
<1>17. ASSUME NEW u \in Guests, Remove(u) PROVE OnboardTypeOK'
  BY <1>17 DEF Remove
<1>18. CASE UNCHANGED onboardVars
  BY <1>18 DEF onboardVars
<1>19. QED
  BY <1>1, <1>2, <1>3, <1>4, <1>5, <1>6, <1>7, <1>8, <1>9, <1>10, <1>11,
     <1>12, <1>13, <1>14, <1>15, <1>16, <1>17, <1>18 DEF OnboardNext

\* The type invariant holds in every reachable state.
THEOREM OnboardingTypes == OnboardSpec => []OnboardTypeOK
<1>1. QED BY OnboardInitTypes, OnboardStepTypes, PTL DEF OnboardSpec

-----------------------------------------------------------------------------
(* What a step does to each table *)

\* A request changes only by being made when none of its user's is pending,
\* by an approval of a pending one, or by a rejection or cancellation.
LEMMA RequestStep ==
  ASSUME OnboardTypeOK, [OnboardNext]_onboardVars
  PROVE  \/ UNCHANGED <<row, status>>
         \/ /\ UNCHANGED row
            /\ \E r \in Requests : /\ status[r] = "absent"
                                   /\ Pending(r[1]) = {}
                                   /\ status' = [status EXCEPT ![r] = "pending"]
         \/ \E r \in Requests : /\ status[r] = "pending"
                                /\ row[r[1]] = "none"
                                /\ status' = [status EXCEPT ![r] = "approved"]
                                /\ row' = [row EXCEPT ![r[1]] = "active"]
         \/ /\ UNCHANGED row
            /\ \E r \in Requests, s \in {"rejected", "cancelled"} :
                 /\ status' = [status EXCEPT ![r] = s]
                 /\ \E w \in Servers : Overrule(w) /\ serves[w].of = r
         \/ /\ UNCHANGED status
            /\ \E u \in Guests : \/ row[u] = "none" /\ row' = [row EXCEPT ![u] = "active"]
                                 \/ row[u] = "active" /\ row' = [row EXCEPT ![u] = "removed"]
<1> DEFINE Made == /\ UNCHANGED row
                   /\ \E r \in Requests : /\ status[r] = "absent"
                                          /\ Pending(r[1]) = {}
                                          /\ status' = [status EXCEPT ![r] = "pending"]
           Approved == \E r \in Requests : /\ status[r] = "pending"
                                           /\ row[r[1]] = "none"
                                           /\ status' = [status EXCEPT ![r] = "approved"]
                                           /\ row' = [row EXCEPT ![r[1]] = "active"]
           Overruled == /\ UNCHANGED row
                        /\ \E r \in Requests, s \in {"rejected", "cancelled"} :
                             /\ status' = [status EXCEPT ![r] = s]
                             /\ \E w \in Servers : Overrule(w) /\ serves[w].of = r
           Moved == /\ UNCHANGED status
                    /\ \E u \in Guests :
                         \/ row[u] = "none" /\ row' = [row EXCEPT ![u] = "active"]
                         \/ row[u] = "active" /\ row' = [row EXCEPT ![u] = "removed"]
           Same == UNCHANGED <<row, status>>
<1> SUFFICES Same \/ Made \/ Approved \/ Overruled \/ Moved
  OBVIOUS
<1> HIDE DEF Same, Made, Approved, Overruled, Moved
<1>1. ASSUME NEW w \in Servers, InsertRequest(w) PROVE Same \/ Made
  BY <1>1 DEF InsertRequest, Same, Made
<1>2. ASSUME NEW w \in Servers, Approve(w) PROVE Same \/ Approved
  <2>1. serves[w].of \in Requests
    BY <1>2 DEF Approve, OnboardTypeOK
  <2>2. QED BY <1>2, <2>1 DEF Approve, Same, Approved
<1>3. ASSUME NEW w \in Servers, Overrule(w) PROVE Overruled
  <2>1. serves[w].of \in Requests
    BY <1>3 DEF Overrule, OnboardTypeOK
  <2>2. QED BY <1>3, <2>1 DEF Overrule, Overruled
<1>4. ASSUME NEW w \in Servers, InsertMember(w) PROVE Same \/ Moved
  <2>1. HolderOf[serves[w].of[1]] \in Guests
    BY <1>4, OnboardParts DEF InsertMember, OnboardTypeOK
  <2>2. QED BY <1>4, <2>1 DEF InsertMember, Same, Moved
<1>5. ASSUME NEW u \in Guests, Remove(u) PROVE Moved
  BY <1>5 DEF Remove, Moved
<1>6. ASSUME NEW w \in Servers,
             \/ \E u \in Guests : Ask(w, u)
             \/ \E d \in Decisions, r \in Requests : FetchRequest(w, d, r)
             \/ \E a \in Addresses : Invite(w, a)
             \/ \E i \in Invitations : PresentInvitation(w, i)
             \/ AskMember(w) \/ AskPending(w) \/ JoinMember(w)
             \/ Invalidate(w) \/ InsertInvitation(w) \/ MarkUsed(w) \/ Die(w)
      PROVE  Same
  BY <1>6 DEF Ask, FetchRequest, Invite, PresentInvitation, AskMember, AskPending, JoinMember,
              Check, Invalidate, InsertInvitation, MarkUsed, Die, onboarded, Same
<1>7. ASSUME NEW i \in Invitations, LapseInvitation(i) PROVE Same
  BY <1>7 DEF LapseInvitation, Same
<1>8. CASE UNCHANGED onboardVars
  BY <1>8 DEF onboardVars, onboarded, Same
<1>9. QED
  BY <1>1, <1>2, <1>3, <1>4, <1>5, <1>6, <1>7, <1>8 DEF OnboardNext

\* Invitations are made, one at a time by a worker that is about to, cleared
\* away with their address, or spent.
LEMMA InviteStep ==
  ASSUME OnboardTypeOK, [OnboardNext]_onboardVars, NEW a \in Addresses
  PROVE  \/ Unused(a)' \subseteq Unused(a)
         \/ \E w \in Servers : InsertInvitation(w) /\ serves[w].of = a
<1>1. ASSUME NEW w \in Servers, InsertInvitation(w), serves[w].of # a
      PROVE  Unused(a)' \subseteq Unused(a)
  BY <1>1 DEF InsertInvitation, OnboardTypeOK, Unused
<1>2. ASSUME NEW w \in Servers, Invalidate(w) PROVE Unused(a)' \subseteq Unused(a)
  BY <1>2 DEF Invalidate, OnboardTypeOK, Unused
<1>3. ASSUME NEW w \in Servers, MarkUsed(w) PROVE Unused(a)' \subseteq Unused(a)
  BY <1>3 DEF MarkUsed, OnboardTypeOK, Unused
<1>4. ASSUME NEW i \in Invitations, LapseInvitation(i) PROVE Unused(a)' \subseteq Unused(a)
  BY <1>4 DEF LapseInvitation, OnboardTypeOK, Unused
<1>5. ASSUME UNCHANGED invite PROVE Unused(a)' \subseteq Unused(a)
  BY <1>5 DEF Unused
<1>6. ASSUME NEW w \in Servers,
             \/ \E u \in Guests : Ask(w, u)
             \/ \E d \in Decisions, r \in Requests : FetchRequest(w, d, r)
             \/ \E b \in Addresses : Invite(w, b)
             \/ \E i \in Invitations : PresentInvitation(w, i)
             \/ AskMember(w) \/ AskPending(w) \/ JoinMember(w)
             \/ InsertRequest(w) \/ Approve(w) \/ Overrule(w)
             \/ InsertMember(w) \/ Die(w)
      PROVE  UNCHANGED invite
  BY <1>6 DEF Ask, FetchRequest, Invite, PresentInvitation, AskMember, AskPending, JoinMember,
              Check, InsertRequest, Approve, Overrule, InsertMember, Die, onboarded
<1>7. ASSUME NEW u \in Guests, Remove(u) PROVE UNCHANGED invite
  BY <1>7 DEF Remove
<1>8. ASSUME UNCHANGED onboardVars PROVE UNCHANGED invite
  BY <1>8 DEF onboardVars, onboarded
<1>9. QED
  BY <1>1, <1>2, <1>3, <1>4, <1>5, <1>6, <1>7, <1>8 DEF OnboardNext

\* A worker is about to make an invitation because it was, or because it has
\* just cleared the address.
LEMMA InvitingStep ==
  ASSUME OnboardTypeOK, [OnboardNext]_onboardVars, NEW v \in Servers, at'[v] = "invite"
  PROVE  /\ serves'[v] = serves[v]
         /\ serves[v].of \in Addresses
         /\ \/ at[v] = "invite"
            \/ Unused(serves[v].of)' = {}
<1> USE DEF OnboardTypeOK, Steps
<1>1. ASSUME NEW w \in Servers, Invalidate(w)
      PROVE  /\ serves' = serves
             /\ at' = [at EXCEPT ![w] = "invite"]
             /\ at[w] = "invalidate"
             /\ Unused(serves[w].of)' = {}
  BY <1>1 DEF Invalidate, MoveOn, Unused
<1>2. ASSUME NEW w \in Servers, InsertInvitation(w)
      PROVE  at'[w] = "idle" /\ (v # w => at'[v] = at[v] /\ serves'[v] = serves[v])
  BY <1>2 DEF InsertInvitation, Leave
<1>3. ASSUME NEW w \in Servers,
             \/ \E u \in Guests : Ask(w, u)
             \/ \E d \in Decisions, r \in Requests : FetchRequest(w, d, r)
             \/ \E a \in Addresses : Invite(w, a)
             \/ \E i \in Invitations : PresentInvitation(w, i)
      PROVE  at'[w] # "invite" /\ (v # w => at'[v] = at[v] /\ serves'[v] = serves[v])
  BY <1>3 DEF Ask, FetchRequest, Invite, PresentInvitation, TakeUp
<1>4. ASSUME NEW w \in Servers,
             \/ AskMember(w) \/ AskPending(w) \/ JoinMember(w)
             \/ InsertRequest(w) \/ Approve(w) \/ Overrule(w)
             \/ InsertMember(w) \/ MarkUsed(w) \/ Die(w)
      PROVE  at'[w] # "invite" /\ (v # w => at'[v] = at[v] /\ serves'[v] = serves[v])
  BY <1>4 DEF AskMember, AskPending, JoinMember, Check, InsertRequest, Approve,
              Overrule, InsertMember, MarkUsed, Die, MoveOn, Leave
<1>5. ASSUME \/ \E i \in Invitations : LapseInvitation(i)
             \/ \E u \in Guests : Remove(u)
             \/ UNCHANGED onboardVars
      PROVE  UNCHANGED <<at, serves>>
  BY <1>5 DEF LapseInvitation, Remove, onboardVars
<1>6. serves'[v] = serves[v] /\ (at[v] = "invite" \/ Unused(serves[v].of)' = {})
  <2>1. ASSUME NEW w \in Servers, Invalidate(w)
        PROVE  serves'[v] = serves[v] /\ (at[v] = "invite" \/ Unused(serves[v].of)' = {})
    <3>1. CASE v = w
      BY <1>1, <2>1, <3>1
    <3>2. CASE v # w
      BY <1>1, <2>1, <3>2
    <3>3. QED BY <3>1, <3>2
  <2>2. ASSUME NEW w \in Servers,
               at'[w] # "invite" /\ (v # w => at'[v] = at[v] /\ serves'[v] = serves[v])
        PROVE  serves'[v] = serves[v] /\ at[v] = "invite"
    BY <2>2
  <2>3. QED BY <1>2, <1>3, <1>4, <1>5, <2>1, <2>2 DEF OnboardNext
<1>7. serves[v].of \in Addresses
  <2>1. OnboardTypeOK'
    BY OnboardStepTypes
  <2>2. QED BY <1>6, <2>1
<1>8. QED BY <1>6, <1>7

\* An address whose invitations crossed stays marked.
LEMMA CrossedStep == OnboardTypeOK /\ [OnboardNext]_onboardVars => crossed \subseteq crossed'
<1> SUFFICES ASSUME OnboardTypeOK, [OnboardNext]_onboardVars PROVE crossed \subseteq crossed'
  OBVIOUS
<1>1. ASSUME NEW w \in Servers, InsertInvitation(w) PROVE crossed \subseteq crossed'
  BY <1>1 DEF InsertInvitation
<1>2. ASSUME NEW w \in Servers,
             \/ \E u \in Guests : Ask(w, u)
             \/ \E d \in Decisions, r \in Requests : FetchRequest(w, d, r)
             \/ \E a \in Addresses : Invite(w, a)
             \/ \E i \in Invitations : PresentInvitation(w, i)
             \/ AskMember(w) \/ AskPending(w) \/ JoinMember(w)
             \/ InsertRequest(w) \/ Approve(w) \/ Overrule(w)
             \/ Invalidate(w) \/ InsertMember(w) \/ MarkUsed(w) \/ Die(w)
      PROVE  UNCHANGED crossed
  BY <1>2 DEF Ask, FetchRequest, Invite, PresentInvitation, AskMember, AskPending, JoinMember,
              Check, InsertRequest, Approve, Overrule, Invalidate, InsertMember, MarkUsed, Die
<1>3. ASSUME \/ \E i \in Invitations : LapseInvitation(i)
             \/ \E u \in Guests : Remove(u)
             \/ UNCHANGED onboardVars
      PROVE  UNCHANGED crossed
  BY <1>3 DEF LapseInvitation, Remove, onboardVars
<1>4. QED BY <1>1, <1>2, <1>3 DEF OnboardNext

-----------------------------------------------------------------------------
(* The inductive invariant *)

LEMMA OnboardInvInit == OnboardInit => OnboardingInv
<1>1. OnboardInit => OnePendingRequest /\ ApprovedIsIn
  BY DEF OnboardInit, OnePendingRequest, ApprovedIsIn
<1>2. OnboardInit => OneInvitation /\ \A w \in Servers : Cleared(w)
  BY DEF OnboardInit, OneInvitation, Unused, Cleared
<1>3. QED BY <1>1, <1>2, OnboardInitTypes DEF OnboardingInv

\* The unique constraint keeps a user from waiting twice.
LEMMA StepPending ==
  ASSUME OnboardingInv, [OnboardNext]_onboardVars
  PROVE  OnePendingRequest'
<1> SUFFICES ASSUME NEW r \in Requests, NEW s \in Requests, r[1] = s[1],
                    status'[r] = "pending", status'[s] = "pending"
             PROVE  r = s
  BY DEF OnePendingRequest
<1>1. status \in [Requests -> Statuses]
  BY DEF OnboardingInv, OnboardTypeOK, Statuses
<1>2. status[r] = "pending" /\ status[s] = "pending" => r = s
  BY DEF OnboardingInv, OnePendingRequest
<1>3. ASSUME NEW t \in Requests, status' = [status EXCEPT ![t] = "pending"],
             Pending(t[1]) = {}
      PROVE  r = s
  BY <1>1, <1>2, <1>3 DEF Pending
<1>4. ASSUME NEW t \in Requests, NEW d \in Statuses, d # "pending",
             status' = [status EXCEPT ![t] = d]
      PROVE  r = s
  BY <1>1, <1>2, <1>4
<1>5. QED BY <1>2, <1>3, <1>4, RequestStep DEF OnboardingInv, Statuses

\* An approval inserts the member; rows do not go, and a second row is
\* refused, so a second request of the same user cannot be approved.
LEMMA StepApproved ==
  ASSUME OnboardingInv, [OnboardNext]_onboardVars
  PROVE  ApprovedIsIn'
<1> USE DEF Statuses
<1>1. status \in [Requests -> Statuses] /\ row \in [Guests -> {"none", "active", "removed"}]
  BY DEF OnboardingInv, OnboardTypeOK
<1> SUFFICES ASSUME NEW r \in Requests, status'[r] = "approved"
             PROVE  /\ row'[r[1]] # "none"
                    /\ \A s \in Requests :
                         s[1] = r[1] /\ status'[s] = "approved" => s = r
  BY DEF ApprovedIsIn
<1>2. \A q \in Requests : status[q] = "approved" =>
        /\ row[q[1]] # "none"
        /\ \A s \in Requests : s[1] = q[1] /\ status[s] = "approved" => s = q
  BY DEF OnboardingInv, ApprovedIsIn
<1>3. CASE UNCHANGED <<row, status>>
  BY <1>2, <1>3
<1>4. ASSUME UNCHANGED row, NEW t \in Requests, NEW d \in Statuses, d # "approved",
             status' = [status EXCEPT ![t] = d]
      PROVE  /\ row'[r[1]] # "none"
             /\ \A s \in Requests :
                  s[1] = r[1] /\ status'[s] = "approved" => s = r
  BY <1>1, <1>2, <1>4
<1>5. ASSUME NEW t \in Requests, row[t[1]] = "none",
             status' = [status EXCEPT ![t] = "approved"],
             row' = [row EXCEPT ![t[1]] = "active"]
      PROVE  /\ row'[r[1]] # "none"
             /\ \A s \in Requests :
                  s[1] = r[1] /\ status'[s] = "approved" => s = r
  <2>1. \A q \in Requests : q[1] = t[1] => status[q] # "approved"
    BY <1>2, <1>5
  <2>2. \A q \in Requests : q # t => status'[q] = status[q]
    BY <1>1, <1>5
  <2>3. t[1] \in Guests /\ r[1] \in Guests
    BY OnboardParts
  <2>4. row'[r[1]] # "none"
    BY <1>1, <1>2, <1>5, <2>2, <2>3
  <2>5. QED BY <1>2, <2>1, <2>2, <2>4
<1>6. ASSUME UNCHANGED status, NEW u \in Guests,
             \/ row' = [row EXCEPT ![u] = "active"]
             \/ row' = [row EXCEPT ![u] = "removed"]
      PROVE  /\ row'[r[1]] # "none"
             /\ \A s \in Requests :
                  s[1] = r[1] /\ status'[s] = "approved" => s = r
  BY <1>1, <1>2, <1>6, OnboardParts
<1>7. QED BY <1>3, <1>4, <1>5, <1>6, RequestStep DEF OnboardingInv

\* Who makes an invitation has cleared the address, or another one is being
\* made at the same time and the address is marked.
LEMMA StepInvitation ==
  ASSUME OnboardingInv, [OnboardNext]_onboardVars
  PROVE  OneInvitation' /\ \A w \in Servers : Cleared(w)'
<1>1. OnboardTypeOK /\ OnboardTypeOK' /\ crossed \subseteq crossed'
  BY OnboardStepTypes, CrossedStep DEF OnboardingInv
<1>2. ASSUME NEW w \in Servers, InsertInvitation(w), NEW a \in Addresses,
             serves[w].of = a, a \notin crossed'
      PROVE  /\ \E i \in Invitations : Unused(a)' = {i}
             /\ \A v \in Servers : at'[v] = "invite" => serves'[v].of # a
  <2>1. Unused(a) = {}
    BY <1>1, <1>2 DEF InsertInvitation, OnboardingInv, Cleared
  <2>2. PICK i \in Invitations : i[1] = a /\ invite' = [invite EXCEPT ![i] = "open"]
    BY <1>2 DEF InsertInvitation
  <2>3. Unused(a)' = {i}
    BY <1>1, <2>1, <2>2 DEF Unused, OnboardTypeOK
  <2>4. \A v \in Servers \ {w} : at[v] = "invite" => serves[v].of # a
    BY <1>2 DEF InsertInvitation
  <2>5. at'[w] = "idle" /\ \A v \in Servers \ {w} : at'[v] = at[v] /\ serves'[v] = serves[v]
    BY <1>1, <1>2 DEF InsertInvitation, Leave, OnboardTypeOK
  <2>6. QED BY <2>3, <2>4, <2>5
<1>3. ASSUME NEW a \in Addresses \ crossed', NEW i \in Unused(a)', NEW j \in Unused(a)'
      PROVE  i = j
  <2>1. CASE Unused(a)' \subseteq Unused(a)
    BY <1>1, <1>3, <2>1 DEF OnboardingInv, OneInvitation
  <2>2. CASE \E w \in Servers : InsertInvitation(w) /\ serves[w].of = a
    BY <1>2, <1>3, <2>2
  <2>3. QED BY <1>1, <2>1, <2>2, InviteStep
<1>4. ASSUME NEW v \in Servers, at'[v] = "invite", NEW a \in Addresses,
             a = serves'[v].of, a \notin crossed'
      PROVE  Unused(a)' = {}
  <2>1. /\ serves[v].of = a
        /\ at[v] = "invite" \/ Unused(a)' = {}
    BY <1>1, <1>4, InvitingStep DEF Unused
  <2>2. CASE at[v] = "invite"
    <3>1. Unused(a) = {}
      BY <1>1, <1>4, <2>1, <2>2 DEF OnboardingInv, Cleared
    <3>2. ~ \E w \in Servers : InsertInvitation(w) /\ serves[w].of = a
      BY <1>2, <1>4
    <3>3. QED BY <1>1, <3>1, <3>2, InviteStep
  <2>3. QED BY <2>1, <2>2
<1>5. ASSUME NEW v \in Servers PROVE Cleared(v)'
  <2>1. at'[v] = "invite" => serves'[v].of \in Addresses
    BY <1>1 DEF OnboardTypeOK
  <2>2. QED BY <1>4, <2>1 DEF Cleared, Unused
<1>6. QED BY <1>3, <1>5 DEF OneInvitation

\* Every step keeps the inductive invariant.
LEMMA OnboardInvStep == OnboardingInv /\ [OnboardNext]_onboardVars => OnboardingInv'
<1> SUFFICES ASSUME OnboardingInv, [OnboardNext]_onboardVars PROVE OnboardingInv'
  OBVIOUS
<1>1. OnboardTypeOK'
  BY OnboardStepTypes DEF OnboardingInv
<1>2. QED BY <1>1, StepPending, StepApproved, StepInvitation DEF OnboardingInv

-----------------------------------------------------------------------------
(* Theorems *)

\* The inductive invariant holds in every reachable state.
THEOREM OnboardingInvariant == OnboardSpec => []OnboardingInv
<1>1. QED BY OnboardInvInit, OnboardInvStep, PTL DEF OnboardSpec

\* However the requests interleave, a user waits with one at most.
THEOREM NeverTwoPending == OnboardSpec => []OnePendingRequest
<1>1. OnboardingInv => OnePendingRequest
  BY DEF OnboardingInv
<1>2. QED BY <1>1, OnboardingInvariant, PTL

\* An approved request has let its user in, and is the only one that has.
THEOREM ApprovalLetsIn == OnboardSpec => []ApprovedIsIn
<1>1. OnboardingInv => ApprovedIsIn
  BY DEF OnboardingInv
<1>2. QED BY <1>1, OnboardingInvariant, PTL

\* A new invitation replaces the earlier ones unless two are made at once.
THEOREM InvitationReplaces == OnboardSpec => []OneInvitation
<1>1. OnboardingInv => OneInvitation
  BY DEF OnboardingInv
<1>2. QED BY <1>1, OnboardingInvariant, PTL

\* What was rejected or cancelled is never approved, nothing is reopened.
THEOREM DecisionsBarApproval == OnboardSpec => DecidedIsNotApproved
<1> DEFINE Kept(r) ==
      /\ status[r] \in {"rejected", "cancelled"} =>
           status'[r] \in {"rejected", "cancelled"}
      /\ status[r] # "absent" => status'[r] = status[r] \/ status'[r] # "pending"
<1>1. OnboardTypeOK /\ [OnboardNext]_onboardVars => \A r \in Requests : Kept(r)
  <2> SUFFICES ASSUME OnboardTypeOK, [OnboardNext]_onboardVars, NEW r \in Requests PROVE Kept(r)
    OBVIOUS
  <2>1. status \in [Requests -> Statuses]
    BY DEF OnboardTypeOK, Statuses
  <2>2. ASSUME NEW t \in Requests, status[t] = "absent",
               status' = [status EXCEPT ![t] = "pending"]
        PROVE  Kept(r)
    BY <2>1, <2>2
  <2>3. ASSUME NEW t \in Requests, status[t] = "pending",
               status' = [status EXCEPT ![t] = "approved"]
        PROVE  Kept(r)
    BY <2>1, <2>3
  <2>4. ASSUME NEW t \in Requests, NEW d \in {"rejected", "cancelled"},
               status' = [status EXCEPT ![t] = d]
        PROVE  Kept(r)
    BY <2>1, <2>4
  <2>5. QED BY <2>2, <2>3, <2>4, RequestStep
<1>2. QED BY <1>1, OnboardingTypes, PTL DEF OnboardSpec, DecidedIsNotApproved

\* Only the view that reads a pending request makes a worker decide it.
LEMMA DecideStep ==
  ASSUME OnboardTypeOK, [OnboardNext]_onboardVars, NEW w \in Servers, NEW r \in Requests,
         at'[w] = "decide", serves'[w].of = r, serves'[w].op # "approve"
  PROVE  \/ status[r] = "pending"
         \/ at[w] = "decide" /\ serves[w].of = r /\ serves[w].op # "approve"
<1> DEFINE G == \/ status[r] = "pending"
                \/ at[w] = "decide" /\ serves[w].of = r /\ serves[w].op # "approve"
<1> USE DEF OnboardTypeOK, onboarded, TakeUp, MoveOn, Leave, Check
<1>1. ASSUME NEW v \in Servers, NEW d \in Decisions, NEW q \in Requests, FetchRequest(v, d, q)
      PROVE  G
  BY <1>1 DEF FetchRequest
<1>2. ASSUME NEW v \in Servers,
             \/ \E u \in Guests : Ask(v, u)
             \/ \E a \in Addresses : Invite(v, a)
             \/ \E i \in Invitations : PresentInvitation(v, i)
      PROVE  G
  BY <1>2 DEF Ask, Invite, PresentInvitation
<1>3. ASSUME NEW v \in Servers, AskMember(v) \/ AskPending(v) \/ JoinMember(v) PROVE G
  BY <1>3 DEF AskMember, AskPending, JoinMember
<1>4. ASSUME NEW v \in Servers,
             InsertRequest(v) \/ Approve(v) \/ Overrule(v) \/ InsertInvitation(v)
               \/ MarkUsed(v) \/ Die(v)
      PROVE  G
  BY <1>4 DEF InsertRequest, Approve, Overrule, InsertInvitation, MarkUsed, Die
<1>5. ASSUME NEW v \in Servers, Invalidate(v) \/ InsertMember(v) PROVE G
  BY <1>5 DEF Invalidate, InsertMember
<1>6. CASE \/ UNCHANGED onboardVars
           \/ \E i \in Invitations : LapseInvitation(i)
           \/ \E u \in Guests : Remove(u)
  BY <1>6 DEF onboardVars, LapseInvitation, Remove
<1>7. QED BY <1>1, <1>2, <1>3, <1>4, <1>5, <1>6 DEF OnboardNext

\* A decision that no other is on its way to overrule stands.
LEMMA SettledStep ==
  ASSUME OnboardTypeOK, [OnboardNext]_onboardVars, NEW r \in Requests, Settled(r)
  PROVE  Settled(r)' /\ status'[r] = status[r]
<1>1. status[r] # "pending" /\ status[r] # "absent"
  BY DEF Settled
<1>2. \A w \in Servers : Overrule(w) => serves[w].of # r
  BY DEF Settled, Overrule
<1>3. status'[r] = status[r]
  <2>1. status \in [Requests -> Statuses]
    BY DEF OnboardTypeOK, Statuses
  <2>2. ASSUME NEW t \in Requests, status[t] \in {"absent", "pending"}, NEW d \in Statuses,
               status' = [status EXCEPT ![t] = d]
        PROVE  status'[r] = status[r]
    BY <1>1, <2>1, <2>2
  <2>3. ASSUME NEW t \in Requests, NEW d \in {"rejected", "cancelled"}, NEW w \in Servers,
               Overrule(w), serves[w].of = t, status' = [status EXCEPT ![t] = d]
        PROVE  status'[r] = status[r]
    BY <1>2, <2>1, <2>3
  <2>4. QED BY <2>2, <2>3, RequestStep DEF Statuses
<1>4. QED BY <1>1, <1>3, DecideStep DEF Settled

\* A request that is decided, and that nobody is about to reject or cancel
\* having read it before, keeps its decision.
THEOREM DecisionsSettle == OnboardSpec => SettledForGood
<1>1. OnboardTypeOK /\ [OnboardNext]_onboardVars
        => [\A r \in Requests : Settled(r) => Settled(r)' /\ status'[r] = status[r]]_onboardVars
  BY SettledStep
<1>2. QED BY <1>1, OnboardingTypes, PTL DEF OnboardSpec, SettledForGood

\* A removed member stays out.
THEOREM RemovalIsFinal == OnboardSpec => RemovedStaysOut
<1>1. OnboardTypeOK /\ [OnboardNext]_onboardVars =>
        \A u \in Guests : row[u] = "removed" => row'[u] = "removed"
  <2> SUFFICES ASSUME OnboardTypeOK, [OnboardNext]_onboardVars, NEW u \in Guests, row[u] = "removed"
               PROVE  row'[u] = "removed"
    OBVIOUS
  <2>1. row \in [Guests -> {"none", "active", "removed"}]
    BY DEF OnboardTypeOK
  <2>2. ASSUME NEW x \in Guests, NEW m \in {"active", "removed"}, row[x] # "removed",
               row' = [row EXCEPT ![x] = m]
        PROVE  row'[u] = "removed"
    BY <2>1, <2>2
  <2>3. QED BY <2>2, RequestStep, OnboardParts
<1>2. QED BY <1>1, OnboardingTypes, PTL DEF OnboardSpec, RemovedStaysOut

=============================================================================
