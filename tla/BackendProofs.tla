---------------------------- MODULE BackendProofs ----------------------------
(***************************************************************************)
(* First the audit trail, for any requests, people and workers: a row is   *)
(* paid for by the message it was written from, so that retries do not     *)
(* repeat it; an author is left out only when the account is gone; and an  *)
(* entry is not forgotten while workers are lost.                          *)
(*                                                                         *)
(* Then the parts of the backend side by side: the whole implements each   *)
(* part, so that what is proved of a part holds of the whole.              *)
(***************************************************************************)
EXTENDS Backend, SchedulerProofs, AuthProofs, TenantsProofs, RealtimeProofs,
        FiniteSetTheorems, TLAPS

USE AuditAssumption

-----------------------------------------------------------------------------
(* The audit trail: the invariant *)

Working == {"lookup", "insert", "retry"}

\* The copies of a request's message in the queue q, told apart by a number.
CopiesIn(q, r) == {c \in Retries \X Nat : c[2] < q[<<r, c[1]>>]}

\* The workers, in the state s, that have its message and are not done with it.
HandsIn(s, r) == {w \in Scribes : s[w].of = r /\ s[w].step \in Working}

\* Each row is paid for by a copy or by a worker: a request has one to spend,
\* and one more for every worker lost with its message and every INSERT whose
\* answer was lost.
Budget(r) == (IF r \in entered THEN 1 ELSE 0) + strays[r] + unanswered[r]

RowsPaidFor ==
  \A r \in Entries :
    /\ IsFiniteSet(CopiesIn(queued, r)) /\ IsFiniteSet(HandsIn(scribe, r))
    /\ signed[r] + unsigned[r] + Cardinality(CopiesIn(queued, r))
         + Cardinality(HandsIn(scribe, r)) <= Budget(r)

\* A worker about to insert names the author, unless the account is gone.
AuthorKnown ==
  /\ \A w \in Scribes :
       scribe[w].step = "insert" =>
         \/ scribe[w].user = AuthorOf[scribe[w].of]
         \/ AuthorOf[scribe[w].of] \notin people
  /\ UnsignedOnlyIfGone

\* The n-th retry follows n failed insertions.
RetriesAfterFailures ==
  /\ \A r \in Entries, n \in Retries : queued[<<r, n>>] > 0 => failed[r] >= n
  /\ \A w \in Scribes :
       scribe[w].step # "idle" =>
         /\ failed[scribe[w].of] >= scribe[w].retry
         /\ scribe[w].step = "retry" => failed[scribe[w].of] > scribe[w].retry

\* A worker is idle or has the message of a request.
BusyWithEntry ==
  \A w \in Scribes :
    scribe[w] = Idle \/ (scribe[w].of \in Entries /\ scribe[w].step # "idle")

AuditInv ==
  /\ AuditTypeOK /\ BusyWithEntry
  /\ RowsPaidFor /\ AuthorKnown /\ RetriesAfterFailures /\ NothingForgotten

-----------------------------------------------------------------------------
(* Counting copies and hands *)

Message == [of : Entries \union {Nobody}, retry : Retries,
            step : {"idle", "lookup", "insert", "retry", "ack"},
            user : People \union {Nobody}]

Queue == [Entries \X Retries -> Nat]

\* One more copy of a message is one more in its request's count.
LEMMA CopyAdded ==
  ASSUME NEW q \in Queue, NEW q2 \in Queue,
         NEW r \in Entries, NEW n \in Retries, NEW p \in Entries,
         q2[<<r, n>>] = q[<<r, n>>] + 1,
         \A m \in Entries \X Retries : m # <<r, n>> => q2[m] = q[m],
         IsFiniteSet(CopiesIn(q, p))
  PROVE  /\ IsFiniteSet(CopiesIn(q2, p))
         /\ Cardinality(CopiesIn(q2, p))
              = Cardinality(CopiesIn(q, p)) + (IF p = r THEN 1 ELSE 0)
<1>0. <<r, n>> \in Entries \X Retries /\ q[<<r, n>>] \in Nat
  BY DEF Queue
<1>1. ASSUME NEW m \in Retries
      PROVE  /\ <<p, m>> \in Entries \X Retries
             /\ q[<<p, m>>] \in Nat
             /\ (p = r /\ m = n) => q2[<<p, m>>] = q[<<r, n>>] + 1
             /\ ~ (p = r /\ m = n) => q2[<<p, m>>] = q[<<p, m>>]
  <2>1. <<p, m>> \in Entries \X Retries
    OBVIOUS
  <2>2. <<p, m>> = <<r, n>> <=> p = r /\ m = n
    OBVIOUS
  <2> QED
    BY <1>0, <2>1, <2>2 DEF Queue
<1>2. Cardinality(CopiesIn(q, p)) \in Nat
  BY FS_CardinalityType
<1>3. CASE p = r
  <2> DEFINE new == <<n, q[<<r, n>>]>>
  <2>1. new \in Retries \X Nat /\ new[1] = n /\ new[2] = q[<<r, n>>]
    BY <1>0
  <2>2. new \notin CopiesIn(q, p)
    BY <1>0, <1>3, <2>1 DEF CopiesIn
  <2>3. ASSUME NEW c \in Retries \X Nat
        PROVE  c[2] < q2[<<p, c[1]>>] <=> c[2] < q[<<p, c[1]>>] \/ c = new
    <3>1. c[1] \in Retries /\ c[2] \in Nat /\ c = <<c[1], c[2]>>
      OBVIOUS
    <3>2. CASE c[1] = n
      BY <1>0, <1>1, <1>3, <3>1, <3>2
    <3>3. CASE c[1] # n
      BY <1>0, <1>1, <1>3, <3>1, <3>3
    <3> QED
      BY <3>2, <3>3
  <2>4. CopiesIn(q2, p) = CopiesIn(q, p) \union {new}
    <3> HIDE DEF new
    <3> QED
      BY <2>1, <2>3 DEF CopiesIn
  <2> HIDE DEF new
  <2>5. /\ IsFiniteSet(CopiesIn(q, p) \union {new})
        /\ Cardinality(CopiesIn(q, p) \union {new}) = Cardinality(CopiesIn(q, p)) + 1
    BY <2>2, FS_AddElement
  <2> QED
    BY <1>3, <2>4, <2>5
<1>4. CASE p # r
  <2>1. CopiesIn(q2, p) = CopiesIn(q, p)
    <3>1. ASSUME NEW c \in Retries \X Nat
          PROVE  q2[<<p, c[1]>>] = q[<<p, c[1]>>]
      BY <1>1, <1>4
    <3> QED
      BY <3>1 DEF CopiesIn
  <2> QED
    BY <1>2, <1>4, <2>1
<1> QED
  BY <1>3, <1>4

\* Taking a copy is adding it, backwards.
LEMMA CopyTaken ==
  ASSUME NEW q \in Queue, NEW q2 \in Queue,
         NEW r \in Entries, NEW n \in Retries, NEW p \in Entries,
         q[<<r, n>>] = q2[<<r, n>>] + 1,
         \A m \in Entries \X Retries : m # <<r, n>> => q2[m] = q[m],
         IsFiniteSet(CopiesIn(q, p))
  PROVE  /\ IsFiniteSet(CopiesIn(q2, p))
         /\ Cardinality(CopiesIn(q2, p))
              = Cardinality(CopiesIn(q, p)) - (IF p = r THEN 1 ELSE 0)
<1>1. \A m \in Entries \X Retries : q[m] \in Nat /\ q2[m] \in Nat /\ q2[m] <= q[m]
  BY DEF Queue
<1>2. CopiesIn(q2, p) \subseteq CopiesIn(q, p)
  <2>1. ASSUME NEW c \in Retries \X Nat, c[2] < q2[<<p, c[1]>>]
        PROVE  c[2] < q[<<p, c[1]>>]
    <3>1. <<p, c[1]>> \in Entries \X Retries /\ c[2] \in Nat
      OBVIOUS
    <3> QED
      BY <1>1, <2>1, <3>1
  <2> QED
    BY <2>1 DEF CopiesIn
<1>3. IsFiniteSet(CopiesIn(q2, p))
  BY <1>2, FS_Subset
<1>5. Cardinality(CopiesIn(q, p))
        = Cardinality(CopiesIn(q2, p)) + (IF p = r THEN 1 ELSE 0)
  BY <1>3, CopyAdded
<1>6. Cardinality(CopiesIn(q2, p)) \in Nat
  BY <1>3, FS_CardinalityType
<1> QED
  BY <1>3, <1>5, <1>6

\* What a worker's next state does to the hands of a request.
LEMMA HandMoves ==
  ASSUME NEW s \in [Scribes -> Message], NEW w \in Scribes, NEW e \in Message,
         NEW r \in Entries, NEW s2, s2[w] = e,
         \A v \in Scribes : v # w => s2[v] = s[v],
         IsFiniteSet(HandsIn(s, r))
  PROVE  /\ IsFiniteSet(HandsIn(s2, r))
         /\ Cardinality(HandsIn(s2, r))
              = Cardinality(HandsIn(s, r))
                  + (IF e.of = r /\ e.step \in Working THEN 1 ELSE 0)
                  - (IF s[w].of = r /\ s[w].step \in Working THEN 1 ELSE 0)
<1>1. Cardinality(HandsIn(s, r)) \in Nat
  BY FS_CardinalityType
<1>2. w \in HandsIn(s, r) <=> s[w].of = r /\ s[w].step \in Working
  BY DEF HandsIn
<1>3. CASE e.of = r /\ e.step \in Working
  <2>1. HandsIn(s2, r) = HandsIn(s, r) \union {w}
    BY <1>3, Zenon DEF HandsIn
  <2>2. /\ IsFiniteSet(HandsIn(s, r) \union {w})
        /\ Cardinality(HandsIn(s, r) \union {w})
             = IF w \in HandsIn(s, r) THEN Cardinality(HandsIn(s, r))
               ELSE Cardinality(HandsIn(s, r)) + 1
    BY FS_AddElement
  <2> QED
    BY <1>1, <1>2, <1>3, <2>1, <2>2
<1>4. CASE ~ (e.of = r /\ e.step \in Working)
  <2>1. HandsIn(s2, r) = HandsIn(s, r) \ {w}
    BY <1>4, Zenon DEF HandsIn
  <2>2. /\ IsFiniteSet(HandsIn(s, r) \ {w})
        /\ Cardinality(HandsIn(s, r) \ {w})
             = IF w \in HandsIn(s, r) THEN Cardinality(HandsIn(s, r)) - 1
               ELSE Cardinality(HandsIn(s, r))
    BY FS_RemoveElement
  <2> QED
    BY <1>1, <1>2, <1>4, <2>1, <2>2
<1> QED
  BY <1>3, <1>4


-----------------------------------------------------------------------------
(* The steps *)

\* The state s2 of the workers is s, with w in e.
Moved(s, s2, w, e) ==
  /\ e \in Message
  /\ s2 \in [Scribes -> Message]
  /\ s2[w] = e
  /\ \A v \in Scribes : v # w => s2[v] = s[v]

\* The queue q2 is q, with d more copies of the message m.
Sent(q, q2, m, d) ==
  /\ q2 \in Queue
  /\ q2[m] = q[m] + d
  /\ \A k \in Entries \X Retries : k # m => q2[k] = q[k]

LEMMA Shapes ==
  ASSUME AuditTypeOK
  PROVE  /\ queued \in Queue /\ scribe \in [Scribes -> Message]
         /\ Idle \in Message /\ 0 \in Retries
BY DEF AuditTypeOK, Queue, Message, Idle, Retries

LEMMA AuditInvInit == AuditInit => AuditInv
<1> SUFFICES ASSUME AuditInit PROVE AuditInv
  OBVIOUS
<1>1. AuditTypeOK
  BY DEF AuditInit, AuditTypeOK, Idle, Retries
<1>2. BusyWithEntry /\ AuthorKnown /\ NothingForgotten
  BY DEF AuditInit, BusyWithEntry, AuthorKnown, NothingForgotten, UnsignedOnlyIfGone, Idle
<1>3. RetriesAfterFailures
  BY DEF AuditInit, RetriesAfterFailures, Idle
<1>4. ASSUME NEW r \in Entries
      PROVE  CopiesIn(queued, r) = {} /\ HandsIn(scribe, r) = {}
  <2>1. ASSUME NEW c \in Retries \X Nat
        PROVE  ~ (c[2] < queued[<<r, c[1]>>])
    <3>1. <<r, c[1]>> \in Entries \X Retries /\ c[2] \in Nat
      OBVIOUS
    <3> QED
      BY <3>1 DEF AuditInit
  <2>2. HandsIn(scribe, r) = {}
    BY DEF AuditInit, HandsIn, Idle, Working
  <2> QED
    BY <2>1, <2>2 DEF CopiesIn
<1>5. RowsPaidFor
  <2>1. IsFiniteSet({}) /\ Cardinality({}) = 0
    BY FS_EmptySet
  <2>2. \A r \in Entries : Budget(r) = 0 /\ signed[r] = 0 /\ unsigned[r] = 0
    BY DEF Budget, AuditInit
  <2> QED
    BY <1>4, <2>1, <2>2 DEF RowsPaidFor
<1> QED
  BY <1>1, <1>2, <1>3, <1>5 DEF AuditInv


LEMMA Counts ==
  ASSUME AuditInv, NEW p \in Entries
  PROVE  /\ signed[p] \in Nat /\ unsigned[p] \in Nat /\ failed[p] \in Nat
         /\ strays[p] \in Nat /\ unanswered[p] \in Nat /\ Budget(p) \in Nat
         /\ IsFiniteSet(CopiesIn(queued, p)) /\ IsFiniteSet(HandsIn(scribe, p))
         /\ Cardinality(CopiesIn(queued, p)) \in Nat
         /\ Cardinality(HandsIn(scribe, p)) \in Nat
         /\ signed[p] + unsigned[p] + Cardinality(CopiesIn(queued, p))
              + Cardinality(HandsIn(scribe, p)) <= Budget(p)
<1>1. /\ signed[p] \in Nat /\ unsigned[p] \in Nat /\ failed[p] \in Nat
      /\ strays[p] \in Nat /\ unanswered[p] \in Nat
  BY DEF AuditInv, AuditTypeOK
<1>2. Budget(p) \in Nat
  BY <1>1 DEF Budget
<1>3. IsFiniteSet(CopiesIn(queued, p)) /\ IsFiniteSet(HandsIn(scribe, p))
  BY DEF AuditInv, RowsPaidFor
<1>4. Cardinality(CopiesIn(queued, p)) \in Nat /\ Cardinality(HandsIn(scribe, p)) \in Nat
  BY <1>3, FS_CardinalityType
<1> QED
  BY <1>1, <1>2, <1>3, <1>4 DEF AuditInv, RowsPaidFor

\* A request stays on its way unless its last copy is taken or its worker is done.
LEMMA WayKept ==
  ASSUME NEW p \in Entries, NEW w \in Scribes, NEW e, Moved(scribe, scribe', w, e),
         \A n \in Retries : queued[<<p, n>>] > 0 => queued'[<<p, n>>] > 0,
         scribe[w].of = p /\ scribe[w].step \in Working => e.of = p /\ e.step \in Working
  PROVE  OnItsWay(p) => OnItsWay(p)'
<1> SUFFICES ASSUME OnItsWay(p)
             PROVE  OnItsWay(p)'
  OBVIOUS
<1>1. CASE \E n \in Retries : queued[<<p, n>>] > 0
  BY <1>1 DEF OnItsWay
<1>2. CASE \E v \in Scribes : scribe[v].of = p /\ scribe[v].step \in Working
  BY <1>2 DEF OnItsWay, Moved, Working
<1> QED
  BY <1>1, <1>2 DEF OnItsWay, Working

LEMMA CopiesSent ==
  ASSUME AuditInv, NEW r \in Entries, NEW n \in Retries, NEW p \in Entries,
         NEW d \in {1, -1}, Sent(queued, queued', <<r, n>>, d)
  PROVE  /\ IsFiniteSet(CopiesIn(queued', p))
         /\ Cardinality(CopiesIn(queued', p))
              = Cardinality(CopiesIn(queued, p)) + (IF p = r THEN d ELSE 0)
<1>1. /\ queued \in Queue /\ queued' \in Queue /\ <<r, n>> \in Entries \X Retries
      /\ queued'[<<r, n>>] = queued[<<r, n>>] + d
      /\ \A m \in Entries \X Retries : m # <<r, n>> => queued'[m] = queued[m]
  BY Shapes DEF AuditInv, Sent
<1>2. /\ IsFiniteSet(CopiesIn(queued, p)) /\ Cardinality(CopiesIn(queued, p)) \in Nat
  BY Counts
<1>3. CASE d = 1
  BY <1>1, <1>2, <1>3, CopyAdded
<1>4. CASE d = -1
  <2>1. queued[<<r, n>>] = queued'[<<r, n>>] + 1
    BY <1>1, <1>4 DEF Queue
  <2>2. /\ IsFiniteSet(CopiesIn(queued', p))
        /\ Cardinality(CopiesIn(queued', p))
             = Cardinality(CopiesIn(queued, p)) - (IF p = r THEN 1 ELSE 0)
    <3>1. /\ queued \in Queue /\ queued' \in Queue
          /\ \A m \in Entries \X Retries : m # <<r, n>> => queued'[m] = queued[m]
          /\ IsFiniteSet(CopiesIn(queued, p))
      BY <1>1, <1>2
    <3> QED
      BY <2>1, <3>1, CopyTaken
  <2>3. CASE p = r
    BY <1>2, <1>4, <2>2, <2>3
  <2>4. CASE p # r
    BY <1>2, <1>4, <2>2, <2>4
  <2> QED
    BY <2>3, <2>4
<1> QED
  BY <1>3, <1>4

LEMMA HandsMoved ==
  ASSUME AuditInv, NEW w \in Scribes, NEW e, Moved(scribe, scribe', w, e), NEW p \in Entries
  PROVE  /\ IsFiniteSet(HandsIn(scribe', p))
         /\ Cardinality(HandsIn(scribe', p))
              = Cardinality(HandsIn(scribe, p))
                  + (IF e.of = p /\ e.step \in Working THEN 1 ELSE 0)
                  - (IF scribe[w].of = p /\ scribe[w].step \in Working THEN 1 ELSE 0)
<1>1. /\ scribe \in [Scribes -> Message] /\ e \in Message /\ scribe'[w] = e
      /\ \A v \in Scribes : v # w => scribe'[v] = scribe[v]
  BY Shapes DEF AuditInv, Moved
<1>2. IsFiniteSet(HandsIn(scribe, p))
  BY Counts
<1> QED
  BY <1>1, <1>2, HandMoves

\* A step lets a request spend no more than it is given.
StaysPaid(p) ==
  /\ IsFiniteSet(CopiesIn(queued', p)) /\ IsFiniteSet(HandsIn(scribe', p))
  /\ signed'[p] \in Nat /\ unsigned'[p] \in Nat /\ Budget(p)' \in Nat
  /\ signed'[p] + unsigned'[p] + Cardinality(CopiesIn(queued', p))
       + Cardinality(HandsIn(scribe', p)) - Budget(p)'
     <= signed[p] + unsigned[p] + Cardinality(CopiesIn(queued, p))
          + Cardinality(HandsIn(scribe, p)) - Budget(p)

LEMMA StillPaidFor ==
  ASSUME AuditInv, \A p \in Entries : StaysPaid(p)
  PROVE  RowsPaidFor'
<1> SUFFICES ASSUME NEW p \in Entries
             PROVE  /\ IsFiniteSet(CopiesIn(queued', p)) /\ IsFiniteSet(HandsIn(scribe', p))
                    /\ signed'[p] + unsigned'[p] + Cardinality(CopiesIn(queued', p))
                         + Cardinality(HandsIn(scribe', p)) <= Budget(p)'
  BY DEF RowsPaidFor
<1>1. StaysPaid(p)
  OBVIOUS
<1>2. Cardinality(CopiesIn(queued', p)) \in Nat /\ Cardinality(HandsIn(scribe', p)) \in Nat
  BY <1>1, FS_CardinalityType DEF StaysPaid
<1> QED
  BY <1>1, <1>2, Counts DEF StaysPaid

LEMMA LogAsyncStep ==
  ASSUME AuditInv, NEW r \in Entries, LogAsync(r)
  PROVE  AuditInv'
<1>1. AuditTypeOK /\ queued \in Queue /\ 0 \in Retries /\ <<r, 0>> \in Entries \X Retries
  BY Shapes DEF AuditInv
<1>2. UNCHANGED <<tables, people, scribe, signed, unsigned, failed, unanswered,
                  dropped, strays, faults, scribesLost>>
  BY DEF LogAsync, auditGhosts
<1>3. BusyWithEntry' /\ AuthorKnown'
  BY <1>2 DEF AuditInv, BusyWithEntry, AuthorKnown, UnsignedOnlyIfGone
<1>4. CASE entered' = entered /\ queued' = queued
  <2>1. AuditTypeOK'
    BY <1>1, <1>2, <1>4 DEF LogAsync, AuditTypeOK
  <2>2. RowsPaidFor' /\ RetriesAfterFailures' /\ NothingForgotten'
    BY <1>2, <1>4 DEF AuditInv, RowsPaidFor, Budget, RetriesAfterFailures, NothingForgotten,
                      OnItsWay
  <2> QED
    BY <1>3, <2>1, <2>2 DEF AuditInv
<1>5. CASE /\ r \notin entered /\ entered' = entered \union {r}
           /\ queued' = [queued EXCEPT ![<<r, 0>>] = @ + 1]
  <2>1. Sent(queued, queued', <<r, 0>>, 1)
    BY <1>1, <1>5 DEF Sent, Queue
  <2>2. AuditTypeOK'
    BY <1>1, <1>2, <1>5, <2>1 DEF LogAsync, AuditTypeOK, Sent, Queue
  <2>3. \A m \in Entries \X Retries :
          queued[m] \in Nat /\ queued'[m] \in Nat /\ queued'[m] >= queued[m]
    BY <1>1, <2>1 DEF Sent, Queue
  <2>4. ASSUME NEW p \in Entries
        PROVE  /\ IsFiniteSet(CopiesIn(queued', p))
               /\ Cardinality(CopiesIn(queued', p))
                    = Cardinality(CopiesIn(queued, p)) + (IF p = r THEN 1 ELSE 0)
    <3>1. IsFiniteSet(CopiesIn(queued, p))
      BY Counts
    <3> QED
      BY <1>1, <2>1, <3>1, CopyAdded DEF Sent
  <2>5. ASSUME NEW p \in Entries
        PROVE  Budget(p)' = Budget(p) + (IF p = r THEN 1 ELSE 0)
    <3>1. strays[p] \in Nat /\ unanswered[p] \in Nat
      BY Counts
    <3> QED
      BY <1>2, <1>5, <3>1 DEF Budget
  <2>6. RowsPaidFor'
    <3>1. ASSUME NEW p \in Entries
          PROVE  StaysPaid(p)
      BY <1>2, <2>4, <2>5, Counts DEF StaysPaid
    <3> QED
      BY <3>1, StillPaidFor
  <2>7. RetriesAfterFailures'
    BY <1>1, <1>2, <2>1 DEF AuditInv, RetriesAfterFailures, AuditTypeOK, Sent
  <2>8. ASSUME NEW p \in entered'
        PROVE  OnItsWay(p)' \/ signed[p] + unsigned[p] > 0 \/ p \in dropped
                 \/ failed[p] > MaxRetries
    <3>1. CASE p = r
      <4>1. queued'[<<r, 0>>] > 0
        BY <1>1, <2>1 DEF Sent, Queue
      <4> QED
        BY <1>1, <3>1, <4>1 DEF OnItsWay
    <3>2. CASE p \in entered
      <4>1. p \in Entries
        BY <1>1, <3>2 DEF AuditTypeOK
      <4>2. ASSUME NEW n \in Retries
            PROVE  queued[<<p, n>>] > 0 => queued'[<<p, n>>] > 0
        <5>1. <<p, n>> \in Entries \X Retries
          BY <4>1
        <5> QED
          BY <2>3, <5>1
      <4>3. OnItsWay(p) => OnItsWay(p)'
        BY <1>2, <4>2 DEF OnItsWay
      <4> QED
        BY <1>2, <3>2, <4>3 DEF AuditInv, NothingForgotten
    <3> QED
      BY <1>5, <3>1, <3>2
  <2>9. NothingForgotten'
    BY <1>2, <2>8 DEF NothingForgotten
  <2> QED
    BY <1>3, <2>2, <2>6, <2>7, <2>9 DEF AuditInv
<1> QED
  BY <1>4, <1>5 DEF LogAsync

LEMMA TakeEntryStep ==
  ASSUME AuditInv, NEW w \in Scribes, NEW r \in Entries, NEW n \in Retries,
         TakeEntry(w, r, n)
  PROVE  AuditInv'
<1> DEFINE e == [of |-> r, retry |-> n, step |-> "lookup", user |-> Nobody]
<1>1. /\ AuditTypeOK /\ queued \in Queue /\ scribe \in [Scribes -> Message]
      /\ <<r, n>> \in Entries \X Retries
  BY Shapes DEF AuditInv
<1>2. UNCHANGED <<tables, people, entered, unsent, signed, unsigned, failed,
                  unanswered, dropped, strays, faults, scribesLost>>
  BY DEF TakeEntry, auditGhosts
<1>3. Moved(scribe, scribe', w, e) /\ scribe[w] = Idle
  BY <1>1 DEF TakeEntry, Moved, Message
<1>4. Sent(queued, queued', <<r, n>>, -1) /\ queued[<<r, n>>] > 0
  <2>1. queued[<<r, n>>] > 0 /\ queued[<<r, n>>] - 1 \in Nat
    BY <1>1 DEF TakeEntry, Queue
  <2> QED
    BY <1>1, <2>1 DEF TakeEntry, Sent, Queue
<1>5. AuditTypeOK'
  BY <1>1, <1>2, <1>3, <1>4 DEF AuditTypeOK, Moved, Sent, Queue, Message
<1>6. BusyWithEntry'
  BY <1>3 DEF AuditInv, BusyWithEntry, Moved
<1>7. RowsPaidFor'
  <2>1. ASSUME NEW p \in Entries
        PROVE  StaysPaid(p)
    <3>1. /\ IsFiniteSet(CopiesIn(queued', p))
          /\ Cardinality(CopiesIn(queued', p))
               = Cardinality(CopiesIn(queued, p)) + (IF p = r THEN -1 ELSE 0)
      BY <1>4, CopiesSent
    <3>2. /\ IsFiniteSet(HandsIn(scribe', p))
          /\ Cardinality(HandsIn(scribe', p))
               = Cardinality(HandsIn(scribe, p)) + (IF p = r THEN 1 ELSE 0)
      <4> HIDE DEF e
      <4>1. /\ IsFiniteSet(HandsIn(scribe', p))
            /\ Cardinality(HandsIn(scribe', p))
                 = Cardinality(HandsIn(scribe, p))
                     + (IF e.of = p /\ e.step \in Working THEN 1 ELSE 0)
                     - (IF scribe[w].of = p /\ scribe[w].step \in Working THEN 1 ELSE 0)
        BY <1>3, HandsMoved
      <4>2. ~ (scribe[w].step \in Working) /\ e.of = r /\ e.step \in Working
        BY <1>3 DEF Idle, Working, e
      <4> QED
        BY <4>1, <4>2, Counts
    <3> QED
      BY <1>2, <3>1, <3>2, Counts DEF StaysPaid, Budget
  <2> QED
    BY <2>1, StillPaidFor
<1>8. AuthorKnown'
  BY <1>2, <1>3 DEF AuditInv, AuthorKnown, UnsignedOnlyIfGone, Moved
<1>9. RetriesAfterFailures'
  BY <1>1, <1>2, <1>3, <1>4 DEF AuditInv, RetriesAfterFailures, Moved, Sent
<1>10. NothingForgotten'
  <2>1. ASSUME NEW p \in entered
        PROVE  OnItsWay(p) => OnItsWay(p)'
    <3>1. CASE p = r
      BY <1>3, <3>1 DEF OnItsWay, Moved
    <3>2. CASE p # r
      <4>1. p \in Entries
        BY <1>1 DEF AuditTypeOK
      <4>2. ASSUME NEW k \in Retries
            PROVE  queued[<<p, k>>] > 0 => queued'[<<p, k>>] > 0
        <5>1. <<p, k>> \in Entries \X Retries /\ <<p, k>> # <<r, n>>
          BY <3>2, <4>1
        <5> QED
          BY <1>4, <5>1 DEF Sent
      <4>3. ~ (scribe[w].step \in Working)
        BY <1>3 DEF Idle, Working
      <4> HIDE DEF e
      <4> QED
        BY <1>3, <4>1, <4>2, <4>3, WayKept
    <3> QED
      BY <3>1, <3>2
  <2> QED
    BY <1>2, <2>1 DEF AuditInv, NothingForgotten
<1> QED
  BY <1>5, <1>6, <1>7, <1>8, <1>9, <1>10 DEF AuditInv

\* A worker that is not idle keeps its message through a step of the task.
KeepsMessage(w, steps) ==
  /\ scribe[w].of \in Entries /\ scribe[w].retry \in Retries
  /\ scribe[w].step # "idle"
  /\ Moved(scribe, scribe', w, scribe'[w])
  /\ scribe'[w].of = scribe[w].of /\ scribe'[w].retry = scribe[w].retry
  /\ scribe'[w].step \in steps

LEMMA Busy ==
  ASSUME AuditInv, NEW w \in Scribes, scribe[w].step # "idle"
  PROVE  /\ scribe[w] \in Message /\ scribe[w].of \in Entries /\ scribe[w].retry \in Retries
         /\ scribe[w] # Idle /\ scribe \in [Scribes -> Message] /\ queued \in Queue
<1>1. scribe[w] # Idle
  BY DEF Idle
<1> QED
  BY <1>1, Shapes DEF AuditInv, BusyWithEntry, Message

LEMMA BusyStays ==
  ASSUME AuditInv, NEW w \in Scribes, KeepsMessage(w, {"lookup", "insert", "retry", "ack"})
  PROVE  BusyWithEntry'
BY DEF AuditInv, BusyWithEntry, KeepsMessage, Moved

LEMMA LookUpStep ==
  ASSUME AuditInv, NEW w \in Scribes, LookUp(w)
  PROVE  AuditInv'
<1> DEFINE r == scribe[w].of
<1>1. /\ AuditTypeOK /\ scribe[w].step = "lookup" /\ scribe[w] \in Message /\ r \in Entries
      /\ scribe \in [Scribes -> Message]
  BY Busy DEF AuditInv, LookUp
<1>2. UNCHANGED <<tables, people, entered, unsent, queued, signed, unsigned, failed,
                  unanswered, strays, scribesLost>>
  BY DEF LookUp
<1>3. AuthorFound(r) \in People \union {Nobody}
  BY <1>1 DEF AuthorFound, AuditTypeOK
<1>4. /\ KeepsMessage(w, {"insert", "ack"})
      /\ scribe'[w].step = "insert" => scribe'[w].user = AuthorFound(r)
      /\ scribe'[w].step = "ack" => r \in dropped'
      /\ dropped \subseteq dropped' /\ dropped' \subseteq Entries
      /\ faults' \in 0 .. MaxFaults
  <2>1. CASE /\ scribe' = [scribe EXCEPT ![w].step = "insert", ![w].user = AuthorFound(r)]
             /\ UNCHANGED <<faults, dropped>>
    BY <1>1, <1>3, <2>1 DEF KeepsMessage, Moved, Message, AuditTypeOK
  <2>2. CASE /\ Fault /\ scribe' = [scribe EXCEPT ![w].step = "ack"]
             /\ dropped' = dropped \union {r}
    <3>1. KeepsMessage(w, {"insert", "ack"}) /\ scribe'[w].step = "ack"
      BY <1>1, <2>2 DEF KeepsMessage, Moved, Message
    <3>2. dropped' \subseteq Entries /\ faults' \in 0 .. MaxFaults
      BY <1>1, <2>2 DEF AuditTypeOK, Fault
    <3> QED
      BY <2>2, <3>1, <3>2
  <2>3. \/ /\ scribe' = [scribe EXCEPT ![w].step = "insert", ![w].user = AuthorFound(r)]
           /\ UNCHANGED <<faults, dropped>>
        \/ /\ Fault /\ scribe' = [scribe EXCEPT ![w].step = "ack"]
           /\ dropped' = dropped \union {r}
    BY DEF LookUp
  <2> QED
    BY <2>1, <2>2, <2>3
<1>5. AuditTypeOK'
  BY <1>1, <1>2, <1>4 DEF AuditTypeOK, KeepsMessage, Moved, Message
<1>6. BusyWithEntry'
  BY <1>4, BusyStays DEF KeepsMessage
<1>7. RowsPaidFor'
  <2>1. ASSUME NEW p \in Entries
        PROVE  StaysPaid(p)
    <3>1. /\ IsFiniteSet(HandsIn(scribe', p))
          /\ Cardinality(HandsIn(scribe', p))
               = Cardinality(HandsIn(scribe, p))
                   + (IF scribe'[w].of = p /\ scribe'[w].step \in Working THEN 1 ELSE 0)
                   - (IF scribe[w].of = p /\ scribe[w].step \in Working THEN 1 ELSE 0)
      BY <1>4, HandsMoved DEF KeepsMessage
    <3>2. scribe'[w].of = scribe[w].of /\ scribe[w].step \in Working
      BY <1>1, <1>4 DEF KeepsMessage, Working
    <3> QED
      BY <1>2, <3>1, <3>2, Counts DEF StaysPaid, Budget
  <2> QED
    BY <2>1, StillPaidFor
<1>8. AuthorKnown'
  BY <1>1, <1>2, <1>4 DEF AuditInv, AuthorKnown, UnsignedOnlyIfGone, KeepsMessage, Moved,
                          AuthorFound
<1>9. RetriesAfterFailures'
  BY <1>1, <1>2, <1>4 DEF AuditInv, RetriesAfterFailures, KeepsMessage, Moved
<1>10. NothingForgotten'
  <2>1. ASSUME NEW p \in entered, p # r \/ scribe'[w].step = "insert"
        PROVE  OnItsWay(p) => OnItsWay(p)'
    <3>1. scribe[w].of = p => scribe'[w].of = p /\ scribe'[w].step \in Working
      BY <1>4, <2>1 DEF KeepsMessage, Working
    <3> QED
      BY <1>1, <1>2, <1>4, <3>1, WayKept DEF AuditTypeOK, KeepsMessage
  <2> QED
    BY <1>2, <1>4, <2>1 DEF AuditInv, NothingForgotten, KeepsMessage
<1> QED
  BY <1>5, <1>6, <1>7, <1>8, <1>9, <1>10 DEF AuditInv

\* A row of the worker's request was added.
RowAdded(w) ==
  \/ signed' = [signed EXCEPT ![scribe[w].of] = @ + 1] /\ unsigned' = unsigned
  \/ /\ unsigned' = [unsigned EXCEPT ![scribe[w].of] = @ + 1] /\ signed' = signed
     /\ scribe[w].user = Nobody

LEMMA InsertRowStep ==
  ASSUME AuditInv, NEW w \in Scribes, InsertRow(w)
  PROVE  AuditInv'
<1> DEFINE r == scribe[w].of
<1>1. /\ AuditTypeOK /\ scribe[w].step = "insert" /\ scribe[w] \in Message /\ r \in Entries
      /\ scribe \in [Scribes -> Message]
  BY Busy DEF AuditInv, InsertRow
<1>2. UNCHANGED <<tables, people, entered, unsent, queued, dropped, strays, scribesLost>>
  BY DEF InsertRow
<1>3. /\ KeepsMessage(w, {"retry", "ack"})
      /\ \/ RowAdded(w) /\ scribe'[w].step = "ack" /\ UNCHANGED <<failed, unanswered>>
         \/ /\ scribe'[w].step = "retry" /\ failed' = [failed EXCEPT ![r] = @ + 1]
            /\ \/ UNCHANGED <<signed, unsigned, unanswered>>
               \/ RowAdded(w) /\ unanswered' = [unanswered EXCEPT ![r] = @ + 1]
      /\ faults' \in 0 .. MaxFaults
  <2>1. WriteRow(w) => RowAdded(w)
    BY DEF WriteRow, RowAdded
  <2>2. \/ scribe' = [scribe EXCEPT ![w].step = "ack"]
        \/ scribe' = [scribe EXCEPT ![w].step = "retry"]
    BY DEF InsertRow
  <2>3. KeepsMessage(w, {"retry", "ack"})
    BY <1>1, <2>2 DEF KeepsMessage, Moved, Message
  <2>4. \A next : scribe' = [scribe EXCEPT ![w].step = next] => scribe'[w].step = next
    BY <1>1 DEF Message
  <2>5. faults' \in 0 .. MaxFaults
    BY <1>1 DEF InsertRow, Fault, AuditTypeOK
  <2> QED
    BY <2>1, <2>3, <2>4, <2>5 DEF InsertRow
<1>4. /\ signed' \in [Entries -> Nat] /\ unsigned' \in [Entries -> Nat]
      /\ failed' \in [Entries -> Nat] /\ unanswered' \in [Entries -> Nat]
  BY <1>1, <1>3 DEF AuditTypeOK, RowAdded
<1>5. AuditTypeOK'
  BY <1>1, <1>2, <1>3, <1>4 DEF AuditTypeOK, KeepsMessage, Moved, Message
<1>6. BusyWithEntry'
  BY <1>3, BusyStays DEF KeepsMessage
<1>7. ASSUME NEW p \in Entries
      PROVE  /\ signed[p] \in Nat /\ unsigned[p] \in Nat /\ failed[p] \in Nat
             /\ signed'[p] \in Nat /\ unsigned'[p] \in Nat /\ failed'[p] \in Nat
             /\ unanswered[p] \in Nat /\ unanswered'[p] \in Nat
             /\ failed'[p] >= failed[p] /\ unanswered'[p] >= unanswered[p]
             /\ signed'[p] + unsigned'[p]
                  = signed[p] + unsigned[p] + unanswered'[p] - unanswered[p]
                      + (IF p = r /\ scribe'[w].step = "ack" THEN 1 ELSE 0)
  <2>1. /\ signed[p] \in Nat /\ unsigned[p] \in Nat /\ failed[p] \in Nat
        /\ signed'[p] \in Nat /\ unsigned'[p] \in Nat /\ failed'[p] \in Nat
        /\ unanswered[p] \in Nat /\ unanswered'[p] \in Nat
    BY <1>1, <1>4 DEF AuditTypeOK
  <2>2. RowAdded(w) => signed'[p] + unsigned'[p]
                         = signed[p] + unsigned[p] + (IF p = r THEN 1 ELSE 0)
    BY <1>1, <2>1 DEF RowAdded, AuditTypeOK
  <2>3. failed' = [failed EXCEPT ![r] = @ + 1]
          => failed'[p] = failed[p] + (IF p = r THEN 1 ELSE 0)
    BY <1>1, <2>1 DEF AuditTypeOK
  <2>4. unanswered' = [unanswered EXCEPT ![r] = @ + 1]
          => unanswered'[p] = unanswered[p] + (IF p = r THEN 1 ELSE 0)
    BY <1>1, <2>1 DEF AuditTypeOK
  <2> HIDE DEF r
  <2> QED
    BY <1>3, <2>1, <2>2, <2>3, <2>4
<1>8. RowsPaidFor'
  <2>1. ASSUME NEW p \in Entries
        PROVE  StaysPaid(p)
    <3>1. /\ IsFiniteSet(HandsIn(scribe', p))
          /\ Cardinality(HandsIn(scribe', p))
               = Cardinality(HandsIn(scribe, p))
                   + (IF scribe'[w].of = p /\ scribe'[w].step \in Working THEN 1 ELSE 0)
                   - (IF scribe[w].of = p /\ scribe[w].step \in Working THEN 1 ELSE 0)
      BY <1>3, HandsMoved DEF KeepsMessage
    <3>2. /\ scribe'[w].of = r /\ scribe[w].of = r /\ scribe[w].step \in Working
          /\ scribe'[w].step \in Working <=> scribe'[w].step # "ack"
      BY <1>1, <1>3 DEF KeepsMessage, Working
    <3>3. Cardinality(HandsIn(scribe', p))
            = Cardinality(HandsIn(scribe, p))
                - (IF p = r /\ scribe'[w].step = "ack" THEN 1 ELSE 0)
      <4> HIDE DEF r
      <4> QED
        BY <3>1, <3>2, Counts
    <3>4. Budget(p)' = Budget(p) + unanswered'[p] - unanswered[p] /\ Budget(p)' \in Nat
      <4>1. strays[p] \in Nat /\ unanswered[p] \in Nat /\ unanswered'[p] \in Nat
        BY <1>7, Counts
      <4> QED
        BY <1>2, <4>1 DEF Budget
    <3> HIDE DEF r
    <3> QED
      BY <1>2, <1>7, <3>1, <3>3, <3>4, Counts DEF StaysPaid
  <2> QED
    BY <2>1, StillPaidFor
<1>9. AuthorKnown'
  <2>1. ASSUME NEW p \in Entries, unsigned'[p] > 0
        PROVE  AuthorOf[p] \notin people'
    <3>1. CASE unsigned'[p] = unsigned[p]
      BY <1>2, <2>1, <3>1 DEF AuditInv, AuthorKnown, UnsignedOnlyIfGone
    <3>2. CASE p = r /\ scribe[w].user = Nobody
      BY <1>1, <1>2, <3>2 DEF AuditInv, AuthorKnown, AuditTypeOK
    <3> QED
      BY <1>1, <1>3, <3>1, <3>2 DEF AuditTypeOK, RowAdded
  <2> QED
    BY <1>2, <1>3, <2>1 DEF AuditInv, AuthorKnown, UnsignedOnlyIfGone, KeepsMessage, Moved
<1>10. RetriesAfterFailures'
  <2>1. ASSUME NEW p \in Entries, NEW n \in Retries, queued'[<<p, n>>] > 0
        PROVE  failed'[p] >= n
    BY <1>1, <1>2, <1>7, <2>1 DEF AuditInv, RetriesAfterFailures, Retries
  <2>2. ASSUME NEW v \in Scribes, scribe'[v].step # "idle"
        PROVE  /\ failed'[scribe'[v].of] >= scribe'[v].retry
               /\ scribe'[v].step = "retry" => failed'[scribe'[v].of] > scribe'[v].retry
    <3>1. CASE v = w
      <4>1. failed[r] >= scribe[w].retry /\ scribe[w].retry \in Nat
        BY <1>1 DEF AuditInv, RetriesAfterFailures, Message, Retries
      <4>2. scribe'[w].step = "retry" => failed'[r] = failed[r] + 1
        BY <1>1, <1>3 DEF AuditTypeOK
      <4> HIDE DEF r
      <4> QED
        BY <1>1, <1>3, <1>7, <3>1, <4>1, <4>2 DEF KeepsMessage, r
    <3>2. CASE v # w
      <4>1. scribe'[v] = scribe[v] /\ scribe[v].step # "idle"
        BY <1>3, <2>2, <3>2 DEF KeepsMessage, Moved
      <4>2. scribe[v] \in Message /\ scribe[v].of \in Entries /\ scribe[v].retry \in Nat
        BY <4>1, Busy DEF Retries
      <4>3. /\ failed[scribe[v].of] >= scribe[v].retry
            /\ scribe[v].step = "retry" => failed[scribe[v].of] > scribe[v].retry
        BY <4>1 DEF AuditInv, RetriesAfterFailures
      <4> QED
        BY <1>7, <4>1, <4>2, <4>3
    <3> QED
      BY <3>1, <3>2
  <2> QED
    BY <2>1, <2>2 DEF RetriesAfterFailures
<1>11. NothingForgotten'
  <2>1. ASSUME NEW p \in entered
        PROVE  \/ OnItsWay(p)' \/ signed'[p] + unsigned'[p] > 0
               \/ p \in dropped \/ failed'[p] > MaxRetries
    <3>1. p \in Entries
      BY <1>1 DEF AuditTypeOK
    <3>2. CASE p = r /\ scribe'[w].step = "ack"
      BY <1>7, <3>1, <3>2
    <3>3. CASE p # r \/ scribe'[w].step = "retry"
      <4>1. scribe[w].of = p => scribe'[w].of = p /\ scribe'[w].step \in Working
        BY <1>3, <3>3 DEF KeepsMessage, Working
      <4>2. OnItsWay(p) => OnItsWay(p)'
        BY <1>2, <1>3, <3>1, <4>1, WayKept DEF KeepsMessage
      <4> QED
        BY <1>7, <3>1, <4>2 DEF AuditInv, NothingForgotten
    <3> QED
      BY <1>3, <3>2, <3>3 DEF KeepsMessage
  <2> QED
    BY <1>2, <2>1 DEF NothingForgotten
<1> QED
  BY <1>5, <1>6, <1>8, <1>9, <1>10, <1>11 DEF AuditInv

LEMMA RetryStep ==
  ASSUME AuditInv, NEW w \in Scribes, Retry(w)
  PROVE  AuditInv'
<1> DEFINE r == scribe[w].of
           n == scribe[w].retry
<1>1. /\ AuditTypeOK /\ scribe[w].step = "retry" /\ scribe[w] \in Message /\ r \in Entries
      /\ scribe \in [Scribes -> Message] /\ queued \in Queue /\ n \in Retries
  BY Busy DEF AuditInv, Retry
<1>2. UNCHANGED <<tables, people, entered, unsent, signed, unsigned, failed,
                  unanswered, strays, scribesLost>>
  BY DEF Retry
<1>3. KeepsMessage(w, {"ack"})
  BY <1>1 DEF Retry, KeepsMessage, Moved, Message
<1>4. \/ /\ n < MaxRetries /\ n + 1 \in Retries /\ Sent(queued, queued', <<r, n + 1>>, 1)
         /\ UNCHANGED dropped
      \/ queued' = queued /\ n = MaxRetries /\ UNCHANGED dropped
      \/ queued' = queued /\ dropped' = dropped \union {r}
  <2>1. n \in 0 .. MaxRetries
    BY <1>1 DEF Retries
  <2>2. n < MaxRetries => n + 1 \in Retries
    BY <2>1 DEF Retries
  <2>3. ASSUME n < MaxRetries, queued' = [queued EXCEPT ![<<r, n + 1>>] = @ + 1]
        PROVE  Sent(queued, queued', <<r, n + 1>>, 1)
    <3>1. <<r, n + 1>> \in Entries \X Retries
      BY <1>1, <2>2, <2>3
    <3> HIDE DEF r, n
    <3> QED
      BY <1>1, <2>3, <3>1 DEF Sent, Queue
  <2> QED
    BY <2>1, <2>2, <2>3 DEF Retry
<1>5. faults' \in 0 .. MaxFaults /\ dropped' \subseteq Entries /\ queued' \in Queue
      /\ dropped \subseteq dropped'
  BY <1>1, <1>4 DEF Retry, Fault, AuditTypeOK, Sent
<1>6. AuditTypeOK'
  BY <1>1, <1>2, <1>3, <1>5 DEF AuditTypeOK, KeepsMessage, Moved, Message, Queue
<1>7. BusyWithEntry'
  BY <1>3, BusyStays DEF KeepsMessage
<1>8. ASSUME NEW m \in Entries \X Retries
      PROVE  /\ queued[m] > 0 => queued'[m] > 0
             /\ queued'[m] > 0 => queued[m] > 0 \/ (m = <<r, n + 1>> /\ n < MaxRetries)
  BY <1>1, <1>4 DEF Sent, Queue
<1>9. RowsPaidFor'
  <2>1. ASSUME NEW p \in Entries
        PROVE  StaysPaid(p)
    <3>1. /\ IsFiniteSet(HandsIn(scribe', p))
          /\ Cardinality(HandsIn(scribe', p))
               = Cardinality(HandsIn(scribe, p))
                   + (IF scribe'[w].of = p /\ scribe'[w].step \in Working THEN 1 ELSE 0)
                   - (IF scribe[w].of = p /\ scribe[w].step \in Working THEN 1 ELSE 0)
      BY <1>3, HandsMoved DEF KeepsMessage
    <3>2. scribe[w].step \in Working /\ ~ (scribe'[w].step \in Working)
      BY <1>1, <1>3 DEF KeepsMessage, Working
    <3>3. Cardinality(HandsIn(scribe', p))
            = Cardinality(HandsIn(scribe, p)) - (IF p = r THEN 1 ELSE 0)
      BY <3>1, <3>2, Counts
    <3>4. /\ IsFiniteSet(CopiesIn(queued', p))
          /\ Cardinality(CopiesIn(queued', p))
               <= Cardinality(CopiesIn(queued, p)) + (IF p = r THEN 1 ELSE 0)
          /\ Cardinality(CopiesIn(queued', p)) \in Nat
      <4>1. CASE queued' = queued
        BY <4>1, Counts
      <4>2. CASE n + 1 \in Retries /\ Sent(queued, queued', <<r, n + 1>>, 1)
        <5>1. /\ IsFiniteSet(CopiesIn(queued', p))
              /\ Cardinality(CopiesIn(queued', p))
                   = Cardinality(CopiesIn(queued, p)) + (IF p = r THEN 1 ELSE 0)
          BY <1>1, <4>2, CopiesSent
        <5> HIDE DEF r, n
        <5> QED
          BY <5>1, Counts
      <4> QED
        BY <1>4, <4>1, <4>2
    <3>5. Budget(p)' = Budget(p)
      BY <1>2 DEF Budget
    <3> HIDE DEF r, n
    <3> QED
      BY <1>2, <3>1, <3>3, <3>4, <3>5, Counts DEF StaysPaid
  <2> QED
    BY <2>1, StillPaidFor
<1>10. AuthorKnown'
  BY <1>2, <1>3 DEF AuditInv, AuthorKnown, UnsignedOnlyIfGone, KeepsMessage, Moved
<1>11. failed[r] > n
  BY <1>1 DEF AuditInv, RetriesAfterFailures
<1>12. RetriesAfterFailures'
  <2>1. ASSUME NEW p \in Entries, NEW k \in Retries, queued'[<<p, k>>] > 0
        PROVE  failed'[p] >= k
    <3>1. CASE queued[<<p, k>>] > 0
      BY <1>2, <3>1 DEF AuditInv, RetriesAfterFailures
    <3>2. CASE <<p, k>> = <<r, n + 1>>
      <4>1. p = r /\ k = n + 1
        BY <3>2
      <4>2. failed[r] \in Nat /\ n \in Nat
        BY <1>1 DEF AuditTypeOK, Retries
      <4> HIDE DEF r, n
      <4> QED
        BY <1>2, <1>11, <4>1, <4>2
    <3>3. <<p, k>> \in Entries \X Retries
      OBVIOUS
    <3> QED
      BY <1>8, <2>1, <3>1, <3>2, <3>3
  <2>2. ASSUME NEW v \in Scribes, scribe'[v].step # "idle"
        PROVE  /\ failed'[scribe'[v].of] >= scribe'[v].retry
               /\ scribe'[v].step = "retry" => failed'[scribe'[v].of] > scribe'[v].retry
    BY <1>1, <1>2, <1>3, <2>2 DEF AuditInv, RetriesAfterFailures, KeepsMessage, Moved
  <2> QED
    BY <2>1, <2>2 DEF RetriesAfterFailures
<1>13. NothingForgotten'
  <2>1. ASSUME NEW p \in entered
        PROVE  \/ OnItsWay(p)' \/ signed[p] + unsigned[p] > 0
               \/ p \in dropped' \/ failed[p] > MaxRetries
    <3>1. p \in Entries
      BY <1>1 DEF AuditTypeOK
    <3>2. CASE p = r
      <4>1. CASE n < MaxRetries /\ n + 1 \in Retries /\ Sent(queued, queued', <<r, n + 1>>, 1)
        <5>1. queued'[<<r, n + 1>>] > 0
          <6>1. <<r, n + 1>> \in Entries \X Retries
            BY <1>1, <4>1
          <6> HIDE DEF r, n
          <6> QED
            BY <1>1, <4>1, <6>1 DEF Sent, Queue
        <5> HIDE DEF r, n
        <5> QED
          BY <3>2, <4>1, <5>1 DEF OnItsWay
      <4>2. CASE n = MaxRetries
        BY <1>11, <3>2, <4>2
      <4>3. CASE r \in dropped'
        BY <3>2, <4>3
      <4> QED
        BY <1>4, <4>1, <4>2, <4>3
    <3>3. CASE p # r
      <4>1. ASSUME NEW k \in Retries
            PROVE  queued[<<p, k>>] > 0 => queued'[<<p, k>>] > 0
        <5>1. <<p, k>> \in Entries \X Retries
          BY <3>1
        <5> QED
          BY <1>8, <5>1
      <4>2. OnItsWay(p) => OnItsWay(p)'
        BY <1>3, <3>1, <3>3, <4>1, WayKept DEF KeepsMessage
      <4> QED
        BY <1>5, <4>2 DEF AuditInv, NothingForgotten
    <3> QED
      BY <3>2, <3>3
  <2> QED
    BY <1>2, <2>1 DEF NothingForgotten
<1> QED
  BY <1>6, <1>7, <1>9, <1>10, <1>12, <1>13 DEF AuditInv

LEMMA AckStep ==
  ASSUME AuditInv, NEW w \in Scribes, Ack(w)
  PROVE  AuditInv'
<1>1. /\ AuditTypeOK /\ scribe \in [Scribes -> Message] /\ Idle \in Message
  BY Shapes DEF AuditInv
<1>2. UNCHANGED <<tables, people, entered, unsent, queued, signed, unsigned, failed,
                  unanswered, dropped, strays, faults, scribesLost>>
  BY DEF Ack, auditGhosts
<1>3. Moved(scribe, scribe', w, Idle) /\ scribe[w].step = "ack"
  BY <1>1 DEF Ack, Moved
<1>4. ~ (Idle.step \in Working) /\ ~ (scribe[w].step \in Working) /\ Idle.step = "idle"
  BY <1>3 DEF Idle, Working
<1>5. AuditTypeOK'
  BY <1>1, <1>2, <1>3 DEF AuditTypeOK, Moved, Message
<1>6. BusyWithEntry' /\ AuthorKnown' /\ RetriesAfterFailures'
  BY <1>2, <1>3, <1>4 DEF AuditInv, BusyWithEntry, AuthorKnown, UnsignedOnlyIfGone,
                          RetriesAfterFailures, Moved
<1>7. RowsPaidFor'
  <2>1. ASSUME NEW p \in Entries
        PROVE  StaysPaid(p)
    <3>1. /\ IsFiniteSet(HandsIn(scribe', p))
          /\ Cardinality(HandsIn(scribe', p))
               = Cardinality(HandsIn(scribe, p))
                   + (IF Idle.of = p /\ Idle.step \in Working THEN 1 ELSE 0)
                   - (IF scribe[w].of = p /\ scribe[w].step \in Working THEN 1 ELSE 0)
      BY <1>3, HandsMoved
    <3> QED
      BY <1>2, <1>4, <3>1, Counts DEF StaysPaid, Budget
  <2> QED
    BY <2>1, StillPaidFor
<1>8. NothingForgotten'
  <2>1. ASSUME NEW p \in entered
        PROVE  OnItsWay(p) => OnItsWay(p)'
    <3>1. p \in Entries
      BY <1>1 DEF AuditTypeOK
    <3> QED
      BY <1>2, <1>3, <1>4, <3>1, WayKept
  <2> QED
    BY <1>2, <2>1 DEF AuditInv, NothingForgotten
<1> QED
  BY <1>5, <1>6, <1>7, <1>8 DEF AuditInv

LEMMA LoseScribeStep ==
  ASSUME AuditInv, NEW w \in Scribes, LoseScribe(w)
  PROVE  AuditInv'
<1> DEFINE r == scribe[w].of
           n == scribe[w].retry
<1>1. /\ AuditTypeOK /\ scribe[w].step # "idle" /\ r \in Entries /\ n \in Retries
      /\ scribe \in [Scribes -> Message] /\ queued \in Queue /\ Idle \in Message
  BY Busy, Shapes DEF AuditInv, LoseScribe, BusyWithEntry
<1>2. UNCHANGED <<tables, people, entered, unsent, signed, unsigned, failed,
                  unanswered, dropped, faults>>
  BY DEF LoseScribe
<1>3. Moved(scribe, scribe', w, Idle) /\ Idle.step = "idle" /\ ~ (Idle.step \in Working)
  BY <1>1 DEF LoseScribe, Moved, Idle, Working
<1>4. Sent(queued, queued', <<r, n>>, 1)
  <2>1. <<r, n>> \in Entries \X Retries
    BY <1>1
  <2>2. queued' = [queued EXCEPT ![<<r, n>>] = @ + 1]
    BY DEF LoseScribe
  <2> HIDE DEF r, n
  <2> QED
    BY <1>1, <2>1, <2>2 DEF Sent, Queue
<1>5. /\ strays' \in [Entries -> Nat] /\ scribesLost' \in 0 .. MaxScribesLost
      /\ \A p \in Entries : strays'[p] = strays[p] + (IF p = r THEN 1 ELSE 0)
  BY <1>1 DEF LoseScribe, AuditTypeOK
<1>6. AuditTypeOK'
  BY <1>1, <1>2, <1>3, <1>4, <1>5 DEF AuditTypeOK, Moved, Sent, Message, Queue
<1>7. BusyWithEntry' /\ AuthorKnown'
  BY <1>2, <1>3 DEF AuditInv, BusyWithEntry, AuthorKnown, UnsignedOnlyIfGone, Moved
<1>8. ASSUME NEW m \in Entries \X Retries
      PROVE  /\ queued[m] > 0 => queued'[m] > 0
             /\ queued'[m] > 0 => queued[m] > 0 \/ m = <<r, n>>
  BY <1>1, <1>4 DEF Sent, Queue
<1>9. RowsPaidFor'
  <2>1. ASSUME NEW p \in Entries
        PROVE  StaysPaid(p)
    <3>1. /\ IsFiniteSet(HandsIn(scribe', p))
          /\ Cardinality(HandsIn(scribe', p))
               = Cardinality(HandsIn(scribe, p))
                   + (IF Idle.of = p /\ Idle.step \in Working THEN 1 ELSE 0)
                   - (IF scribe[w].of = p /\ scribe[w].step \in Working THEN 1 ELSE 0)
      BY <1>3, HandsMoved
    <3>2. Cardinality(HandsIn(scribe', p)) <= Cardinality(HandsIn(scribe, p))
          /\ Cardinality(HandsIn(scribe', p)) \in Nat
      BY <1>3, <3>1, Counts, FS_CardinalityType
    <3>3. /\ IsFiniteSet(CopiesIn(queued', p))
          /\ Cardinality(CopiesIn(queued', p))
               = Cardinality(CopiesIn(queued, p)) + (IF p = r THEN 1 ELSE 0)
      BY <1>1, <1>4, CopiesSent
    <3>4. Budget(p)' = Budget(p) + (IF p = r THEN 1 ELSE 0)
      <4>1. strays[p] \in Nat /\ unanswered[p] \in Nat
        BY Counts
      <4> QED
        BY <1>2, <1>5, <4>1 DEF Budget
    <3> HIDE DEF r, n
    <3> QED
      BY <1>2, <3>1, <3>2, <3>3, <3>4, Counts DEF StaysPaid
  <2> QED
    BY <2>1, StillPaidFor
<1>10. RetriesAfterFailures'
  <2>1. failed[r] >= n
    BY <1>1 DEF AuditInv, RetriesAfterFailures
  <2>2. ASSUME NEW p \in Entries, NEW k \in Retries, queued'[<<p, k>>] > 0
        PROVE  failed'[p] >= k
    <3>1. <<p, k>> \in Entries \X Retries
      OBVIOUS
    <3>2. queued[<<p, k>>] > 0 \/ (p = r /\ k = n)
      BY <1>8, <2>2, <3>1
    <3> QED
      BY <1>2, <2>1, <3>2 DEF AuditInv, RetriesAfterFailures
  <2>3. ASSUME NEW v \in Scribes, scribe'[v].step # "idle"
        PROVE  /\ failed'[scribe'[v].of] >= scribe'[v].retry
               /\ scribe'[v].step = "retry" => failed'[scribe'[v].of] > scribe'[v].retry
    BY <1>2, <1>3, <2>3 DEF AuditInv, RetriesAfterFailures, Moved
  <2> QED
    BY <2>2, <2>3 DEF RetriesAfterFailures
<1>11. NothingForgotten'
  <2>1. ASSUME NEW p \in entered
        PROVE  OnItsWay(p) => OnItsWay(p)'
    <3>1. p \in Entries
      BY <1>1 DEF AuditTypeOK
    <3>2. CASE p = r
      <4>1. <<r, n>> \in Entries \X Retries
        BY <1>1
      <4>2. queued'[<<r, n>>] > 0
        <5> HIDE DEF r, n
        <5> QED
          BY <1>1, <1>4, <4>1 DEF Sent, Queue
      <4> HIDE DEF r, n
      <4> QED
        BY <1>1, <3>2, <4>2 DEF OnItsWay
    <3>3. CASE p # r
      <4>1. ASSUME NEW k \in Retries
            PROVE  queued[<<p, k>>] > 0 => queued'[<<p, k>>] > 0
        <5>1. <<p, k>> \in Entries \X Retries
          BY <3>1
        <5> QED
          BY <1>8, <5>1
      <4> QED
        BY <1>3, <3>1, <3>3, <4>1, WayKept
    <3> QED
      BY <3>2, <3>3
  <2> QED
    BY <1>2, <2>1 DEF AuditInv, NothingForgotten
<1> QED
  BY <1>6, <1>7, <1>9, <1>10, <1>11 DEF AuditInv

LEMMA DropPersonStep ==
  ASSUME AuditInv, NEW u \in People, DropPerson(u)
  PROVE  AuditInv'
<1>1. /\ people' \subseteq people
      /\ UNCHANGED <<tables, entered, unsent, queued, scribe, signed, unsigned, failed,
                     unanswered, dropped, strays, faults, scribesLost>>
  BY DEF DropPerson, auditGhosts
<1>2. AuditTypeOK'
  BY <1>1 DEF AuditInv, AuditTypeOK
<1>3. BusyWithEntry' /\ AuthorKnown' /\ RetriesAfterFailures'
  BY <1>1 DEF AuditInv, BusyWithEntry, AuthorKnown, UnsignedOnlyIfGone, RetriesAfterFailures
<1>4. RowsPaidFor' /\ NothingForgotten'
  BY <1>1 DEF AuditInv, RowsPaidFor, Budget, NothingForgotten, OnItsWay
<1> QED
  BY <1>2, <1>3, <1>4 DEF AuditInv

LEMMA AuditInvStep == AuditInv /\ [AuditNext]_auditVars => AuditInv'
<1> SUFFICES ASSUME AuditInv, [AuditNext]_auditVars
             PROVE  AuditInv'
  OBVIOUS
<1>1. CASE \E r \in Entries : LogAsync(r)
  BY <1>1, LogAsyncStep
<1>2. CASE \E w \in Scribes : Write(w)
  BY <1>2, TakeEntryStep, LookUpStep, InsertRowStep, RetryStep, AckStep DEF Write
<1>3. CASE \E w \in Scribes : LoseScribe(w)
  BY <1>3, LoseScribeStep
<1>4. CASE \E u \in People : DropPerson(u)
  BY <1>4, DropPersonStep
<1>5. CASE UNCHANGED auditVars
  <2>1. UNCHANGED <<tables, people, entered, unsent, queued, scribe, signed, unsigned,
                    failed, unanswered, dropped, strays, faults, scribesLost>>
    BY <1>5 DEF auditVars, auditGhosts
  <2>2. AuditTypeOK'
    BY <2>1 DEF AuditInv, AuditTypeOK
  <2>3. BusyWithEntry' /\ AuthorKnown' /\ RetriesAfterFailures'
    BY <2>1 DEF AuditInv, BusyWithEntry, AuthorKnown, UnsignedOnlyIfGone, RetriesAfterFailures
  <2>4. RowsPaidFor' /\ NothingForgotten'
    BY <2>1 DEF AuditInv, RowsPaidFor, Budget, NothingForgotten, OnItsWay
  <2> QED
    BY <2>2, <2>3, <2>4 DEF AuditInv
<1> QED
  BY <1>1, <1>2, <1>3, <1>4, <1>5 DEF AuditNext

LEMMA AuditInvariant == AuditSpec => []AuditInv
<1>1. AuditInit => AuditInv
  BY AuditInvInit
<1>2. AuditInv /\ [AuditNext]_auditVars => AuditInv'
  BY AuditInvStep
<1> QED
  BY <1>1, <1>2, PTL DEF AuditSpec

-----------------------------------------------------------------------------
(* The audit trail: the theorems *)

(* The variables keep their types.                                           *)
THEOREM AuditTypes == AuditSpec => []AuditTypeOK
<1>1. AuditInv => AuditTypeOK
  BY DEF AuditInv
<1> QED
  BY <1>1, AuditInvariant, PTL

(* A request is in the trail once, and once more at most for every worker    *)
(* lost with its message and every INSERT whose answer was lost: nothing     *)
(* else in the task repeats a row (log_request_task).                        *)
THEOREM RetriesDoNotRepeat == AuditSpec => []RepeatedByLossOnly
<1>1. ASSUME AuditInv
      PROVE  RepeatedByLossOnly
  <2> SUFFICES ASSUME NEW r \in Entries
               PROVE  signed[r] + unsigned[r] <= 1 + strays[r] + unanswered[r]
    BY DEF RepeatedByLossOnly
  <2>1. Budget(r) <= 1 + strays[r] + unanswered[r]
    BY <1>1, Counts DEF Budget
  <2> QED
    BY <1>1, <2>1, Counts
<1> QED
  BY <1>1, AuditInvariant, PTL

(* An entry names its author, unless there was none or the account is gone   *)
(* (log_request_task).                                                       *)
THEOREM AuthorsNamed == AuditSpec => []UnsignedOnlyIfGone
<1>1. AuditInv => UnsignedOnlyIfGone
  BY DEF AuditInv, AuthorKnown
<1> QED
  BY <1>1, AuditInvariant, PTL

(* An entry that was queued is on its way until it is written, an error      *)
(* struck where the task does not retry, or every attempt failed: losing     *)
(* workers does not lose it (acks_late, reject_on_worker_lost).              *)
THEOREM EntriesKept == AuditSpec => []NothingForgotten
<1>1. AuditInv => NothingForgotten
  BY DEF AuditInv
<1> QED
  BY <1>1, AuditInvariant, PTL

(* Without the table there is never a row, and an entry that was queued is   *)
(* on its way, dropped, or has failed every time: no retry helps.            *)
NoTrail ==
  ~ tables =>
    \A r \in Entries :
      /\ signed[r] = 0 /\ unsigned[r] = 0
      /\ r \in entered => OnItsWay(r) \/ r \in dropped \/ failed[r] > MaxRetries

LEMMA NoRowStep ==
  ASSUME [AuditNext]_auditVars, ~ tables
  PROVE  UNCHANGED <<tables, signed, unsigned>>
<1>1. ASSUME NEW w \in Scribes, InsertRow(w) PROVE UNCHANGED <<tables, signed, unsigned>>
  BY <1>1 DEF InsertRow, WriteRow
<1> QED
  BY <1>1 DEF AuditNext, Write, LogAsync, TakeEntry, LookUp, Retry, Ack, LoseScribe, DropPerson,
              auditVars, auditGhosts

(* As deployed, where the worker's schema lacks the table, the audit trail   *)
(* stays empty for good (audit/models.py, log_request_task).                 *)
THEOREM TrailStaysEmpty == AuditSpec => []NoTrail
<1> DEFINE Empty == ~ tables => \A r \in Entries : signed[r] = 0 /\ unsigned[r] = 0
<1>1. AuditInit => Empty
  BY DEF AuditInit
<1>2. Empty /\ [AuditNext]_auditVars => Empty'
  <2> SUFFICES ASSUME Empty, [AuditNext]_auditVars, ~ tables' PROVE Empty'
    OBVIOUS
  <2>1. UNCHANGED tables
    BY DEF AuditNext, Write, LogAsync, TakeEntry, LookUp, InsertRow, Retry, Ack, LoseScribe,
           DropPerson, auditVars, auditGhosts
  <2> QED
    BY <2>1, NoRowStep
<1>3. Empty /\ NothingForgotten /\ AuditTypeOK => NoTrail
  <2> SUFFICES ASSUME Empty, NothingForgotten, AuditTypeOK, ~ tables, NEW r \in Entries
               PROVE  /\ signed[r] = 0 /\ unsigned[r] = 0
                      /\ r \in entered => OnItsWay(r) \/ r \in dropped \/ failed[r] > MaxRetries
    BY DEF NoTrail
  <2>1. signed[r] = 0 /\ unsigned[r] = 0
    OBVIOUS
  <2> QED
    BY <2>1 DEF NothingForgotten
<1>4. AuditInv => AuditTypeOK
  BY DEF AuditInv
<1> HIDE DEF Empty
<1> QED
  BY <1>1, <1>2, <1>3, <1>4, AuditInvariant, EntriesKept, PTL DEF AuditSpec

-----------------------------------------------------------------------------
(* The parts side by side *)

(* What the whole does to one part is a step of the part or leaves it alone. *)
THEOREM PartsOfTheBackend ==
  BackendSpec => /\ SchedSpec /\ AccountsSpec /\ SessionsSpec
                 /\ TenantsSpec /\ RealtimeSpec /\ AuditSpec
<1>1. BackendInit => /\ SchedInit /\ AccountsInit /\ SessionsInit
                     /\ TenantsInit /\ RealtimeInit /\ AuditInit
  BY DEF BackendInit
<1>2. ASSUME [BackendNext]_backendVars
      PROVE  /\ [SchedNext]_schedVars /\ [AccountsNext]_accountVars
             /\ [SessionsNext]_sessionVars /\ [TenantsNext]_tenantVars
             /\ [RealtimeNext]_realtimeVars /\ [AuditNext]_auditVars
  BY <1>2 DEF BackendNext, backendVars
<1> QED
  BY <1>1, <1>2, PTL DEF BackendSpec, SchedSpec, AccountsSpec, SessionsSpec, TenantsSpec,
                         RealtimeSpec, AuditSpec

(* Every variable of every part keeps its type.                              *)
THEOREM BackendTypes == BackendSpec => []TypesOK
<1>1. /\ SchedTypeOK /\ AccountsTypeOK /\ SessionsTypeOK
      /\ TenantsTypeOK /\ RealtimeTypeOK /\ AuditTypeOK
      => TypesOK
  BY DEF TypesOK
<1> QED
  BY <1>1, PartsOfTheBackend, SchedulerTypes, AccountsTypes, SessionsTypes, TenantsTypes,
     RealtimeTypes, AuditTypes, PTL

(* What is proved of each part on its own holds of the backend: its          *)
(* schedules, links, tokens, organizations, sockets and rows at once.        *)
THEOREM BackendSafe ==
  BackendSpec =>
    /\ [](/\ OneUnusedToken /\ OneResetPerLink /\ OneAccountPerAddress
          /\ StrandedByATokenOnly
          /\ OneGoodToken /\ RoleWasHeldThere
          /\ OneActiveName /\ ActiveOrgHasOwner /\ LostToARivalOnly
          /\ NothingMissed
          /\ RepeatedByLossOnly /\ UnsignedOnlyIfGone /\ NothingForgotten
          /\ NothingDispatched /\ NoTrail)
    /\ FiringAdvances
<1> QED
  BY PartsOfTheBackend, NextRunAhead, LastLinkOnly, LinkWorksOnce, AddressesApart,
     StrandedByATokenMade, OneTokenPerSession, RolesStayInTheirOrg, NamesApart, OwnersStay,
     RefusedByRivals, OpenStreamsMissNothing, RetriesDoNotRepeat, AuthorsNamed, EntriesKept,
     NothingRunsUntransacted, TrailStaysEmpty, PTL

=============================================================================
