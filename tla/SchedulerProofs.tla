-------------------------- MODULE SchedulerProofs --------------------------
(***************************************************************************)
(* The dispatcher of recurring schedules and due targets, for any          *)
(* schedules, organizations, zones and crons, and any number of            *)
(* dispatchers that overlap: as deployed it does nothing, and where a      *)
(* caller's transaction lets it fire, the next run lies ahead.             *)
(***************************************************************************)
EXTENDS Scheduler, TLAPS

USE SchedulerAssumption

-----------------------------------------------------------------------------
(* The clock arithmetic, for every zone, instant and cron *)

LEMMA LocalType ==
  ASSUME NEW z \in Zone, NEW u \in Int
  PROVE  ToLocal(z, u) \in Int
BY DEF Zone, ToLocal

LEMMA SlotAfter ==
  ASSUME NEW c \in Cron, NEW l \in Int
  PROVE  NextSlot(c, l) \in Int /\ NextSlot(c, l) > l
<1>1. c.period \in Nat /\ c.period > 0 /\ c.phase - l - 1 \in Int
  BY DEF Cron
<1>2. (c.phase - l - 1) % c.period \in 0 .. (c.period - 1)
  BY <1>1
<1> QED
  BY <1>1, <1>2 DEF NextSlot

(* Reading an instant on the wall clock and turning it back gives the       *)
(* instant, when fold says which pass of a repeated hour it was in          *)
(* (utc_to_local and localize_to_utc).                                      *)
THEOREM RoundTrip ==
  ASSUME NEW z \in Zone, NEW u \in Int
  PROVE  ToUtc(z, ToLocal(z, u), IF Repeated(z, u) THEN 1 ELSE 0) = u
BY DEF Zone, ToUtc, ToLocal, WallOffset, Later, Earlier, Repeated

(* A time that was read off the clock exists.                               *)
THEOREM ReadTimesExist ==
  ASSUME NEW z \in Zone, NEW u \in Int
  PROVE  ~ IsNonexistent(z, ToLocal(z, u))
BY DEF Zone, ToUtc, ToLocal, WallOffset, Later, Earlier, IsNonexistent

(* on_gap="push_forward" never lands before the change of the clocks, with  *)
(* the default fold.                                                        *)
THEOREM PushForward ==
  ASSUME NEW z \in Zone, NEW l \in Int, IsNonexistent(z, l)
  PROVE  LocalizeToUtc(z, l, "push_forward", 0) >= z.at
BY DEF Zone, ToUtc, ToLocal, WallOffset, Later, Earlier, IsNonexistent,
       LocalizeToUtc

(* compute_next_run lies ahead of the moment it starts from, unless that    *)
(* moment is in the second pass through a repeated hour.                    *)
THEOREM NextRunIsAhead ==
  ASSUME NEW z \in Zone, NEW c \in Cron, NEW u \in Int, ~ Repeated(z, u)
  PROVE  ComputeNextRun(z, c, u) \in Int /\ ComputeNextRun(z, c, u) > u
<1> DEFINE l == ToLocal(z, u)
           n == NextSlot(c, l)
<1>1. l \in Int
  BY LocalType
<1>2. n \in Int /\ n > l
  BY <1>1, SlotAfter
<1>3. ToUtc(z, n, 0) \in Int /\ ToUtc(z, n, 0) > u
  <2> HIDE DEF n
  <2> QED
    BY <1>2 DEF Zone, ToUtc, ToLocal, WallOffset, Later, Earlier, Repeated
<1> QED
  BY <1>3 DEF ComputeNextRun

-----------------------------------------------------------------------------
(* Types *)

LEMMA NextRunType ==
  ASSUME NEW z \in Zone, NEW c \in Cron, NEW u \in Int
  PROVE  ComputeNextRun(z, c, u) \in Int
<1> DEFINE n == NextSlot(c, ToLocal(z, u))
<1>1. n \in Int
  BY LocalType, SlotAfter
<1>2. WallOffset(z, n, 0) \in Int
  BY DEF Zone, WallOffset
<1> HIDE DEF n
<1>3. ToUtc(z, n, 0) \in Int
  BY <1>1, <1>2 DEF ToUtc
<1> QED
  BY <1>3 DEF ComputeNextRun, n

\* An administrator's action is about a schedule.
EditOK == edit.op # "none" => edit.of \in Schedules

SchedTypes == SchedTypeOK /\ EditOK

LEMMA SchedInitTypes == SchedInit => SchedTypes
BY DEF SchedInit, SchedTypes, SchedTypeOK, EditOK, Row, Resting, NoEdit

LEMMA FireType ==
  ASSUME SchedTypes, NEW s \in Schedules, NEW at \in Int
  PROVE  Fire(s, at) \in Row
<1>1. plan[s].count \in Nat
  BY DEF SchedTypes, SchedTypeOK, Row
<1>2. ComputeNextRun(ZoneOf[s], CronOf[s], at) \in Int
  BY NextRunType
<1> QED
  BY <1>1, <1>2 DEF Fire, Row

\* What the admin's actions do to a row.
LEMMA ActiveRow ==
  ASSUME NEW r \in Row PROVE [r EXCEPT !.active = TRUE] \in Row
BY DEF Row

LEMMA RefreshedRow ==
  ASSUME NEW r \in Row, NEW n \in Int PROVE [r EXCEPT !.next = n] \in Row
BY DEF Row

LEMMA StoppedRow ==
  ASSUME NEW r \in Row PROVE [r EXCEPT !.active = FALSE, !.next = None] \in Row
BY DEF Row

Pass == [at : Int, todo : SUBSET Tenants, mine : SUBSET Schedules, sent : SUBSET Targets]

\* A dispatcher is done with an organization, having locked and sent some more.
LEMMA ServeTenantPass ==
  ASSUME SchedTypes, NEW d \in Dispatchers, NEW t \in Tenants, ServeTenant(d, t)
  PROVE  /\ pass' \in [Dispatchers -> Pass]
         /\ \A e \in Dispatchers \ {d} : pass'[e] = pass[e]
         /\ pass'[d].at = pass[d].at
         /\ pass'[d].mine = pass[d].mine \union (DueSchedules(t, pass[d].at) \ Held)
<1> DEFINE M == DueSchedules(t, pass[d].at) \ Held
           X == DueTargets(t, pass[d].at)
<1>1. M \in SUBSET Schedules /\ X \in SUBSET Targets
  BY DEF DueSchedules, DueTargets
<1>2. pass \in [Dispatchers -> Pass]
  BY DEF SchedTypes, SchedTypeOK, Pass
<1> DEFINE q == [pass EXCEPT ![d].todo = pass[d].todo \ {t}]
           r == [q EXCEPT ![d].mine = pass[d].mine \union M]
<1>3. q \in [Dispatchers -> Pass] /\ q[d].mine = pass[d].mine /\ q[d].sent = pass[d].sent
      /\ q[d].at = pass[d].at /\ \A e \in Dispatchers \ {d} : q[e] = pass[e]
  BY <1>2 DEF Pass
<1> HIDE DEF M, X, q
<1>4. r \in [Dispatchers -> Pass] /\ r[d].mine = pass[d].mine \union M
      /\ r[d].sent = pass[d].sent /\ r[d].at = pass[d].at
      /\ \A e \in Dispatchers \ {d} : r[e] = pass[e]
  <2> HIDE DEF r
  <2> DEFINE n == pass[d].mine \union M
  <2>1. n \in SUBSET Schedules
    BY <1>1, <1>2 DEF Pass
  <2>2. r = [q EXCEPT ![d].mine = n]
    BY DEF r
  <2> HIDE DEF n
  <2>3. r \in [Dispatchers -> Pass]
    BY <1>3, <2>1, <2>2 DEF Pass
  <2>4. r[d].mine = n /\ r[d].sent = q[d].sent /\ r[d].at = q[d].at
    BY <1>3, <2>2 DEF Pass
  <2>5. \A e \in Dispatchers \ {d} : r[e] = q[e]
    BY <1>3, <2>2
  <2> QED
    BY <1>3, <2>3, <2>4, <2>5 DEF n
<1>5. pass' = [r EXCEPT ![d].sent = pass[d].sent \union X]
  BY <1>3, <1>4 DEF ServeTenant, M, X, q
<1> HIDE DEF r
<1>6. /\ pass' \in [Dispatchers -> Pass]
      /\ \A e \in Dispatchers \ {d} : pass'[e] = pass[e]
      /\ pass'[d].at = pass[d].at
      /\ pass'[d].mine = pass[d].mine \union M
  BY <1>1, <1>2, <1>4, <1>5 DEF Pass
<1> QED
  BY <1>6 DEF M

LEMMA SchedStepTypes == SchedTypes /\ [SchedNext]_schedVars => SchedTypes'
<1> SUFFICES ASSUME SchedTypes, [SchedNext]_schedVars PROVE SchedTypes'
  OBVIOUS
<1> USE DEF SchedTypes, SchedTypeOK, EditOK
<1>0. now \in Int
  OBVIOUS
<1>1. ASSUME Tick PROVE SchedTypes'
  BY <1>1 DEF Tick
<1>2. ASSUME NEW d \in Dispatchers, BeginPass(d) PROVE SchedTypes'
  BY <1>0, <1>2 DEF BeginPass, Resting
<1>3. ASSUME NEW d \in Dispatchers, NEW t \in Tenants, ServeTenant(d, t) PROVE SchedTypes'
  <2>1. pass' \in [Dispatchers -> Pass]
    BY <1>3, ServeTenantPass
  <2> QED
    BY <1>3, <2>1 DEF ServeTenant, Pass
<1>4. ASSUME NEW d \in Dispatchers, NEW t \in Tenants, RefuseTenant(d, t) PROVE SchedTypes'
  BY <1>4 DEF RefuseTenant
<1>5. ASSUME NEW d \in Dispatchers, CommitPass(d) PROVE SchedTypes'
  <2>1. \A s \in Schedules : Fire(s, pass[d].at) \in Row
    BY FireType
  <2>2. plan' \in [Schedules -> Row]
    BY <1>5, <2>1 DEF CommitPass
  <2>3. fired' \in [Schedules -> Nat]
    BY <1>5 DEF CommitPass
  <2>4. pass' = [pass EXCEPT ![d].mine = {}]
        /\ UNCHANGED <<transacted, now, edit, edits, crashes>>
    BY <1>5 DEF CommitPass
  <2> QED
    BY <2>2, <2>3, <2>4
<1>6. ASSUME NEW d \in Dispatchers, LosePass(d) PROVE SchedTypes'
  BY <1>6 DEF LosePass, Resting
<1>8. ASSUME NEW s \in Schedules, Activate(s) PROVE SchedTypes'
  <2>1. plan' = [plan EXCEPT ![s] = [plan[s] EXCEPT !.active = TRUE]]
    BY <1>8 DEF Activate
  <2>2. plan' \in [Schedules -> Row]
    <3>1. plan \in [Schedules -> Row] /\ [plan[s] EXCEPT !.active = TRUE] \in Row
      BY ActiveRow
    <3> QED
      BY <2>1, <3>1
  <2> QED
    BY <1>8, <2>2 DEF Activate
<1>9. ASSUME NEW s \in Schedules, NEW op \in {"refresh", "deactivate"}, ReadActive(op, s)
      PROVE  SchedTypes'
  BY <1>9 DEF ReadActive
<1>10. ASSUME ReadRenewed PROVE SchedTypes'
  BY <1>10 DEF ReadRenewed, NoEdit
<1>11. ASSUME SaveEdit PROVE SchedTypes'
  <2>1. edit.of \in Schedules
    BY <1>11 DEF SaveEdit
  <2>2. ComputeNextRun(ZoneOf[edit.of], CronOf[edit.of], now) \in Int
    BY <1>0, <2>1, NextRunType
  <2>3. plan' \in [Schedules -> Row]
    <3> DEFINE e == edit.of
               n == ComputeNextRun(ZoneOf[e], CronOf[e], now)
    <3>1. \/ plan' = [plan EXCEPT ![e] = [plan[e] EXCEPT !.next = n]]
          \/ plan' = [plan EXCEPT ![e] = [plan[e] EXCEPT !.active = FALSE, !.next = None]]
      BY <1>11 DEF SaveEdit
    <3> HIDE DEF n
    <3>2. n \in Int
      BY <2>2 DEF n
    <3>3. /\ plan \in [Schedules -> Row]
          /\ [plan[e] EXCEPT !.next = n] \in Row
          /\ [plan[e] EXCEPT !.active = FALSE, !.next = None] \in Row
      BY <2>1, <3>2, RefreshedRow, StoppedRow
    <3>4. ASSUME NEW r \in Row PROVE [plan EXCEPT ![e] = r] \in [Schedules -> Row]
      BY <3>3
    <3> QED
      BY <3>1, <3>3, <3>4
  <2> QED
    BY <1>11, <2>3 DEF SaveEdit, NoEdit
<1>12. CASE UNCHANGED schedVars
  BY <1>12 DEF schedVars
<1> QED
  BY <1>1, <1>2, <1>3, <1>4, <1>5, <1>6, <1>8, <1>9, <1>10, <1>11, <1>12
  DEF SchedNext, Dispatch, Administer

-----------------------------------------------------------------------------
(* The inductive invariant *)

\* Dispatchers that overlap hold different rows (skip_locked).
HeldApart ==
  \A d, e \in Dispatchers : d # e => pass[d].mine \intersect pass[e].mine = {}

\* A row stays due as long as a dispatcher has it locked.
HeldDue == \A d \in Dispatchers : \A s \in pass[d].mine : Due(s, pass[d].at)

SchedInv == SchedTypes /\ HeldApart /\ HeldDue

LEMMA SchedInvInit == SchedInit => SchedInv
<1>1. SchedInit => HeldApart /\ HeldDue
  BY DEF SchedInit, HeldApart, HeldDue, Resting
<1> QED
  BY <1>1, SchedInitTypes DEF SchedInv

\* The actions of administrators leave the locked rows as they are.
LEMMA LockedRowsKept ==
  ASSUME SchedInv, Administer, NEW s \in Held
  PROVE  plan'[s] = plan[s]
<1>1. s \in Schedules /\ plan[s] \in Row /\ plan[s].active
  BY DEF SchedInv, SchedTypes, SchedTypeOK, Held, HeldDue, Due
<1>2. ASSUME NEW r \in Schedules, Activate(r) PROVE plan'[s] = plan[s]
  <2>1. [plan[s] EXCEPT !.active = TRUE] = plan[s]
    BY <1>1 DEF Row
  <2>2. plan'[s] = IF s = r THEN [plan[s] EXCEPT !.active = TRUE] ELSE plan[s]
    BY <1>1, <1>2 DEF Activate, SchedInv, SchedTypes, SchedTypeOK
  <2> QED
    BY <2>1, <2>2
<1>3. ASSUME SaveEdit PROVE plan'[s] = plan[s]
  BY <1>1, <1>3 DEF SaveEdit, SchedInv, SchedTypes, SchedTypeOK
<1> QED
  BY <1>2, <1>3 DEF Administer, ReadActive, ReadRenewed

LEMMA SchedInvStep == SchedInv /\ [SchedNext]_schedVars => SchedInv'
<1> SUFFICES ASSUME SchedInv, [SchedNext]_schedVars PROVE HeldApart' /\ HeldDue'
  BY SchedStepTypes DEF SchedInv
<1>0. SchedTypes
  BY DEF SchedInv
<1>1. ASSUME Tick PROVE HeldApart' /\ HeldDue'
  BY <1>1 DEF SchedInv, Tick, HeldApart, HeldDue, Due
<1>2. ASSUME NEW d \in Dispatchers, BeginPass(d) \/ LosePass(d) PROVE HeldApart' /\ HeldDue'
  <2>1. /\ \A e \in Dispatchers \ {d} : pass'[e] = pass[e]
        /\ pass'[d].mine = {}
        /\ UNCHANGED plan
    <3>1. ASSUME BeginPass(d)
          PROVE  pass' = [pass EXCEPT ![d] = [at |-> now, todo |-> OpenTenants,
                                              mine |-> {}, sent |-> {}]]
                 /\ UNCHANGED plan
      BY <3>1 DEF BeginPass, Resting
    <3>2. ASSUME LosePass(d) PROVE pass' = [pass EXCEPT ![d] = Resting] /\ UNCHANGED plan
      BY <3>2 DEF LosePass
    <3> QED
      BY <1>0, <1>2, <3>1, <3>2 DEF SchedTypes, SchedTypeOK, Resting
  <2> QED
    BY <2>1 DEF SchedInv, HeldApart, HeldDue, Due
<1>3. ASSUME NEW d \in Dispatchers, NEW t \in Tenants, ServeTenant(d, t)
      PROVE  HeldApart' /\ HeldDue'
  <2>1. /\ \A e \in Dispatchers \ {d} : pass'[e] = pass[e]
        /\ pass'[d].at = pass[d].at
        /\ pass'[d].mine = pass[d].mine \union (DueSchedules(t, pass[d].at) \ Held)
        /\ UNCHANGED plan
    BY <1>0, <1>3, ServeTenantPass DEF ServeTenant
  <2>2. \A e \in Dispatchers : pass[e].mine \subseteq Held
    BY DEF Held
  <2>3. HeldApart'
    BY <2>1, <2>2 DEF SchedInv, HeldApart
  <2>4. HeldDue'
    BY <2>1 DEF SchedInv, HeldDue, Due, DueSchedules
  <2> QED
    BY <2>3, <2>4
<1>4. ASSUME NEW d \in Dispatchers, NEW t \in Tenants, RefuseTenant(d, t)
      PROVE  HeldApart' /\ HeldDue'
  <2>1. /\ \A e \in Dispatchers : pass'[e].mine = pass[e].mine /\ pass'[e].at = pass[e].at
        /\ UNCHANGED plan
    BY <1>0, <1>4 DEF SchedTypes, SchedTypeOK, RefuseTenant
  <2> QED
    BY <2>1 DEF SchedInv, HeldApart, HeldDue, Due
<1>5. ASSUME NEW d \in Dispatchers, CommitPass(d) PROVE HeldApart' /\ HeldDue'
  <2>1. /\ \A e \in Dispatchers \ {d} : pass'[e] = pass[e]
        /\ pass'[d].mine = {}
    BY <1>0, <1>5 DEF SchedTypes, SchedTypeOK, CommitPass
  <2>2. HeldApart'
    BY <2>1 DEF SchedInv, HeldApart
  <2>3. ASSUME NEW e \in Dispatchers, NEW s \in pass'[e].mine PROVE Due(s, pass[e].at)'
    <3>1. e # d /\ pass'[e] = pass[e] /\ s \in Schedules
      BY <1>0, <2>1, <2>3 DEF SchedTypes, SchedTypeOK
    <3>2. s \notin pass[d].mine
      BY <2>3, <3>1 DEF SchedInv, HeldApart
    <3>3. plan'[s] = plan[s]
      BY <1>5, <3>1, <3>2 DEF CommitPass
    <3> QED
      BY <2>3, <3>1, <3>3 DEF SchedInv, HeldDue, Due
  <2> QED
    BY <2>2, <2>3 DEF HeldDue
<1>6. ASSUME Administer PROVE HeldApart' /\ HeldDue'
  <2>1. UNCHANGED pass
    BY <1>6 DEF Administer, Activate, ReadActive, ReadRenewed, SaveEdit
  <2>2. \A s \in Held : plan'[s] = plan[s]
    BY <1>6, LockedRowsKept
  <2> QED
    BY <2>1, <2>2 DEF SchedInv, HeldApart, HeldDue, Due, Held
<1>7. CASE UNCHANGED schedVars
  BY <1>7 DEF SchedInv, schedVars, HeldApart, HeldDue, Due
<1> QED
  BY <1>1, <1>2, <1>3, <1>4, <1>5, <1>6, <1>7 DEF SchedNext, Dispatch

LEMMA SchedAlways == SchedSpec => []SchedInv
<1> QED
  BY SchedInvInit, SchedInvStep, PTL DEF SchedSpec

-----------------------------------------------------------------------------
(* Theorems *)

(* The variables keep their types.                                           *)
THEOREM SchedulerTypes == SchedSpec => []SchedTypeOK
<1>1. SchedInv => SchedTypeOK
  BY DEF SchedInv, SchedTypes
<1> QED
  BY <1>1, SchedAlways, PTL

(* A schedule that fires was due when the pass began, and is not due at that *)
(* moment any more, but in the second pass through a repeated hour           *)
(* (_process_recurring_schedules, compute_next_run).                         *)
THEOREM NextRunAhead == SchedSpec => FiringAdvances
<1>1. ASSUME SchedInv, [SchedNext]_schedVars
      PROVE  [\A s \in Schedules :
                fired'[s] # fired[s] =>
                  \E d \in Dispatchers :
                    /\ s \in pass[d].mine
                    /\ Due(s, pass[d].at)
                    /\ \/ ~ Due(s, pass[d].at)'
                       \/ Repeated(ZoneOf[s], pass[d].at)]_schedVars
  <2>1. ASSUME NEW s \in Schedules, fired'[s] # fired[s]
        PROVE  \E d \in Dispatchers :
                 /\ s \in pass[d].mine
                 /\ Due(s, pass[d].at)
                 /\ \/ ~ Due(s, pass[d].at)'
                    \/ Repeated(ZoneOf[s], pass[d].at)
    <3>1. PICK d \in Dispatchers : CommitPass(d)
      BY <1>1, <2>1 DEF SchedNext, Dispatch, Administer, Tick, BeginPass, ServeTenant,
                        RefuseTenant, LosePass, Activate, ReadActive,
                        ReadRenewed, SaveEdit, schedVars
    <3>2. s \in pass[d].mine /\ plan'[s] = Fire(s, pass[d].at)
      BY <2>1, <3>1 DEF CommitPass
    <3>3. pass[d].at \in Int /\ pass'[d].at = pass[d].at
      BY <1>1, <3>1 DEF SchedInv, SchedTypes, SchedTypeOK, CommitPass
    <3>4. Due(s, pass[d].at)
      BY <1>1, <3>2 DEF SchedInv, HeldDue
    <3>5. \/ Repeated(ZoneOf[s], pass[d].at)
          \/ ComputeNextRun(ZoneOf[s], CronOf[s], pass[d].at) > pass[d].at
      BY <3>3, NextRunIsAhead
    <3>6. ComputeNextRun(ZoneOf[s], CronOf[s], pass[d].at) \in Int
      BY <3>3, NextRunType
    <3>7. CASE IsExhausted(s, plan[s].count + 1)
      BY <3>2, <3>4, <3>7 DEF Fire, Due
    <3>8. CASE ~ IsExhausted(s, plan[s].count + 1)
      <4>1. plan'[s].next = ComputeNextRun(ZoneOf[s], CronOf[s], pass[d].at)
        BY <3>2, <3>8 DEF Fire
      <4>2. ~ Due(s, pass[d].at)' \/ Repeated(ZoneOf[s], pass[d].at)
        BY <3>3, <3>5, <3>6, <4>1 DEF Due
      <4> QED
        BY <3>2, <3>4, <4>2
    <3> QED
      BY <3>7, <3>8
  <2> QED
    BY <2>1
<1> QED
  BY <1>1, SchedAlways, PTL DEF SchedSpec, FiringAdvances

\* Outside a transaction no row is locked, no schedule fired and no target sent.
NothingDispatched ==
  ~ transacted =>
    /\ \A d \in Dispatchers : pass[d].mine = {} /\ pass[d].sent = {}
    /\ \A s \in Schedules : fired[s] = 0

LEMMA RefusedStep ==
  ASSUME SchedTypes, NothingDispatched, [SchedNext]_schedVars
  PROVE  NothingDispatched'
<1> DEFINE Bare == \A d \in Dispatchers : pass[d].mine = {} /\ pass[d].sent = {}
<1> SUFFICES ASSUME ~ transacted'
             PROVE  Bare' /\ \A s \in Schedules : fired'[s] = 0
  BY DEF NothingDispatched
<1>0. UNCHANGED transacted
  BY DEF SchedNext, schedVars, Tick, Dispatch, BeginPass, ServeTenant, RefuseTenant, CommitPass,
         LosePass, Administer, Activate, ReadActive, ReadRenewed, SaveEdit
<1>1. Bare /\ \A s \in Schedules : fired[s] = 0
  BY <1>0 DEF NothingDispatched
<1>2. \A d \in Dispatchers : ~ CommitPass(d) /\ \A t \in Tenants : ~ ServeTenant(d, t)
  BY <1>0 DEF ServeTenant, CommitPass
<1>3. UNCHANGED fired
  BY <1>2 DEF SchedNext, schedVars, Tick, Dispatch, BeginPass, RefuseTenant,
         LosePass, Administer, Activate, ReadActive, ReadRenewed, SaveEdit
<1>4. ASSUME NEW d \in Dispatchers, BeginPass(d) \/ LosePass(d) PROVE Bare'
  <2>1. ASSUME BeginPass(d)
        PROVE  pass' = [pass EXCEPT ![d] = [at |-> now, todo |-> OpenTenants,
                                            mine |-> {}, sent |-> {}]]
    BY <2>1 DEF BeginPass, Resting
  <2>2. ASSUME LosePass(d) PROVE pass' = [pass EXCEPT ![d] = Resting]
    BY <2>2 DEF LosePass
  <2> QED
    BY <1>1, <1>4, <2>1, <2>2 DEF SchedTypes, SchedTypeOK, Resting
<1>5. ASSUME NEW d \in Dispatchers, NEW t \in Tenants, RefuseTenant(d, t) PROVE Bare'
  BY <1>1, <1>5 DEF RefuseTenant, SchedTypes, SchedTypeOK
<1>6. ASSUME UNCHANGED pass PROVE Bare'
  BY <1>1, <1>6
<1>7. Bare'
  BY <1>2, <1>4, <1>5, <1>6 DEF SchedNext, schedVars, Tick, Dispatch,
     Administer, Activate, ReadActive, ReadRenewed, SaveEdit
<1> QED
  BY <1>1, <1>3, <1>7

(* As Celery runs the task, outside a transaction, no target is ever given   *)
(* to send_task and no schedule ever fires, whatever time, workers and       *)
(* administrators do (dispatch_due_posts, select_for_update).                *)
THEOREM NothingRunsUntransacted == SchedSpec => []NothingDispatched
<1>1. SchedInit => NothingDispatched
  BY DEF SchedInit, NothingDispatched, Resting
<1>2. SchedInv => SchedTypes
  BY DEF SchedInv
<1> QED
  BY <1>1, <1>2, RefusedStep, SchedAlways, PTL DEF SchedSpec

=============================================================================
