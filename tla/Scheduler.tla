------------------------------ MODULE Scheduler ------------------------------
(***************************************************************************)
(* apps/scheduler: the periodic task dispatch_due_posts, which fires the   *)
(* recurring schedules of every active organization and sends a publish    *)
(* task for each target that is due, and the actions administrators take   *)
(* on schedules.  Time advances by the interval of the beat (five minutes).*)
(*                                                                         *)
(* The task locks the rows it fires with select_for_update, which Django   *)
(* refuses outside a transaction, and opens no transaction itself.         *)
(* `transacted` tells whether whoever calls it has opened one around it:   *)
(* a Celery worker has not; a test under pytest-django's database fixture  *)
(* would.                                                                  *)
(***************************************************************************)
EXTENDS ZoneClock, FiniteSets

CONSTANTS
  Schedules,             \* RecurringSchedule rows
  Targets,               \* PostTarget rows that are SCHEDULED, and stay so here:
                         \* what a publish task makes of one is in PublishPost
  Tenants,               \* organizations
  OpenTenants,           \* those with is_active
  TenantOf,              \* the organization of a schedule or target
  ZoneOf, CronOf,        \* of a schedule
  MaxRuns, EndAt,        \* stop conditions of a schedule, None if not set
  PostAt,                \* Post.scheduled_at of a target, 0 for any moment past
  Dispatchers,           \* executions of the task that may overlap
  Transacted,            \* the values `transacted` may have
  Horizon,               \* bound: the last moment
  MaxCrashes,            \* bound: dispatchers lost
  MaxEdits,              \* bound: actions of administrators
  None

ASSUME SchedulerAssumption ==
  /\ OpenTenants \subseteq Tenants
  /\ TenantOf \in [Schedules \union Targets -> Tenants]
  /\ ZoneOf \in [Schedules -> Zone]
  /\ CronOf \in [Schedules -> Cron]
  /\ \A s \in Schedules : MaxRuns[s] = None \/ MaxRuns[s] \in Nat
  /\ \A s \in Schedules : EndAt[s] = None \/ EndAt[s] \in Int
  /\ PostAt \in [Targets -> Nat]
  /\ Transacted \subseteq BOOLEAN
  /\ Horizon \in Nat /\ MaxCrashes \in Nat /\ MaxEdits \in Nat
  /\ None \notin Int /\ None \notin Schedules

VARIABLES
  transacted,  \* see above
  now,         \* timezone.now()
  plan,        \* a schedule: active, next_run_at, run_count
  fired,       \* how often a schedule fired
  pass,        \* a dispatcher: its `now`, the tenants to do, the rows it locked,
               \* the targets it gave to send_task
  edit,        \* the action an administrator is carrying out
  edits, crashes

schedVars == <<transacted, now, plan, fired, pass, edit, edits, crashes>>

Resting == [at |-> -1, todo |-> {}, mine |-> {}, sent |-> {}]

NoEdit == [op |-> "none", of |-> None]

Due(s, t) ==
  /\ plan[s].active
  /\ plan[s].next # None
  /\ plan[s].next <= t

Held == UNION {pass[d].mine : d \in Dispatchers}

Running(d) == pass[d].todo # {} \/ pass[d].mine # {}

SchedInit ==
  /\ transacted \in Transacted
  /\ now = 0
  /\ plan = [s \in Schedules |-> [active |-> TRUE, next |-> None, count |-> 0]]
  /\ fired = [s \in Schedules |-> 0]
  /\ pass = [d \in Dispatchers |-> Resting]
  /\ edit = NoEdit
  /\ edits = 0
  /\ crashes = 0

Tick ==
  /\ now < Horizon
  /\ now' = now + 1
  /\ UNCHANGED <<transacted, plan, fired, pass, edit, edits, crashes>>

-----------------------------------------------------------------------------
(* The task *)

\* dispatch_due_posts starts, once in an interval of the beat.
BeginPass(d) ==
  /\ ~ Running(d)
  /\ pass[d].at < now
  /\ pass' = [pass EXCEPT ![d] =
                 [at |-> now, todo |-> OpenTenants, mine |-> {}, sent |-> {}]]
  /\ UNCHANGED <<transacted, now, plan, fired, edit, edits, crashes>>

DueSchedules(t, at) == {s \in Schedules : TenantOf[s] = t /\ Due(s, at)}

DueTargets(t, at) == {x \in Targets : TenantOf[x] = t /\ PostAt[x] <= at}

\* One organization: lock what is due and free (skip_locked), then give every
\* due target to send_task; a refusal of the broker is logged, the loop goes on.
\* What is done to the locked rows shows when the caller's transaction commits.
ServeTenant(d, t) ==
  /\ transacted
  /\ t \in pass[d].todo
  /\ pass' = [pass EXCEPT ![d].todo = @ \ {t},
                          ![d].mine = @ \union (DueSchedules(t, pass[d].at) \ Held),
                          ![d].sent = @ \union DueTargets(t, pass[d].at)]
  /\ UNCHANGED <<transacted, now, plan, fired, edit, edits, crashes>>

\* Without a transaction evaluating the query raises TransactionManagementError:
\* the handler of the loop logs it and goes on to the next organization.
RefuseTenant(d, t) ==
  /\ ~ transacted
  /\ t \in pass[d].todo
  /\ pass' = [pass EXCEPT ![d].todo = @ \ {t}]
  /\ UNCHANGED <<transacted, now, plan, fired, edit, edits, crashes>>

IsExhausted(s, count) ==
  \/ EndAt[s] # None /\ now >= EndAt[s]
  \/ MaxRuns[s] # None /\ count >= MaxRuns[s]

\* Mutant: the next run is computed from the due time.
FireFromDue(s, at) ==
  IF IsExhausted(s, plan[s].count + 1)
  THEN [active |-> FALSE, next |-> None, count |-> plan[s].count]
  ELSE [active |-> TRUE,
        next |-> ComputeNextRun(ZoneOf[s], CronOf[s], plan[s].next),
        count |-> plan[s].count + 1]

\* The row of a schedule that fired.  deactivate() does not save run_count.
Fire(s, at) ==
  IF IsExhausted(s, plan[s].count + 1)
  THEN [active |-> FALSE, next |-> None, count |-> plan[s].count]
  ELSE [active |-> TRUE,
        next |-> ComputeNextRun(ZoneOf[s], CronOf[s], at),
        count |-> plan[s].count + 1]

\* The last organization is done and the caller commits: the rows the pass
\* locked and fired are written.  No caller in a deployment has a transaction
\* to commit, and no pass there ever gets here.
CommitPass(d) ==
  /\ transacted
  /\ pass[d].todo = {}
  /\ pass[d].mine # {}
  /\ plan' = [s \in Schedules |->
                IF s \in pass[d].mine THEN Fire(s, pass[d].at) ELSE plan[s]]
  /\ fired' = [s \in Schedules |->
                 IF s \in pass[d].mine THEN fired[s] + 1 ELSE fired[s]]
  /\ pass' = [pass EXCEPT ![d].mine = {}]
  /\ UNCHANGED <<transacted, now, edit, edits, crashes>>

\* The worker is lost: the transaction is rolled back, and the message comes
\* back (acks_late, reject_on_worker_lost).
LosePass(d) ==
  /\ Running(d)
  /\ crashes < MaxCrashes
  /\ crashes' = crashes + 1
  /\ pass' = [pass EXCEPT ![d] = Resting]
  /\ UNCHANGED <<transacted, now, plan, fired, edit, edits>>

-----------------------------------------------------------------------------
(* The actions of the admin site, on rows no dispatcher has locked *)

\* activate_schedules, its UPDATE: rows that are active already are left alone.
Activate(s) ==
  /\ edit = NoEdit
  /\ edits < MaxEdits
  /\ plan[s].active \/ s \notin Held
  /\ plan' = [plan EXCEPT ![s].active = TRUE]
  /\ edit' = [op |-> "renew", of |-> s]
  /\ edits' = edits + 1
  /\ UNCHANGED <<transacted, now, fired, pass, crashes>>

\* Its query for active rows without a next run.
ReadRenewed ==
  /\ edit.op = "renew"
  /\ LET r == plan[edit.of]
     IN  edit' = IF r.active /\ r.next = None
                 THEN [op |-> "refresh", of |-> edit.of] ELSE NoEdit
  /\ UNCHANGED <<transacted, now, plan, fired, pass, edits, crashes>>

\* refresh_next_run and deactivate_schedules read the rows that are active.
ReadActive(op, s) ==
  /\ edit = NoEdit
  /\ edits < MaxEdits
  /\ plan[s].active
  /\ edit' = [op |-> op, of |-> s]
  /\ edits' = edits + 1
  /\ UNCHANGED <<transacted, now, plan, fired, pass, crashes>>

\* refresh_next_run() and deactivate() of the model, saved over what is there.
SaveEdit ==
  /\ edit.op \in {"refresh", "deactivate"}
  /\ edit.of \notin Held
  /\ plan' = [plan EXCEPT ![edit.of] =
                IF edit.op = "refresh"
                THEN [@ EXCEPT !.next = ComputeNextRun(ZoneOf[edit.of],
                                                       CronOf[edit.of], now)]
                ELSE [@ EXCEPT !.active = FALSE, !.next = None]]
  /\ edit' = NoEdit
  /\ UNCHANGED <<transacted, now, fired, pass, edits, crashes>>

-----------------------------------------------------------------------------
(* Specification *)

Dispatch(d) ==
  \/ BeginPass(d)
  \/ \E t \in Tenants : ServeTenant(d, t) \/ RefuseTenant(d, t)
  \/ CommitPass(d)

Administer ==
  \/ \E s \in Schedules :
       Activate(s) \/ (\E op \in {"refresh", "deactivate"} : ReadActive(op, s))
  \/ ReadRenewed
  \/ SaveEdit

SchedNext ==
  \/ Tick
  \/ \E d \in Dispatchers : Dispatch(d) \/ LosePass(d)
  \/ Administer

SchedSpec == SchedInit /\ [][SchedNext]_schedVars

-----------------------------------------------------------------------------
(* Properties *)

Row == [active : BOOLEAN, next : Int \union {None}, count : Nat]

SchedTypeOK ==
  /\ transacted \in BOOLEAN
  /\ now \in 0 .. Horizon
  /\ plan \in [Schedules -> Row]
  /\ fired \in [Schedules -> Nat]
  /\ pass \in [Dispatchers -> [at : Int, todo : SUBSET Tenants,
                               mine : SUBSET Schedules, sent : SUBSET Targets]]
  /\ edit \in [op : {"none", "renew", "refresh", "deactivate"},
               of : Schedules \union {None}]

(* A schedule that fires is due when the pass began, whatever other passes   *)
(* and administrators did to it meanwhile, and is next due after that moment *)
(* or stopped: a slot does not fire twice.  The exception is the second pass *)
(* through a repeated hour: then the schedule is due again at once, and      *)
(* fires in every pass until the hour is over (compute_next_run attaches the *)
(* zone with fold 0).                                                        *)
FiringAdvances ==
  [][\A s \in Schedules :
       fired'[s] # fired[s] =>
         \E d \in Dispatchers :
           /\ s \in pass[d].mine
           /\ Due(s, pass[d].at)
           /\ \/ ~ Due(s, pass[d].at)'
              \/ Repeated(ZoneOf[s], pass[d].at)]_schedVars

-----------------------------------------------------------------------------
(* What the documentation says, and the code does not do *)

(* The docstring of dispatch_due_posts, tasks.py:24-25: "Enqueue a           *)
(* publish_post task for every PostTarget that is SCHEDULED and whose parent *)
(* Post.scheduled_at is in the past."                                        *)
DueTargetsSent ==
  \A d \in Dispatchers :
    ~ Running(d) =>
      \A t \in OpenTenants : DueTargets(t, pass[d].at) \subseteq pass[d].sent

=============================================================================
