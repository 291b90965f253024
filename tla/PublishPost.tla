---------------------------- MODULE PublishPost ----------------------------
(***************************************************************************)
(* The delivery of scheduled posts: the dispatcher of apps/scheduler puts  *)
(* a publish_post message on the Celery queue for every due PostTarget;    *)
(* the workers of the "publish" queue run apps/publisher/tasks.py, which   *)
(* records every attempt as a PublishJob row, calls the platform, moves    *)
(* the PostTarget and recomputes the status of its Post.                   *)
(*                                                                         *)
(* The database is in autocommit mode: every statement of the task is a    *)
(* step of its own, and only the code inside transaction.atomic() holds a  *)
(* row lock.  A message is acknowledged when the task has ended, so a      *)
(* worker that dies gives its message back.                                *)
(***************************************************************************)
EXTENDS Integers, FiniteSets

CONSTANTS
  Targets,      \* the PostTarget rows
  Posts,        \* the Post rows
  PostOf,       \* PostTarget.post
  Workers,      \* greenlets of the "publish" workers
  MaxRetries,   \* max_retries of the task, 5 in the code
  Overlap,      \* may the dispatcher run while a message of the target is
                \* still queued or held? (a queue longer than one beat)
  QueueCap,     \* bound: copies of one message the dispatcher or the broker adds
  FaultKinds,   \* the faults that may happen: "error", "crash", "redelivery"
  MaxFaults,    \* bound: how many of them
  EditKinds,    \* what administrators and editors may do: "mark_as_failed",
                \* "reschedule", "delete"
  MaxEdits      \* bound: how many of these

Attempts == 0 .. MaxRetries
Messages == Targets \X Attempts      \* task id publish-<target>, retries

ASSUME ConstantsAssumption ==
  /\ PostOf \in [Targets -> Posts]
  /\ MaxRetries \in Nat
  /\ Overlap \in BOOLEAN
  /\ QueueCap \in Nat
  /\ FaultKinds \subseteq {"error", "crash", "redelivery"}
  /\ MaxFaults \in Nat
  /\ EditKinds \subseteq {"mark_as_failed", "reschedule", "delete"}
  /\ MaxEdits \in Nat

TargetStatus == {"DRAFT", "SCHEDULED", "PUBLISHING", "PUBLISHED", "FAILED", "GONE"}
JobStatus == {"NONE", "PENDING", "RUNNING", "SUCCESS", "FAILED"}
Active == {"PENDING", "RUNNING"}
Answer == {"none", "ok", "fail"}

\* Where a worker is in publish_post: the statement it executes next.
Label == {"idle", "fetch", "cleanup", "reset", "create", "markRunning",
          "setPublishing", "sync", "syncWrite", "call", "markSuccess",
          "markPublished", "markFailed", "markTarget", "retry", "onFailure", "ack"}
\* Before the platform is called, after it, or in PublisherTask.on_failure.
Phase == {"begin", "end", "handler"}

NoMessage == <<>>

VARIABLES
  target,       \* PostTarget.status, GONE once deleted
  post,         \* Post.status, GONE once deleted
  publishedAt,  \* Post.published_at is set
  job,          \* PublishJob.status by celery_task_id, NONE without a row
  queue,        \* copies of each message waiting in the broker
  answers,      \* what the platform answered to each attempt
  delivered,    \* how many posts the platform has accepted for a target
  pc, msg,      \* a worker's next statement, the message it holds
  seen,         \* the PostTarget.status a worker has in memory
  held,         \* the attempt whose PublishJob object a worker has in memory
  val,          \* the Post.status computed by a worker in sync_status
  phase,
  unsynced,     \* posts with a target changed and no sync_status since
  faults, edits \* what is spent of the two budgets

rows     == <<target, post, publishedAt, job>>
platform == <<answers, delivered>>
locals   == <<seen, held, val, phase>>
budgets  == <<faults, edits>>
vars == <<rows, queue, platform, pc, msg, locals, unsynced, budgets>>

-----------------------------------------------------------------------------
(* Helpers *)

TargetsOf(p) == {t \in Targets : PostOf[t] = p}
T(w) == msg[w][1]
P(w) == PostOf[T(w)]

\* The rows of target t with a given set of statuses (by attempt).
JobsIn(t, S) == {k \in Attempts : job[<<t, k>>] \in S}

\* What sync_status computes from the statuses of the targets of p.
Aggregate(p) ==
  LET S == {target[t] : t \in TargetsOf(p)}
  IN  IF      "PUBLISHING" \in S THEN "PUBLISHING"
      ELSE IF S = {"PUBLISHED"}  THEN "PUBLISHED"
      ELSE IF "FAILED" \in S     THEN "FAILED"
      ELSE IF "SCHEDULED" \in S  THEN "SCHEDULED"
      ELSE "DRAFT"

\* Mutant: sync_status without select_for_update().
NeverLocked(p) == FALSE

\* The row lock of select_for_update() is held from the read to the commit.
Locked(p) == \E w \in Workers : pc[w] = "syncWrite" /\ P(w) = p

\* A message of t is queued or held by a worker.
InFlight(t) == \/ \E k \in Attempts : queue[<<t, k>>] > 0
               \/ \E w \in Workers : pc[w] # "idle" /\ T(w) = t

Goto(w, l) == pc' = [pc EXCEPT ![w] = l]

\* An exception leaves the task: Celery calls on_failure; one raised inside
\* on_failure is swallowed.  The transaction of sync_status is rolled back.
Raise(w) ==
  /\ IF phase[w] = "handler"
       THEN Goto(w, "ack") /\ UNCHANGED phase
       ELSE Goto(w, "onFailure") /\ phase' = [phase EXCEPT ![w] = "handler"]
  /\ unsynced' = IF pc[w] \in {"sync", "syncWrite"} THEN unsynced \union {P(w)}
                                                   ELSE unsynced

-----------------------------------------------------------------------------
(* The scheduler and the broker *)

\* Targets are created as drafts; an administrator has made some of them
\* SCHEDULED, which leaves Post.status alone.
Init ==
  /\ target \in [Targets -> {"DRAFT", "SCHEDULED"}]
  /\ post = [p \in Posts |-> "DRAFT"]
  /\ publishedAt = [p \in Posts |-> FALSE]
  /\ job = [m \in Messages |-> "NONE"]
  /\ queue = [m \in Messages |-> 0]
  /\ answers = [m \in Messages |-> "none"]
  /\ delivered = [t \in Targets |-> 0]
  /\ pc = [w \in Workers |-> "idle"]
  /\ msg = [w \in Workers |-> NoMessage]
  /\ seen = [w \in Workers |-> "DRAFT"]
  /\ held = [w \in Workers |-> 0]
  /\ val = [w \in Workers |-> "DRAFT"]
  /\ phase = [w \in Workers |-> "begin"]
  /\ unsynced = {p \in Posts : \E t \in TargetsOf(p) : target[t] = "SCHEDULED"}
  /\ faults = 0
  /\ edits = 0

\* _dispatch_due_targets, for one due target.  Module Scheduler has the task
\* around it, which as deployed does not get there: nothing relies on it.
Dispatch(t) ==
  /\ target[t] = "SCHEDULED"
  /\ queue[<<t, 0>>] < QueueCap
  /\ Overlap \/ ~InFlight(t)
  /\ queue' = [queue EXCEPT ![<<t, 0>>] = @ + 1]
  /\ UNCHANGED <<rows, platform, pc, msg, locals, unsynced, budgets>>

Receive(w, m) ==
  /\ pc[w] = "idle"
  /\ queue[m] > 0
  /\ queue' = [queue EXCEPT ![m] = @ - 1]
  /\ msg' = [msg EXCEPT ![w] = m]
  /\ Goto(w, "fetch")
  /\ UNCHANGED <<rows, platform, locals, unsynced, budgets>>

\* The task has ended: acks_late acknowledges the message.
Ack(w) ==
  /\ pc[w] = "ack"
  /\ Goto(w, "idle")
  /\ msg' = [msg EXCEPT ![w] = NoMessage]
  /\ held' = [held EXCEPT ![w] = 0]
  /\ seen' = [seen EXCEPT ![w] = "DRAFT"]
  /\ val' = [val EXCEPT ![w] = "DRAFT"]
  /\ phase' = [phase EXCEPT ![w] = "begin"]
  /\ UNCHANGED <<rows, queue, platform, unsynced, budgets>>

-----------------------------------------------------------------------------
(* publish_post, statement by statement *)

\* 1. and 2.: fetch the target; leave if it is missing or published.
Fetch(w) ==
  /\ pc[w] = "fetch"
  /\ seen' = [seen EXCEPT ![w] = target[T(w)]]
  /\ Goto(w, IF target[T(w)] \in {"GONE", "PUBLISHED"} THEN "ack" ELSE "cleanup")
  /\ UNCHANGED <<rows, queue, platform, msg, held, val, phase, unsynced, budgets>>

\* 3.: every RUNNING job of the target is closed, whoever runs it.
Cleanup(w) ==
  /\ pc[w] = "cleanup"
  /\ LET closed == JobsIn(T(w), {"RUNNING"})
     IN  /\ job' = [m \in Messages |->
                      IF m[1] = T(w) /\ m[2] \in closed THEN "FAILED" ELSE job[m]]
         /\ Goto(w, IF closed # {} /\ seen[w] = "PUBLISHING" THEN "reset" ELSE "create")
  /\ UNCHANGED <<target, post, publishedAt, queue, platform, msg, locals, unsynced, budgets>>

\* The status in memory was PUBLISHING: save SCHEDULED.  No sync_status.
Reset(w) ==
  /\ pc[w] = "reset"
  /\ target[T(w)] # "GONE"
  /\ target' = [target EXCEPT ![T(w)] = "SCHEDULED"]
  /\ unsynced' = unsynced \union {P(w)}
  /\ Goto(w, "create")
  /\ UNCHANGED <<post, publishedAt, job, queue, platform, msg, locals, budgets>>

\* Mutant: celery_task_id is not unique.
InsertableTwice(m) == target[m[1]] # "GONE" /\ JobsIn(m[1], Active) = {}

\* 4.: insert the PENDING job, unless the database refuses it: the
\* celery_task_id exists, the target has an active job, or it was deleted.
Insertable(m) ==
  /\ target[m[1]] # "GONE"
  /\ job[m] = "NONE"
  /\ JobsIn(m[1], Active) = {}

Create(w) ==
  /\ pc[w] = "create"
  /\ \/ /\ Insertable(msg[w])
        /\ job' = [job EXCEPT ![msg[w]] = "PENDING"]
        /\ held' = [held EXCEPT ![w] = msg[w][2]]
        /\ Goto(w, "markRunning")
     \/ /\ ~Insertable(msg[w])
        /\ Goto(w, "ack")
        /\ UNCHANGED <<job, held>>
  /\ UNCHANGED <<target, post, publishedAt, queue, platform, msg, seen, val, phase,
                 unsynced, budgets>>

\* 5.: job.mark_running(), which one_active_job_per_target can refuse.
MarkRunning(w) ==
  /\ pc[w] = "markRunning"
  /\ target[T(w)] # "GONE"
  /\ \/ /\ JobsIn(T(w), Active) \ {held[w]} = {}
        /\ job' = [job EXCEPT ![<<T(w), held[w]>>] = "RUNNING"]
        /\ Goto(w, "setPublishing")
        /\ UNCHANGED <<phase, unsynced>>
     \/ /\ JobsIn(T(w), Active) \ {held[w]} # {}
        /\ Raise(w)
        /\ UNCHANGED job
  /\ UNCHANGED <<target, post, publishedAt, queue, platform, msg, seen, held, val, budgets>>

SetPublishing(w) ==
  /\ pc[w] = "setPublishing"
  /\ target[T(w)] # "GONE"
  /\ target' = [target EXCEPT ![T(w)] = "PUBLISHING"]
  /\ Goto(w, "sync")
  /\ UNCHANGED <<post, publishedAt, job, queue, platform, msg, locals, unsynced, budgets>>

\* Post.sync_status(): lock the Post row and read the targets ...
SyncRead(w) ==
  /\ pc[w] = "sync"
  /\ post[P(w)] # "GONE"
  /\ ~Locked(P(w))
  /\ val' = [val EXCEPT ![w] = Aggregate(P(w))]
  /\ unsynced' = unsynced \ {P(w)}
  /\ Goto(w, "syncWrite")
  /\ UNCHANGED <<rows, queue, platform, msg, seen, held, phase, budgets>>

\* Mutant: the publication date is dropped with the status.
SyncWriteClearing(w) ==
  /\ pc[w] = "syncWrite"
  /\ post' = [post EXCEPT ![P(w)] = val[w]]
  /\ publishedAt' = [publishedAt EXCEPT ![P(w)] = val[w] = "PUBLISHED"]
  /\ Goto(w, IF phase[w] = "begin" THEN "call" ELSE "ack")
  /\ UNCHANGED <<target, job, queue, platform, msg, locals, unsynced, budgets>>

\* ... then save the computed status, commit and go on.
SyncWrite(w) ==
  /\ pc[w] = "syncWrite"
  /\ post' = [post EXCEPT ![P(w)] = val[w]]
  /\ publishedAt' = [publishedAt EXCEPT ![P(w)] = @ \/ val[w] = "PUBLISHED"]
  /\ Goto(w, IF phase[w] = "begin" THEN "call" ELSE "ack")
  /\ UNCHANGED <<target, job, queue, platform, msg, locals, unsynced, budgets>>

\* Mutant: the result of the platform is not looked at.
CallPublishBlindly(w) ==
  /\ pc[w] = "call"
  /\ phase' = [phase EXCEPT ![w] = "end"]
  /\ answers' = [answers EXCEPT ![msg[w]] = "fail"]
  /\ Goto(w, "markSuccess")
  /\ UNCHANGED <<rows, queue, delivered, msg, seen, held, val, unsynced, budgets>>

\* 6.: publisher.publish(), which answers and never raises.
CallPublish(w) ==
  /\ pc[w] = "call"
  /\ phase' = [phase EXCEPT ![w] = "end"]
  /\ \/ /\ answers' = [answers EXCEPT ![msg[w]] = "ok"]
        /\ delivered' = [delivered EXCEPT ![T(w)] = @ + 1]
        /\ Goto(w, "markSuccess")
     \/ /\ answers' = [answers EXCEPT ![msg[w]] = "fail"]
        /\ Goto(w, "markFailed")
        /\ UNCHANGED delivered
  /\ UNCHANGED <<rows, queue, msg, seen, held, val, unsynced, budgets>>

\* 7.: PublishJob.mark_success(), then PostTarget.mark_published().
MarkSuccess(w) ==
  /\ pc[w] = "markSuccess"
  /\ target[T(w)] # "GONE"
  /\ job' = [job EXCEPT ![<<T(w), held[w]>>] = "SUCCESS"]
  /\ Goto(w, "markPublished")
  /\ UNCHANGED <<target, post, publishedAt, queue, platform, msg, locals, unsynced, budgets>>

MarkPublished(w) ==
  /\ pc[w] = "markPublished"
  /\ target[T(w)] # "GONE"
  /\ target' = [target EXCEPT ![T(w)] = "PUBLISHED"]
  /\ Goto(w, "sync")
  /\ UNCHANGED <<post, publishedAt, job, queue, platform, msg, locals, unsynced, budgets>>

\* Mutants: the last attempt comes one too early, one too late.
IsFinalEarly(w) == phase[w] = "handler" \/ msg[w][2] + 1 >= MaxRetries
IsFinalLate(w)  == phase[w] = "handler" \/ msg[w][2] > MaxRetries

\* PublishJob.mark_failed(): schedule_retry unless this is the last attempt
\* or the caller is on_failure.
IsFinal(w) == phase[w] = "handler" \/ msg[w][2] >= MaxRetries

MarkFailed(w) ==
  /\ pc[w] = "markFailed"
  /\ target[T(w)] # "GONE"
  /\ job' = [job EXCEPT ![<<T(w), held[w]>>] = "FAILED"]
  /\ Goto(w, IF IsFinal(w) THEN "markTarget" ELSE "retry")
  /\ UNCHANGED <<target, post, publishedAt, queue, platform, msg, locals, unsynced, budgets>>

\* Mutant: mark_failed() without sync_status().
MarkTargetFailedOnly(w) ==
  /\ pc[w] = "markTarget"
  /\ target[T(w)] # "GONE"
  /\ target' = [target EXCEPT ![T(w)] = "FAILED"]
  /\ Goto(w, "ack")
  /\ UNCHANGED <<post, publishedAt, job, queue, platform, msg, locals, unsynced, budgets>>

\* PostTarget.mark_failed().
MarkTargetFailed(w) ==
  /\ pc[w] = "markTarget"
  /\ target[T(w)] # "GONE"
  /\ target' = [target EXCEPT ![T(w)] = "FAILED"]
  /\ Goto(w, "sync")
  /\ UNCHANGED <<post, publishedAt, job, queue, platform, msg, locals, unsynced, budgets>>

\* raise RetryablePublishError: Celery sends the same task id, retries + 1.
SendRetry(w) ==
  /\ pc[w] = "retry"
  /\ queue' = [queue EXCEPT ![<<T(w), msg[w][2] + 1>>] = @ + 1]
  /\ Goto(w, "ack")
  /\ UNCHANGED <<rows, platform, msg, locals, unsynced, budgets>>

\* Mutant: every exception is retried, not only RetryablePublishError.
RetryOnFailure(w) ==
  /\ pc[w] = "onFailure"
  /\ IF msg[w][2] < MaxRetries
       THEN queue' = [queue EXCEPT ![<<T(w), msg[w][2] + 1>>] = @ + 1]
       ELSE UNCHANGED queue
  /\ Goto(w, "ack")
  /\ UNCHANGED <<rows, platform, msg, locals, unsynced, budgets>>

\* PublisherTask.on_failure: take the RUNNING job of the target, whoever
\* runs it, and mark it failed for good.
OnFailure(w) ==
  /\ pc[w] = "onFailure"
  /\ \/ \E k \in JobsIn(T(w), {"RUNNING"}) :
          /\ held' = [held EXCEPT ![w] = k]
          /\ Goto(w, "markFailed")
     \/ /\ JobsIn(T(w), {"RUNNING"}) = {}
        /\ Goto(w, "ack")
        /\ UNCHANGED held
  /\ UNCHANGED <<rows, queue, platform, msg, seen, val, phase, unsynced, budgets>>

\* A statement on a row that has been deleted: DoesNotExist, or the
\* DatabaseError of save(update_fields=...) that matched no row.
RowGone(w) ==
  /\ pc[w] \in {"reset", "markRunning", "setPublishing", "sync", "markSuccess",
                "markPublished", "markFailed", "markTarget"}
  /\ target[T(w)] = "GONE"
  /\ Raise(w)
  /\ UNCHANGED <<rows, queue, platform, msg, seen, held, val, budgets>>

-----------------------------------------------------------------------------
(* Faults and administrators *)

\* A database error or a time limit: any statement of the task may raise.
\* A retry that cannot be sent is rejected by Celery and lost.
Error(w) ==
  /\ pc[w] \notin {"idle", "ack"}
  /\ "error" \in FaultKinds
  /\ faults < MaxFaults
  /\ faults' = faults + 1
  /\ IF pc[w] = "retry" THEN Goto(w, "ack") /\ UNCHANGED <<phase, unsynced>>
                        ELSE Raise(w)
  /\ UNCHANGED <<rows, queue, platform, msg, seen, held, val, edits>>

\* The worker dies; reject_on_worker_lost gives the message back.
Crash(w) ==
  /\ pc[w] # "idle"
  /\ "crash" \in FaultKinds
  /\ faults < MaxFaults
  /\ faults' = faults + 1
  /\ queue' = [queue EXCEPT ![msg[w]] = @ + 1]
  /\ unsynced' = IF pc[w] \in {"sync", "syncWrite"} THEN unsynced \union {P(w)}
                                                   ELSE unsynced
  /\ Goto(w, "idle")
  /\ msg' = [msg EXCEPT ![w] = NoMessage]
  /\ held' = [held EXCEPT ![w] = 0]
  /\ seen' = [seen EXCEPT ![w] = "DRAFT"]
  /\ val' = [val EXCEPT ![w] = "DRAFT"]
  /\ phase' = [phase EXCEPT ![w] = "begin"]
  /\ UNCHANGED <<rows, platform, edits>>

\* At-least-once delivery: the broker hands out a held message again.
Redeliver(w) ==
  /\ pc[w] # "idle"
  /\ "redelivery" \in FaultKinds
  /\ faults < MaxFaults
  /\ queue[msg[w]] < QueueCap
  /\ faults' = faults + 1
  /\ queue' = [queue EXCEPT ![msg[w]] = @ + 1]
  /\ UNCHANGED <<rows, platform, pc, msg, locals, unsynced, edits>>

\* PublishJobAdmin.mark_as_failed on the jobs of one target.
AdminMarkFailed(t) ==
  /\ "mark_as_failed" \in EditKinds
  /\ edits < MaxEdits
  /\ JobsIn(t, Active) # {}
  /\ edits' = edits + 1
  /\ job' = [m \in Messages |->
               IF m[1] = t /\ job[m] \in Active THEN "FAILED" ELSE job[m]]
  /\ UNCHANGED <<target, post, publishedAt, queue, platform, pc, msg, locals, unsynced, faults>>

\* PostTargetAdmin: the status of a target is edited back to SCHEDULED.
AdminReschedule(t) ==
  /\ "reschedule" \in EditKinds
  /\ edits < MaxEdits
  /\ target[t] \in {"DRAFT", "FAILED", "PUBLISHING"}
  /\ edits' = edits + 1
  /\ target' = [target EXCEPT ![t] = "SCHEDULED"]
  /\ unsynced' = unsynced \union {PostOf[t]}
  /\ UNCHANGED <<post, publishedAt, job, queue, platform, pc, msg, locals, faults>>

\* PostViewSet.destroy: the cascade removes the targets and their jobs.
DeletePost(p) ==
  /\ "delete" \in EditKinds
  /\ edits < MaxEdits
  /\ post[p] # "GONE"
  /\ ~Locked(p)
  /\ edits' = edits + 1
  /\ post' = [post EXCEPT ![p] = "GONE"]
  /\ target' = [t \in Targets |-> IF PostOf[t] = p THEN "GONE" ELSE target[t]]
  /\ job' = [m \in Messages |-> IF PostOf[m[1]] = p THEN "NONE" ELSE job[m]]
  /\ UNCHANGED <<publishedAt, queue, platform, pc, msg, locals, unsynced, faults>>

-----------------------------------------------------------------------------

Step(w) ==
  \/ Fetch(w) \/ Cleanup(w) \/ Reset(w) \/ Create(w) \/ MarkRunning(w)
  \/ SetPublishing(w) \/ SyncRead(w) \/ SyncWrite(w) \/ CallPublish(w)
  \/ MarkSuccess(w) \/ MarkPublished(w) \/ MarkFailed(w) \/ MarkTargetFailed(w)
  \/ SendRetry(w) \/ OnFailure(w) \/ RowGone(w) \/ Ack(w)

Fault(w) == Error(w) \/ Crash(w) \/ Redeliver(w)

Next ==
  \/ \E t \in Targets : Dispatch(t) \/ AdminMarkFailed(t) \/ AdminReschedule(t)
  \/ \E p \in Posts : DeletePost(p)
  \/ \E w \in Workers : \/ \E m \in Messages : Receive(w, m)
                        \/ Step(w)
                        \/ Fault(w)

Spec == Init /\ [][Next]_vars

\* A worker of the queue takes each message in the end, the broker being first
\* in first out, and executes its task while it is alive.  Nothing is assumed
\* of the dispatcher, of faults and of edits.
Fairness ==
  /\ \A m \in Messages : SF_vars(\E w \in Workers : Receive(w, m))
  /\ \A w \in Workers : WF_vars(Step(w))

FairSpec == Spec /\ Fairness

-----------------------------------------------------------------------------
(* Properties *)

\* The rows, the queue and the memory of the workers keep their types; a
\* worker that is not idle holds a message.
TypeOK ==
  /\ target \in [Targets -> TargetStatus]
  /\ post \in [Posts -> TargetStatus]
  /\ publishedAt \in [Posts -> BOOLEAN]
  /\ job \in [Messages -> JobStatus]
  /\ queue \in [Messages -> Nat]
  /\ answers \in [Messages -> Answer]
  /\ delivered \in [Targets -> Nat]
  /\ pc \in [Workers -> Label]
  /\ msg \in [Workers -> Messages \union {NoMessage}]
  /\ \A w \in Workers : pc[w] # "idle" => msg[w] \in Messages
  /\ seen \in [Workers -> TargetStatus]
  /\ held \in [Workers -> Attempts]
  /\ val \in [Workers -> TargetStatus]
  /\ phase \in [Workers -> Phase]
  /\ unsynced \in SUBSET Posts
  /\ faults \in Nat
  /\ edits \in Nat

\* However often a message is dispatched again, redelivered or retried, and
\* whoever dies, the platform accepts a target at most once.
AtMostOneDelivery == \A t \in Targets : delivered[t] <= 1

\* No two workers are between the insertion of their job and the answer of
\* the platform for the same target, although orphan cleanup closes the
\* RUNNING job that should exclude the second one.
Claiming(w) == /\ pc[w] \in {"markRunning", "setPublishing", "sync", "syncWrite", "call"}
               /\ phase[w] = "begin"

ExclusiveCall ==
  \A v, w \in Workers : Claiming(v) /\ Claiming(w) /\ T(v) = T(w) => v = w

\* A target shown as published, a successful job and a post with a
\* publication date were really accepted by the platform.
PublishedMeansDelivered ==
  /\ \A t \in Targets : target[t] = "PUBLISHED" => delivered[t] = 1
  /\ \A m \in Messages : job[m] = "SUCCESS" => delivered[m[1]] = 1
  /\ \A p \in Posts : publishedAt[p] => \A t \in TargetsOf(p) : delivered[t] = 1

\* Post.status is the aggregate of its targets, unless some worker is still
\* to synchronise it or a change was never followed by sync_status.
Syncing(p) == \E w \in Workers : pc[w] \in {"sync", "syncWrite"} /\ P(w) = p

PostStatusCurrent ==
  \A p \in Posts : \/ post[p] \in {Aggregate(p), "GONE"}
                   \/ Syncing(p)
                   \/ p \in unsynced

\* Without faults and edits, a target is given up only when the platform has
\* refused all the attempts the retry budget allows.
GiveUpOnlyAfterBudget ==
  \A t \in Targets :
    faults = 0 /\ edits = 0 /\ target[t] = "FAILED"
      => \A k \in Attempts : answers[<<t, k>>] = "fail"

\* A worker that inserted the job of its attempt and has not dealt with the
\* answer yet.
Attempting(w) ==
  \/ Claiming(w)
  \/ /\ pc[w] \in {"markSuccess", "markPublished", "markFailed", "markTarget", "retry"}
     /\ phase[w] = "end"

\* An attempt of t is being made, or is still to be made: its message waits or
\* was taken, and has no job yet.
InHand(t) ==
  \/ \E k \in Attempts : queue[<<t, k>>] > 0 /\ job[<<t, k>>] = "NONE"
  \/ \E w \in Workers : /\ pc[w] \in {"fetch", "cleanup", "reset", "create"}
                        /\ T(w) = t /\ job[msg[w]] = "NONE"
  \/ \E w \in Workers : Attempting(w) /\ T(w) = t

\* Only a fault can leave a target PUBLISHING with nobody to bring it to an
\* end: neither messages sent twice, nor orphan cleanup, nor administrators do.
NotAbandoned ==
  faults = 0 => \A t \in Targets : target[t] = "PUBLISHING" => InHand(t)

\* The first attempt of t was made, and no other is being made or can be: every
\* message of t, waiting or held, is of an attempt whose job exists.
Over(t) ==
  /\ job[<<t, 0>>] # "NONE"
  /\ \A k \in Attempts :
       job[<<t, k>>] = "NONE" =>
         queue[<<t, k>>] = 0 /\ \A w \in Workers : msg[w] # <<t, k>>
  /\ ~ \E w \in Workers : Attempting(w) /\ T(w) = t

\* Then the target stays so, whatever fails and whoever makes it SCHEDULED
\* again: each message sent for it is turned away, because its task id exists.
\* It is neither posted again nor, if it was not, shown as published.
OverForGood ==
  [][\A t \in Targets : Over(t) /\ target'[t] # "GONE" =>
       /\ Over(t)'
       /\ delivered'[t] = delivered[t]
       /\ target'[t] = "PUBLISHED" => target[t] = "PUBLISHED"]_vars

\* The publisher implements the abstract promise of module Delivery.
Promise == INSTANCE Delivery
  WITH Items <- Targets, Groups <- Posts, GroupOf <- PostOf,
       sent <- delivered,
       shown <- {t \in Targets : target[t] = "PUBLISHED"},
       dated <- {p \in Posts : publishedAt[p]}

DeliversAsPromised == Promise!DSpec

\* A target whose attempt waits or is being made is published or given up: no
\* retry, duplicate, orphan cleanup, mark_as_failed or deletion loses it.  It
\* takes a fault to leave it unresolved.
Resolved ==
  \A t \in Targets :
    InHand(t) ~> target[t] \in {"PUBLISHED", "FAILED", "GONE"} \/ faults > 0

\* Once an attempt was made for a post, Post.status agrees with the targets in
\* the end and stays so, whichever of their workers synchronises last.
PostSettles ==
  \A p \in Posts :
    (\E t \in TargetsOf(p) : job[<<t, 0>>] # "NONE")
      ~> [](post[p] \in {Aggregate(p), "GONE"} \/ faults > 0)

-----------------------------------------------------------------------------
(* The inductive invariant behind AtMostOneDelivery, ExclusiveCall and
   PublishedMeansDelivered.  A celery_task_id is inserted once, so its owner
   is the only worker that can call the platform for that attempt; a retry
   exists only after the platform refused every earlier attempt. *)

\* Every attempt before m was refused by the platform.
Refused(m) == \A k \in Attempts : k < m[2] => answers[<<m[1], k>>] = "fail"

\* The row of m exists, or went away with its post.
Recorded(m) == job[m] # "NONE" \/ target[m[1]] = "GONE"

PhaseInv ==
  \A w \in Workers :
    /\ pc[w] \in {"idle", "fetch", "cleanup", "reset", "create", "markRunning",
                  "setPublishing", "call"} => phase[w] = "begin"
    /\ pc[w] \in {"markSuccess", "markPublished", "retry"} => phase[w] = "end"
    /\ pc[w] \in {"markFailed", "markTarget"} => phase[w] \in {"end", "handler"}
    /\ pc[w] = "onFailure" => phase[w] = "handler"

ClaimInv ==
  /\ \A w \in Workers : Claiming(w) => Recorded(msg[w]) /\ answers[msg[w]] = "none"
  /\ \A v, w \in Workers : Claiming(v) /\ Claiming(w) /\ msg[v] = msg[w] => v = w

RefusedInv ==
  /\ \A m \in Messages : queue[m] > 0 => Refused(m)
  /\ \A w \in Workers : pc[w] # "idle" => Refused(msg[w])
  /\ \A m \in Messages : answers[m] # "none" => Recorded(m) /\ Refused(m)
  /\ \A w \in Workers :
       pc[w] \in {"markFailed", "retry"} /\ phase[w] = "end" => answers[msg[w]] = "fail"

CountInv ==
  \A t \in Targets :
    /\ delivered[t] \in {0, 1}
    /\ delivered[t] = 1 <=> \E k \in Attempts : answers[<<t, k>>] = "ok"

TruthInv ==
  /\ PublishedMeansDelivered
  /\ \A w \in Workers :
       /\ pc[w] \in {"markSuccess", "markPublished"} => delivered[T(w)] = 1
       /\ pc[w] = "syncWrite" /\ val[w] = "PUBLISHED"
            => \A t \in TargetsOf(P(w)) : delivered[t] = 1

DeliveryInv == TypeOK /\ PhaseInv /\ ClaimInv /\ RefusedInv /\ CountInv /\ TruthInv

(* The inductive invariant behind PostStatusCurrent: the row lock admits one
   sync_status at a time, and what it is about to write is current or some
   other worker is still to synchronise the post. *)

AtWrite(w, p) == pc[w] = "syncWrite" /\ P(w) = p
SyncPending(p) == p \in unsynced \/ \E v \in Workers : pc[v] = "sync" /\ P(v) = p

SyncInvOf(p) ==
  /\ \A v, w \in Workers : AtWrite(v, p) /\ AtWrite(w, p) => v = w
  /\ \A w \in Workers : AtWrite(w, p) => val[w] = Aggregate(p) \/ SyncPending(p)
  /\ \/ post[p] \in {Aggregate(p), "GONE"}
     \/ SyncPending(p)
     \/ \E w \in Workers : AtWrite(w, p)

SyncInv == \A p \in Posts : SyncInvOf(p)

(* The inductive invariant behind GiveUpOnlyAfterBudget.  As long as nothing
   fails and nobody interferes, a worker keeps the job object it inserted, no
   statement raises, and only the last refusal gives the target up. *)

Calm == faults = 0 /\ edits = 0

NobodyRaised == \A w \in Workers : phase[w] # "handler"

OneActiveJob ==
  \A t \in Targets : /\ target[t] # "GONE"
                    /\ \A j, k \in JobsIn(t, Active) : j = k

OwnJobHeld ==
  \A w \in Workers :
    /\ pc[w] = "markRunning" => job[msg[w]] = "PENDING"
    /\ Claiming(w) \/ pc[w] = "markSuccess" => held[w] = msg[w][2]
    /\ pc[w] = "markSuccess" => answers[msg[w]] = "ok"
    /\ pc[w] = "markFailed" => held[w] = msg[w][2] /\ answers[msg[w]] = "fail"

LastRefusal ==
  /\ \A w \in Workers :
       pc[w] = "markTarget" => msg[w][2] >= MaxRetries /\ answers[msg[w]] = "fail"
  /\ \A t \in Targets :
       target[t] = "FAILED" => \A k \in Attempts : answers[<<t, k>>] = "fail"

UndisturbedInv == NobodyRaised /\ OneActiveJob /\ OwnJobHeld /\ LastRefusal

BudgetInv == DeliveryInv /\ (Calm => UndisturbedInv)

(* The inductive invariant behind NotAbandoned.  As long as nothing fails, the
   attempts of a target that is still there follow one another: the message of
   an attempt exists only when all the earlier ones are over. *)

\* The message of an attempt waits, or a worker has it, or its job is there.
Known(m) == queue[m] > 0 \/ job[m] # "NONE" \/ \E w \in Workers : msg[w] = m

OneAfterAnother ==
  /\ \A t \in Targets : \A j, k \in Attempts :
       target[t] # "GONE" /\ j < k /\ Known(<<t, k>>)
         => job[<<t, j>>] # "NONE" /\ ~ \E w \in Workers : Attempting(w) /\ msg[w] = <<t, j>>
  /\ \A v, w \in Workers : Attempting(v) /\ Attempting(w) /\ msg[v] = msg[w] => v = w

OwnAttempt ==
  \A w \in Workers :
    /\ Attempting(w) => held[w] = msg[w][2]
    /\ pc[w] = "retry" => msg[w][2] < MaxRetries
    /\ pc[w] # "idle" /\ target[T(w)] # "GONE" =>
         /\ phase[w] # "handler"
         /\ Attempting(w) => job[msg[w]] # "NONE"
         /\ pc[w] \in {"markPublished", "markTarget", "retry"} => job[msg[w]] \notin Active

ActiveJobOwned ==
  \A m \in Messages :
    job[m] \in Active /\ target[m[1]] # "GONE"
      => \E w \in Workers : Attempting(w) /\ msg[w] = m

FaultlessInv == OneAfterAnother /\ OwnAttempt /\ ActiveJobOwned /\ NotAbandoned

HandInv == DeliveryInv /\ (faults = 0 => FaultlessInv)

-----------------------------------------------------------------------------
(* What comments of the code say, and the code does not do *)

\* tasks.py:94-96: a RUNNING job left by a worker that crashed is closed "so
\* the unique constraint doesn't block this attempt": the target whose job
\* was orphaned is published or given up in the end.  It is not, not even if
\* the dispatcher goes on sending a message for every target that is due.
Orphaned(t) ==
  /\ JobsIn(t, {"RUNNING"}) # {}
  /\ ~\E w \in Workers : pc[w] # "idle" /\ T(w) = t

CrashedAttemptIsRedone ==
  (\A t \in Targets : WF_vars(Dispatch(t))) =>
    \A t \in Targets :
      Orphaned(t) ~> target[t] \in {"PUBLISHED", "FAILED", "GONE"}

\* tasks.py:116: the status goes back to SCHEDULED only on a target that is
\* stuck in PUBLISHING, never on one that is published.
ResetOnlyIfStuck ==
  [][\A w \in Workers : (pc[w] = "reset" /\ target[T(w)] = "PUBLISHED")
       => target'[T(w)] = "PUBLISHED"]_vars

=============================================================================
