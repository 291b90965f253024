# Nexus Social: specifications, model checks and proofs

Nexus Social is a multi-tenant Django application that publishes posts to
social platforms. Organizations are tenants, each with a PostgreSQL schema of
its own; web requests are served by Django REST views, background work by
Celery workers on named queues, fed by a beat process. This directory holds TLA+
models of the code under `src/`, the TLC runs that check them and TLAPS proofs.

## 1. Inventory

| component | state it keeps | operations | talks to | what makes it correct |
|---|---|---|---|---|
| publisher (`apps/publisher`) | `PublishJob` rows: status, attempt, `celery_task_id` | task `publish_post`, `PublisherTask.on_failure`, `mark_running/success/failed`, admin `mark_as_failed` | posts (saves targets), platform (`publish()`), broker (retry) | a target is accepted at most once; what the rows show happened; a target is given up after the whole budget; an interrupted attempt is redone |
| posts (`apps/posts`) | `Post.status`, `published_at`; `PostTarget.status` | `sync_status`, `mark_published`, `mark_failed`, REST create/update/delete, admin edit | called by publisher; read by scheduler | `Post.status` is the aggregate of its targets |
| scheduler (`apps/scheduler`) | `RecurringSchedule`: `is_active`, `next_run_at`, `run_count` | beat task `dispatch_due_posts`, `refresh_next_run`, `deactivate`, admin actions | reads targets, sends `publish_post` messages | every due target is dispatched; a schedule that fires moves on |
| Celery configuration (`socialos`) | the queues (outside) | `acks_late`, `reject_on_worker_lost`, time limits, beat | all tasks | messages are delivered at least once |
| organizations (`apps/organizations`) | members and roles, join requests, invitations, tenants and domains | invite, join, request, approve, reject, cancel, change role, remove, create | auth_core (e-mail) | an organization keeps an owner; a request is decided once; one invitation per address is valid |
| auth_core (`apps/auth_core`) | users, reset and verification tokens, JWT blacklist, throttling counters | sign-up, login, reset, verify, resend, delete account | organizations | a token works once; deleting an account leaves no organization without an owner |
| audit (`apps/audit`) | `AuditLog` rows, append-only | middleware, task with retries | all apps | an entry is not forgotten, is written once, and names its author |
| notifications, inbox | channels and their groups, in Redis | `notify_user`, connect, disconnect, handlers | Redis channel layer | an open stream is sent its own user's events and misses none the layer did not lose; no event ends a consumer |
| utils, api | none | time zone conversion, encryption, pagination, versions | all | pure functions |
| ai_engine, analytics, automation, content, social_accounts | none | none | none | empty applications |

Where the behaviour is hard:

* **Delivery.** A message may be delivered twice (late acknowledgement, and the
  dispatcher repeats it every five minutes while the target is `SCHEDULED`),
  workers die, and every save of the task is a transaction of its own. The
  exclusion between workers rests on two unique constraints of `publish_jobs`.
* **Post status.** Several targets of a post finish at once, each recomputing it.
* **Read, check, save.** The views of organizations and auth_core read a row,
  test it, and save it later, in autocommit mode and mostly without a lock.
* **Two tests for one thing.** Addresses and names are compared without regard to
  case by queries and letter by letter by unique columns; slugs and schema names
  are chosen from committed rows, while other transactions are open.
* **Frozen authority.** Organization and role are copied into a token at login and
  from token to token at each refresh, so that an old role outlives the access token.
* **Answers that do not come.** An INSERT that commits and loses its answer looks to
  the audit task like one that failed; the channel layer drops, expires and raises.
* **Wall clocks.** A schedule's next run is computed in local time, around changes
  of the clocks.
* **Silence.** Nothing times out a row: a target left in `PUBLISHING` is looked
  at by nobody.

`PROJECT.json` lists every hazard at its line, with the properties that cover it.

## 2. Plan

Modules, most important first.

1. `PublishPost` - publisher, posts, the dispatcher of due targets and the
   broker. **Done**: checked, and its safety properties proved.
2. `Delivery` - the abstract promise of 1, and the refinement. **Done**, proved.
3. `Membership` - roles, removal and deletion of accounts: an organization
   keeps an owner. **Done**, proved.
4. `Onboarding` - join requests and invitations, the ways a user enters: one
   request is pending, an approved one has its member, an invitation replaces the
   earlier ones. Its insertion of a member is the action `Enter` of 3, over the
   same rows. **Done**, proved. `Organization` puts 3 and 4 side by side for one run.
5. `Scheduler`, over `ZoneClock` - recurring schedules and the loop over tenants
   around the dispatcher of 1, as Celery runs it and inside the transaction its row
   locks ask for. **Done**, proved.
6. `Accounts` - verification and reset links, signing up, deletion of an account;
   `Sessions` - login, refresh, logout and what a token allows. **Done**, proved.
7. `Tenants` - creation of organizations: names, slugs, schema names and owners.
   **Done**, proved.
8. `Realtime` - sockets and events, **done**, proved; `AuditTrail` - the entries of
   the audit log, **done**, proved.
9. `Backend` - 5 to 8 side by side, so that one run checks them and one theorem
   says what holds of all. **Done**, proved.

What could follow: the creation and update of posts with `scheduled_at`, feeding 1
and 5 from one state; an admin form saved over a later status; throttling.

## 3. Module PublishPost

One worker executes `publish_post` (`src/apps/publisher/tasks.py`) statement by
statement; `pc[w]` names the statement it executes next. Outside
`transaction.atomic()` the database is in autocommit mode, so other workers, the
dispatcher and administrators act between any two statements.

| variable | code |
|---|---|
| `target`, `post`, `publishedAt` | `PostTarget.status`, `Post.status`, `Post.published_at is not None`; `GONE` after deletion |
| `job[<<t, k>>]` | status of the `PublishJob` with `celery_task_id = publish-<t>-<k>` |
| `queue[<<t, k>>]` | copies of the message of target `t` with `retries = k` in the broker |
| `answers`, `delivered` | what the platform answered to each attempt, and the posts it accepted |
| `seen`, `held`, `val`, `phase` | the worker's memory: the status it read, the job object it has, the status it computed, and whether it is before the platform call, after it or in `on_failure` |
| `unsynced` | posts whose targets were changed by a statement that no `sync_status` follows (`Reset`, an administrator, an exception before the synchronisation) |

| action | code |
|---|---|
| `Dispatch` | `_dispatch_due_targets`, for one due target; it may happen or not |
| `Receive`, `Ack` | delivery by the broker; acknowledgement after the task |
| `Fetch` | steps 1 and 2: read the target, leave if missing or published |
| `Cleanup`, `Reset` | step 3: close `RUNNING` jobs, reset a target read as `PUBLISHING` |
| `Create` | step 4: insert the job, or leave on `IntegrityError` |
| `MarkRunning`, `SetPublishing` | step 5 |
| `SyncRead`, `SyncWrite` | `Post.sync_status`, with its row lock between the two |
| `CallPublish` | step 6; the platform accepts or refuses |
| `MarkSuccess`, `MarkPublished` | step 7, success; both followed by the synchronisation |
| `MarkFailed`, `MarkTargetFailed`, `SendRetry` | step 7, failure; `SendRetry` is Celery's `autoretry_for` |
| `OnFailure` | `PublisherTask.on_failure`, entered through `Raise` |
| `RowGone` | a statement on a deleted row raises |
| `Error`, `Crash`, `Redeliver` | a statement raises; the worker dies and `reject_on_worker_lost` returns the message; the broker repeats a message in progress |
| `AdminMarkFailed`, `AdminReschedule`, `DeletePost` | the admin action on jobs, the edit of a target's status, `DELETE /posts/{id}` |

Abstractions: time is left out (a target is due from the start, back-off is any
delay); contents, errors and identifiers are left out; the lock and the read of
`sync_status` are one step, because between them nothing that the lock excludes
can happen. `publish()` answers and never raises, as its contract asks
(`publisher/base.py:52`); that a platform accepts a post and the answer is lost
is outside: the only publisher in the code is the mock.

`Delivery` is the promise without workers: an item is sent once at most, shown
as published only after it was sent, and a group gets its date only when all its
items were sent. Showing may be taken back, sending and dating may not.

## 4. Module Membership

One organization, its members, and the three requests that change or remove
them. A web worker reads and saves in separate statements without a lock, so
`Next` interleaves the statements of all workers.

| variable | code |
|---|---|
| `role`, `active` | `OrganizationMember.role`, `is_active`; role `none` without a row |
| `orgActive`, `deleted` | `Organization.is_active`; users whose row in `users` is gone |
| `pc`, `call`, `asRole`, `seen` | a worker's next statement, its request, and the roles of requester and target as it read them |
| `dirty`, `raced` | history: workers whose reads somebody has overwritten since; whether one of them saved |

| action | code |
|---|---|
| `Enter` | the insertion of a member (`approve_join_request`, `JoinOrganizationView`), refused when the user has a row, even an inactive one |
| `Authorise`, `FetchTarget`, `CountOwners`, `Save` | `MemberDetailView.patch` and `delete`: the requester's membership, the target and its checks, the count of owners, the save |
| `ReadOwned`, `CloseOrg`, `PurgeMember`, `PurgeUser` | `DeleteAccountView.delete`: the owner memberships, `is_active = False` on the organization, then the raw deletions |

A refused request (403, 404) changes nothing: where the refusal is a request's
first statement it is a guard, later it ends the request. E-mails, posts and the
tokens of a deleted user are left out; so is the organization's reactivation by an
administrator.

## 5. Module Onboarding

The same rows from the other side: how users come in. Three tables, each with the
handlers that read and write them statement by statement.

| variable | code |
|---|---|
| `row` | the user's `OrganizationMember`: none, active, or removed (`is_active` false) |
| `status` | `JoinRequest.status` of the user's n-th request, `absent` before it is made |
| `invite` | an `OrganizationInvitation`: `open`, `lapsed` (unused, past `expires_at`), `used` |
| `at`, `serves` | a worker's next statement and the request it handles |
| `crossed` | history: addresses for which two invitations were made at the same time |

| action | code |
|---|---|
| `Ask`, `AskMember`, `AskPending`, `InsertRequest` | `CreateJoinRequestSerializer`, then `create_join_request`: two queries and the insertion, with the partial unique constraint |
| `FetchRequest`, `Approve`, `Overrule` | the view's reading of a request; `approve_join_request`, one transaction under a row lock; the save of `reject_join_request` and `CancelJoinRequestView` |
| `Invite`, `Invalidate`, `InsertInvitation` | `InviteView.post` and `create_invitation` |
| `PresentInvitation`, `JoinMember`, `InsertMember`, `MarkUsed` | `JoinOrganizationView.post` |
| `LapseInvitation`, `Remove`, `Die` | an expiry date goes by; `MemberDetailView.delete`; a web worker is killed |

`Approve` is one step because everything it reads it reads under the lock, and what
it writes commits at once. Roles are left out: that the reviewer is an owner or
admin is `Authorise` of `Membership`, with its own races. The address of an
invitation is compared letter by letter when older ones are invalidated and
without regard to case when it is accepted; `Addresses` and `HolderOf` keep the two
apart. `PresentInvitation` is a guard on unused and unexpired invitations only when they are
read: what follows goes on with that reading, so an invitation that is replaced or
lapses in the meantime still lets its user in.

`Organization` extends `Membership` and `Onboarding` and lets one of the two run
(`half`) while the other rests, so that one run checks both, each in the states it
has alone. Their names are kept apart: users and web workers are `Users` and
`Workers` in the first, `Guests` and `Servers` in the second.

## 6. Modules Scheduler and ZoneClock

`ZoneClock` has the conversions of `utils/timezone.py` and `compute_next_run` as
pure operators. A zone is one change of the clocks: its instant and the offsets on
both sides, which is what zoneinfo knows around any date; a cron expression is a
slot in every period. `fold` is the second pass through a repeated hour.

`Scheduler` is `dispatch_due_posts`, in overlapping executions, with the actions of
the admin site. Its time unit is the interval of the beat.

| variable | code |
|---|---|
| `plan` | `RecurringSchedule`: `is_active`, `next_run_at` (None as the default leaves it), `run_count` |
| `pass` | an execution: the `now` it read, the organizations it has to do, the rows its query locked, the targets it gave to `send_task` |
| `edit` | the action of the admin site in progress, which has read a row and will save it |
| `transacted` | whether the caller of the task has opened a transaction around it |
| `fired` | history: how often a schedule fired |

| action | code |
|---|---|
| `BeginPass` | the task reads `now` and the active tenants |
| `ServeTenant` | one organization in a transaction: lock due schedules that are free, send a task per due target |
| `RefuseTenant` | the same without a transaction: the query raises, the loop goes on |
| `CommitPass` | the caller commits: `Fire` of every locked row (deactivated if exhausted, else counted and moved) |
| `LosePass` | the worker is lost, the transaction rolled back, the message redelivered |
| `Activate`, `ReadRenewed`, `ReadActive`, `SaveEdit` | `activate_schedules`, `refresh_next_run`, `deactivate_schedules` of the admin site |

Two worlds. `transacted` FALSE is the program: a Celery worker calls the task in
autocommit mode, nothing under `src/` opens a transaction around it, and the task
opens none. Evaluating the lock query raises in every organization, no target is
sent and no schedule fires (`SchedulerLock`, theorem `NothingRunsUntransacted`).
`transacted` TRUE is hypothetical: what the row locks presuppose, and what a test of
the task under pytest-django's database fixture would see; there is no such test in
the repository. It is there for one question only, which is about `compute_next_run`
and not about the locks: whether a schedule that fires moves past the moment it
fires at, around a change of the clocks (`FiringAdvances`). In that world the locked
rows are written when the caller's transaction commits, so firing and commit are one
step (`CommitPass`). No liveness, no exclusion of overlapping passes and no
completeness of a pass is claimed there.

What becomes of a target whose task was sent is section 3; here targets are due from
a given moment and stay `SCHEDULED`. Schedules start without a next run, as the
model's default leaves them: an administrator's refresh has to come first.

## 7. Modules Accounts and Sessions

`Accounts` interleaves the handlers of `auth_core/v1/views.py` statement by
statement. `account`, `verified` are the `User` row; `token` and `owner` the rows
of both token tables; `step`, `job` a worker and its request; `shared`, `overlap`,
`rivals`, `stranded`, `disturbed` history: what was done by two requests at once.

| action | code |
|---|---|
| `Signup`, `CreateUser` | `SignupSerializer.validate_email`; `create_user`, one transaction |
| `Forgot`, `Resend`, `InvalidateTokens`, `IssueToken` | the two views that make a token: find the account, invalidate, insert |
| `Present`, `SavePassword`, `SaveVerified`, `MarkToken` | `ResetPasswordView`, `VerifyEmailView` |
| `DeleteAccount`, `DropVerifyTokens`, `DropResetTokens`, `DropUser` | `_delete_user_manually`, whose last raw DELETE fails on rows left behind |
| `Lapse`, `SwitchAccount`, `LoseClient` | expiry, the admin's `is_active`, a killed worker |

`Forgot` finds the account by the address as it is spelled, `Resend` in any spelling.
Room for a token is asked for when a request begins, so that the bound never stops
a request half-way.

`Sessions` is one user with several tabs: `Login` writes the organization joined
last and its role into the token, `CheckToken`, `Rotate` and `Logout` are refreshing
and logging out (the blacklist is read before it is written), `ChangeRole` an owner's
change, `Act` a request to an organization's host, authenticated by
`JWTAuthenticationWithContext` and permitted by `HasOrgRole`. An access token
carries what the refresh token issued with it carries, and is good whatever becomes of
the session. `held` remembers the roles the user ever had, with the organization,
`roleAt` the role held when a token was issued, `forked` the sessions of which two tabs
sent a token at once. `Rotate` copies the claims: the role in them is that of login.

## 8. Modules Tenants, Realtime and AuditTrail

`Tenants`: `CheckOrCreate` and `Recheck` look the name up; `GenerateUniqueSlug`,
`GenerateSchemaName`, `InsertOrg`, `CommitOrg` are the transaction of
`create_organization_with_owner` at READ COMMITTED: others' rows are seen when
committed, a clash with a row not committed yet waits, one with a committed row is
refused, the foreign key to the founder is checked at the commit. Against it run
`DeleteAccountOf`, `CloseOrg`, `DropMemberships`, `DropFounder`, the statements of
the deletion of an account. Slugs are lists of parts (`SlugAt`, `SchemaAt` append a
number), because the properties only ask which are equal: the schema name drops
the characters that tell some slugs apart.

`Realtime`: `Connect` joins the user's group and then accepts the socket, in two
steps, or ends if the layer raises. `HandleEvent` takes any event of the channel:
nothing is assumed of the order. `Disconnect` leaves the group, or, when
`group_discard` raises, leaves the entry behind; `BreakSocket` is a lost server process.
`NotifyUser` puts the event into the channels of the group that have room, or into
some of them when the layer raises. Messages and group entries expire. The type of an
event is converted for routing and validated as the schema spells it; what fails ends
the consumer. `since` and `missing` are history: how many events had been sent when a
socket was accepted, and which ones the layer lost for it.

`AuditTrail`: `LogAsync` is the middleware; `TakeEntry`, `LookUp`, `InsertRow`,
`Retry`, `Ack` the task, with errors of the database and the broker, lost workers
and authors deleted meanwhile. An INSERT is answered, or writes nothing, or is
committed and its answer lost; the last two look alike to the task, which retries with
a fresh key, so the last one repeats the row (`unanswered` counts it).
`NothingForgotten`: an entry that was queued is in a message or with a worker until it
is written, an error strikes where the task does not retry (`dropped`), or every attempt
has failed. `tables` tells whether the worker finds the table. In a worker it does not
(section 9), and every attempt fails; it would where the task runs in the process of
the request, on the connection of its organization (`CELERY_TASK_ALWAYS_EAGER`,
`settings/development.py:60`, off by default). What is said of rows holds idly
without the table; `NothingForgotten` and `TrailStaysEmpty` say what happens there.

`Backend` puts the six parts side by side. They share no variable, so letting one
part run at a time (`part`) reaches every state a part can be in, and the state
spaces add up. The same rows occur in several parts where their properties differ:
the deletion of an account touches tokens in `Accounts`, ownership in `Tenants` and
`Membership`, the trail in `AuditTrail`.

## 9. Runs

| run | instance | shows |
|---|---|---|
| `PublishRetry` | 1 target, 2 workers, 2 attempts, 2 copies of a message, 2 faults of any kind, 1 edit | `AtMostOneDelivery`, `ExclusiveCall`, `PublishedMeansDelivered`, `GiveUpOnlyAfterBudget`, `NotAbandoned`, `OverForGood` and the refinement of `Delivery` |
| `PublishLive` | 2 targets of one post, 2 workers, 2 attempts, an error, an administrator's edit or a deletion | `PostStatusCurrent`, `Resolved`, `PostSettles` |
| `PublishCrash` | 1 target, 1 crash | **violated**: `CrashedAttemptIsRedone` |
| `PublishReset` | 1 target, 2 workers, duplicates | **violated**: `ResetOnlyIfStuck` |
| `OrgAll`, roles | 3 users, 2 web workers, 3 requests of any kind | `OwnerUnlessRaced` |
| `OrgAll`, entries | 1 user, 1 address, 2 web workers, 3 join requests, 2 invitations | `OnePendingRequest`, `ApprovedIsIn`, `DecidedIsNotApproved`, `RemovedStaysOut`, `OneInvitation`, `SettledForGood` |
| `MemberRace` | 3 users, 2 web workers, changes of role | **violated**: `OwnersRemain` |
| `MemberClose` | 3 users, 1 web worker, removals and deletions | **violated**: `ClosedByAnOwner` |
| `OnboardOverrule` | 2 users, one with two spellings of the address, 2 web workers | **violated**: `ApprovalStands` |
| `BackendAll`, scheduler | 1 schedule, 1 target, 2 dispatchers, the clocks going back, 1 crash, 2 edits, both worlds | `FiringAdvances` |
| `BackendAll`, accounts | 2 spellings of an address, 2 web workers, 3 tokens, 5 requests, 1 upset | `OneUnusedToken`, `OneResetPerLink`, `OneAccountPerAddress`, `StrandedByATokenOnly` |
| `BackendAll`, sessions | 2 organizations, 2 tabs, 1 login, 3 refresh tokens, 2 changes of role | `OneGoodToken`, `RoleWasHeldThere` |
| `BackendAll`, tenants | 2 founders, 3 names (two alike but for case, two alike but for the slug), 3 requests, 1 kill | `OneActiveName`, `ActiveOrgHasOwner`, `LostToARivalOnly` |
| `BackendAll`, realtime | 2 users, a socket of each endpoint, channels of 1, 2 events, 1 lost process | `NothingMissed` |
| `BackendAll`, audit | 1 entry, 2 workers, 2 retries, 2 faults, 1 lost worker, both worlds | `RepeatedByLossOnly`, `UnsignedOnlyIfGone`, `NothingForgotten` |
| `SchedulerLock` | the scheduler without a transaction | **violated**: `DueTargetsSent` |
| `SessionsRole` | the sessions of `BackendAll` | **violated**: `AllowedByRoleAtIssue` |
| `RealtimeRouted` | the sockets of `BackendAll` | **violated**: `RoutedEventsAreHandled` |

`OrgAll` and `BackendAll` are one run each; their rows above are their parts, and
`TypesOK` is about all of `BackendAll`.

Bounds. `MaxRetries` is 5 in the code and 1 here: attempts differ only by being
the last or not, and the proofs hold for any value. Two workers and two copies
of a message are what each race needs; two faults allow a crash during the
recovery from another. `QueueCap`, `MaxFaults` and `MaxEdits` are the only
bounds on the behaviours and stand in the guards. For `Membership`, three users
let an owner act on another while a third is left to lose, three requests let two
race and a third follow, and `viewer` stands for `editor` as well, which no handler
tells apart; `MaxCalls` is the only bound. In `Onboarding` the users do not touch each
other's rows, so `OrgAll` spends its states on two workers on the rows of one; three
requests let a user be refused, ask again, be removed and ask once more. What a third
worker could add is left to the theorems, which hold for any number.
`MaxAsks` and `MaxInvites` bound the rows, and a worker at the bound can only die.

In `Backend`, `Horizon` is long enough for a schedule to fire, be due again and be
exhausted (`max_runs` 2, `end_at` 5), with the change of the clocks in between;
`MaxEdits`, `MaxCrashes`, `MaxUpsets`, `MaxKills`, `MaxBreaks`, `MaxFaults` and
`MaxScribesLost` bound what others do; `MaxRequests`, `MaxPetitions`, `MaxEvents`
and the sets of tokens bound what is asked for; `MaxNumber` bounds the numbers tried
for a slug. `Capacity` is 1500 in the code and 1 here, and two events are sent, so that a
channel is full.
Each hazard takes two actors and one fault, and the safety properties are proved
without these values. In the cfgs of `SchedulerLock`,
`SessionsRole` and `RealtimeRouted` the constants of the other parts have values and
no effect.

The inductive invariants are proved, and stand in no run; before its proof each of
`DeliveryInv`, `SyncInv`, `BudgetInv`, `HandInv`, `MembershipInv` and `OnboardingInv` was
checked as an invariant of the run of its module, and can be added to it again.

Deadlock is not checked: with its targets resolved, or its requests spent, the
system rests.

Fairness (`FairSpec`, of `PublishPost` only): a message that is queued again and again
is taken (strong fairness: the queue is first in, first out), and a worker executes
its task (weak fairness of its next statement). Nothing is assumed of the dispatcher,
of faults and of edits: `Resolved` and `PostSettles` say what follows once a task was
sent, not that one ever is; as deployed none is (`SchedulerLock`). They are checked
without crashes and without two messages of a target at once, and they excuse a target
that an error struck: the violated runs show what happens otherwise.
`CrashedAttemptIsRedone` would be refuted idly if the dispatcher simply stopped, so it
supposes a dispatcher that goes on; it is violated all the same. `Backend` and
`Organization` assume no fairness: they are checked for safety.

### Where the code differs from its comments

* `tasks.py:94-96` closes the job of a crashed worker "so the unique constraint
  doesn't block this attempt". The attempt is blocked by `celery_task_id`, which
  is unique as well: the message that comes back builds the id of the closed row.
  `PublishCrash` shows the target dispatched for ever and never published nor failed.
* `tasks.py:116` resets a target "if it was stuck in PUBLISHING", by a copy read
  at the start. `PublishReset` shows a duplicate message overwrite `PUBLISHED`
  with `SCHEDULED`, without synchronising the post.
* `tests/test_organizations.py:551` says "Cannot demote the last owner to a lower
  role." `MemberRace` shows two owners demote each other after both counted two.
* `auth_core/v1/views.py:311` closes an organization "if the user is an owner" of
  it. `MemberClose` shows a removed owner, whose inactive row still says `owner`,
  close it under the owners who remain, with no concurrency at all.
* `docs/api/organizations/v1.html:621` says "Only pending requests can be
  cancelled." `OnboardOverrule` shows an approved request end as rejected or
  cancelled while its user is a member: only the approval reads the status under
  a lock. The opposite order is safe (`DecidedIsNotApproved`), and so is a request
  that nobody read before it was decided (`SettledForGood`).

* `scheduler/tasks.py:24` promises a task for every due target. Outside a
  transaction, where Celery runs it, `select_for_update` (64) raises in every
  organization, before `_dispatch_due_targets`; `SchedulerLock` shows the target
  waiting. No schedule fires either.
* `scheduler/models.py:116` counts every run; the one that exhausts the schedule is
  not saved. Line 161 avoids "ambiguity around DST transitions";
  in the second pass through a repeated hour a schedule is due again at once
  (`FiringAdvances`).
* `notifications/schemas.py:59` and `:82` name the handlers events are routed to.
  An event whose type has a dot fails the validation there and ends the consumer
  (`RealtimeRouted`); inbox events go to a group the inbox does not join.
* `docs/ARCHITECTURE.md:403` says that after a change of role a user's "existing access
  tokens still carry the old role until they expire (15 minutes)", and
  `permissions.py:8` that the user holds the role in the active organization. A
  refresh copies the claims, so `SessionsRole` shows a new token allow what a lost role
  allowed: the old role lasts as long as the session is refreshed. What does hold is that
  no role works in an organization it was not held in (`RoleWasHeldThere`).
* `notifications/dispatcher.py:48` broadcasts to an organization; nobody is in such
  a group. `asgi.py:26` speaks of a cookie, which is never used.
* `audit/models.py:8` records every request that changes state. The table is not in
  the schema a worker is on, so no row is written; `org_id` is always empty,
  being read from another request object than it is set on.
* `organizations/models.py:229` sets an expiry on creation, behind a test that is
  never true; the status `EXPIRED` would be rolled back with its transaction.
  `organizations/v2/views.py:123` counts in a single query, and runs three.

The first two leave `AtMostOneDelivery` intact, and for the same reason: an
attempt's id is never inserted twice. The code errs on the side of not publishing.

Met while modelling, said nowhere, and right or wrong as one reads it: a name or
slug lost to a rival is answered as a server error, not as a 409; a socket outlives its token; `is_ambiguous` is true of
times in a gap as well; the dispatcher visits the public organization too.

## 10. Proofs

`PublishPostProofs` proves for all values of the constants that satisfy
`ConstantsAssumption` (any sets of targets, posts and workers):

| theorem | states |
|---|---|
| `TypeCorrect` | `Spec => []TypeOK`, which the others rest on |
| `DeliveryInvariant` | `Spec => []DeliveryInv` |
| `DeliveredOnce` | `Spec => []AtMostOneDelivery` |
| `CallsAreExclusive` | `Spec => []ExclusiveCall` |
| `PublishedIsTrue` | `Spec => []PublishedMeansDelivered` |
| `KeepsPromise` | `Spec => DeliversAsPromised` |
| `SyncInvariant`, `StatusIsCurrent` | `Spec => []SyncInv`, `Spec => []PostStatusCurrent` |
| `GivenUpAfterBudget` | `Spec => []GiveUpOnlyAfterBudget` |
| `NobodyAbandoned` | `Spec => []NotAbandoned` |
| `TriedForGood` | `Spec => OverForGood` |

`AtMostOneDelivery` is not inductive: nothing in it forbids a queued retry of an
accepted attempt, or two workers holding one attempt. `DeliveryInv` adds what the
code relies on without saying it:

* `ClaimInv` - a worker between the insertion of its job and the answer owns its
  `celery_task_id`: the row exists (or went with its post), the attempt has no
  answer yet, and nobody else claims it;
* `RefusedInv` - whatever is queued, held or answered at attempt `k` has all
  attempts before `k` refused by the platform, because only a refusal sends a
  retry. Two claimants of different attempts are then impossible: the later has
  the earlier one refused, whose claimant is still without an answer;
* `CountInv` - `delivered` is 1 exactly if some attempt was accepted;
* `TruthInv` - what is shown, or about to be saved, was delivered;
* `PhaseInv` - which statements belong to which phase.

Each part has its lemma, with one step per action that can disturb it. `SyncInv`
is the invariant behind `PostStatusCurrent`: one `sync_status` of a post at a
time, and what it is about to write is current unless another synchronisation is
still to come.

`GiveUpOnlyAfterBudget` speaks of runs without faults and edits and is not
inductive either: a worker in its failure path might hold somebody else's job, or
be in `on_failure` without having refused anything. `BudgetInv` adds to
`DeliveryInv` that as long as nothing failed (`Calm`) nobody raised
(`NobodyRaised`), a target has one active job (`OneActiveJob`), which is the one
its worker inserted (`OwnJobHeld`), and whoever is about to give a target up has the
last refusal in hand (`LastRefusal`). With `RefusedInv` the last refusal has all
others before it.

`NotAbandoned` is the safety behind `Resolved`: a target that is `PUBLISHING`, which no
dispatch picks up, has a message that waits or a worker that goes on with it, until
something fails. Duplicates alone could break it in three places: a worker leaves on
`IntegrityError`, is refused when it marks its job running, or sends a retry that
finds its id taken. `HandInv` excludes them. It adds to `DeliveryInv` that, as long as
nothing failed, the attempts of a target follow one another (`OneAfterAnother`: the
message of an attempt is `Known` only when every earlier one has its job and nobody is
on it), that each worker is on its own job (`OwnAttempt`), and that a job that is
pending or running has a worker (`ActiveJobOwned`). So who is refused the insertion
leaves another worker with the target, nobody is refused when it marks its job, whoever
loses its job to the orphan cleanup goes on all the same, and the next id is free when a
retry is sent.

`OverForGood` holds under all faults and edits, deletion excepted, and is the other
side of the same design, and of what `PublishCrash` shows: `celery_task_id` names the attempt and not the dispatch, so a
target whose attempts are over is dispatched, when an administrator reschedules it, to
no effect: it is neither posted again nor, unless it was, shown as published. It follows from the lemmas on what a step does to jobs and messages: a
message that is new has attempt 0, which has its job, or follows a worker that is
attempting.

`MembershipProofs` proves, for any finite set of users and any web workers that
satisfy `MembershipAssumption`:

| theorem | states |
|---|---|
| `MembershipTypes` | `Spec => []TypeOK` |
| `MembershipInvariant` | `Spec => []MembershipInv` |
| `OwnerRemainsUnlessRaced` | `Spec => []OwnerUnlessRaced` |

`OwnerUnlessRaced` says that the guards of the two views are right in themselves:
the last owner can be lost only when a worker saves on reads that another one has
overwritten, so a lock from the first read to the save would be enough. It is not
inductive; `Informed` adds that a worker which is not `dirty` still knows the role
of its target, has seen another owner before it unseats one (`AnotherOwner`: a
count above one leaves somebody when one is taken away), and purges no owner of
an open organization.

`OnboardingProofs` proves, for any users, web workers, addresses and bounds:

| theorem | states |
|---|---|
| `OnboardingTypes`, `OnboardingInvariant` | `OnboardSpec => []OnboardTypeOK`, `OnboardSpec => []OnboardingInv` |
| `NeverTwoPending` | `OnboardSpec => []OnePendingRequest` |
| `ApprovalLetsIn` | `OnboardSpec => []ApprovedIsIn` |
| `InvitationReplaces` | `OnboardSpec => []OneInvitation` |
| `DecisionsBarApproval` | `OnboardSpec => DecidedIsNotApproved` |
| `RemovalIsFinal` | `OnboardSpec => RemovedStaysOut` |
| `DecisionsSettle` | `OnboardSpec => SettledForGood` |

Lemma `RequestStep` says what any step can do to requests and members, in five
cases; the properties of requests follow from it. They rest on the constraints of
the tables and the lock, never on the queries before the insertion, which another
worker may outdate. `OneInvitation` has no constraint behind it. It needs
`Cleared`: a worker between the invalidation and the insertion finds its address
without an unused invitation, unless two are at that point. `SettledForGood` is what is left of
`ApprovalStands`: an approval can be overruled only by a rejection or cancellation that
read the request before it, and no later view starts another.

The parts of `Backend`, for any sets of rows and actors and any bounds that satisfy
the assumption of the module:

| module | theorems |
|---|---|
| `SchedulerProofs` | for any zone with one change of the clocks: `RoundTrip`, `ReadTimesExist`, `PushForward`, `NextRunIsAhead`; of the specification: `SchedulerTypes`, `NextRunAhead` (`FiringAdvances`), and `NothingRunsUntransacted` |
| `AuthProofs` | of `Accounts`: `AccountsTypes`, `LastLinkOnly` (`OneUnusedToken`), `LinkWorksOnce` (`OneResetPerLink`), `AddressesApart` (`OneAccountPerAddress`), `StrandedByATokenMade` (`StrandedByATokenOnly`); of `Sessions`: `SessionsTypes`, `OneTokenPerSession` (`OneGoodToken`), `RolesStayInTheirOrg` (`RoleWasHeldThere`) |
| `TenantsProofs` | `TenantsTypes`, `NamesApart` (`OneActiveName`), `OwnersStay` (`ActiveOrgHasOwner`), `RefusedByRivals` (`LostToARivalOnly`) |
| `RealtimeProofs` | `RealtimeTypes`, `OpenStreamsMissNothing` (`NothingMissed`) |
| `BackendProofs` | of `AuditTrail`: `AuditTypes`, `RetriesDoNotRepeat` (`RepeatedByLossOnly`), `AuthorsNamed` (`UnsignedOnlyIfGone`), `EntriesKept` (`NothingForgotten`), and `TrailStaysEmpty`; of the whole: `PartsOfTheBackend`, `BackendTypes` (`TypesOK`), `BackendSafe` |

Those of a part are theorems of its own specification (`SchedSpec`, `AccountsSpec`,
...). `PartsOfTheBackend` shows that `BackendSpec` implements each of these: a step of
the whole is a step of one part, and the others stutter, because they share no
variable. With it `BackendSafe` states every property of the run `BackendAll` of the
whole. The arguments:

* *Scheduler.* `SchedInv` adds `HeldDue`: what a dispatcher has locked was due when it
  locked it, and the lock keeps administrators and other passes (`HeldApart`) from it.
  `HeldDue` and `NextRunIsAhead` carry `FiringAdvances`: what fires was due, and is next
  due after the pass, a repeated hour excepted.
* *Accounts.* `AccInv` has a part for each property: `RivalsOK`, `LinksOK` (a link
  that is carried once has changed nothing before it is used), `MakersOK` (who is
  about to insert a token has left no other), `DeletersOK` (what a deletion has
  removed stays removed until a token is made), over `StepsOK` and `MadeOK`. None
  of the properties survives without its exception, and the exceptions name the
  overlap of requests that a lock or a transaction would exclude.
* *Sessions.* `TokensOK`: the role a token names was held, then or earlier, in the
  organization it names; `CarriesGood`: in a session that did not
  fork, the request on its way carries the good token.
* *Tenants.* `TenInv`: `SlotsOK` (a founder alone in a transaction chose what is free,
  and it stays free), `OwnersOK` (what a leaving user owns is on the list of what
  will be closed, or was founded meanwhile), `NamesOK`, `PublicOK`.
* *Realtime.* `InItsGroup`: an event stream that joins or is open has its entry in its
  group, unless the entry expired; so whatever is sent after it was accepted reaches
  its channel or is lost by the layer. `OwnGroupOnly`, `OwnEventsOnly`: what waits in a
  channel is of its user.
* *Audit trail.* `AuditInv` counts. `RowsPaidFor`: the rows of a request, the copies of
  its message and the workers that have it and are not done are together at most one,
  plus one for every worker lost with it and for every INSERT whose answer was lost; rows and copies are numbered, so that the
  sum is of two cardinalities and no induction is needed. A row is written by a worker
  that is then done, a retry turns a worker into a copy, a redelivery is paid for by
  the loss, a row that is followed by a retry by the lost answer. `AuthorKnown`: a worker about to insert names the author unless the
  account is gone. `RetriesAfterFailures`: the n-th retry follows n failures, so that
  the last one leaves `failed` above the budget, which is what `NothingForgotten`
  allows.

Two theorems say for all values of the constants what section 9 reports of the program
as it is deployed: outside a transaction no task is sent and no schedule fires
(`NothingRunsUntransacted`); without the table no row of the trail is written, and an
entry is on its way, was dropped, or has failed every time (`TrailStaysEmpty`).

Only model-checked: the liveness properties `Resolved` and `PostSettles`, which need
fairness and `ENABLED`, out of the prover's reach; and the violated properties, which
are refuted by their counterexamples.

## 11. Not modelled

* Creation and update of posts: the targets exist, and are due from a given moment.
  An admin form saved over a later status is modelled only as the edit back to
  `SCHEDULED`. The edit of a schedule's definition.
* The deletion of an account takes the user's requests to join with it, which
  `Onboarding` leaves out, and fails on an audit row that names the user
  (`DropPerson` of `AuditTrail`), which `Accounts` leaves out.
* Throttling counts requests in a cache and refuses them, which no property here
  depends on. Lists, statistics and the v2 views, which repeat v1 with other answers;
  the forms of the admin site beyond the actions named above.
* `celery.py` apart from delivery and retries: signal handlers that log, and tasks
  for checking a worker's health. The platform of the publisher beyond its answer.
* `LoggedModelMixin`, which no model uses. crypto, pagination, health, exceptions,
  api: pure functions or pure input and output. The empty applications.
