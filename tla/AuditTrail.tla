----------------------------- MODULE AuditTrail -----------------------------
(***************************************************************************)
(* apps/audit: the middleware queues an entry for every mutating request,  *)
(* and log_request_task writes it, with acks_late and two retries.  The    *)
(* tables of the trail exist in the schemas of organizations, while the    *)
(* connection of a worker is on the public one: `tables` tells whether the *)
(* worker finds them.                                                      *)
(***************************************************************************)
EXTENDS Integers, FiniteSets

CONSTANTS
  Entries,      \* mutating requests
  People,       \* users
  AuthorOf,     \* the user of a request, Nobody if it had none
  Nobody,
  Scribes,      \* worker processes of the audit queue
  MaxRetries,   \* max_retries of the task
  TableWorlds,  \* the values `tables` may have
  MaxFaults,    \* bound: errors of the database or the broker
  MaxScribesLost

ASSUME AuditAssumption ==
  /\ AuthorOf \in [Entries -> People \union {Nobody}]
  /\ Nobody \notin People
  /\ TableWorlds \subseteq BOOLEAN
  /\ MaxRetries \in Nat /\ MaxFaults \in Nat /\ MaxScribesLost \in Nat

Retries == 0 .. MaxRetries

VARIABLES
  tables,     \* see above
  people,     \* users that exist
  entered,    \* requests whose entry was queued; or it failed and was logged
  unsent,
  queued,     \* messages waiting: by request and number of retries
  scribe,     \* a worker's message, its next statement, the user it found
  signed,     \* rows of a request that name its user
  unsigned,   \* rows that name nobody
  failed,     \* how many INSERTs of a request the worker took for failed
  unanswered, \* how many of those had written their row: the answer was lost
  dropped,    \* requests of which an error ended the task without a retry
  strays,     \* how many workers were lost with a message of the request
  faults, scribesLost

auditGhosts == <<failed, unanswered, dropped, strays, faults, scribesLost>>
auditVars == <<tables, people, entered, unsent, queued, scribe, signed,
               unsigned, auditGhosts>>

Idle == [of |-> Nobody, retry |-> 0, step |-> "idle", user |-> Nobody]

AuditInit ==
  /\ tables \in TableWorlds
  /\ people = People
  /\ entered = {} /\ unsent = {} /\ dropped = {}
  /\ queued = [m \in Entries \X Retries |-> 0]
  /\ scribe = [w \in Scribes |-> Idle]
  /\ signed = [r \in Entries |-> 0]
  /\ unsigned = [r \in Entries |-> 0]
  /\ failed = [r \in Entries |-> 0]
  /\ unanswered = [r \in Entries |-> 0]
  /\ strays = [r \in Entries |-> 0]
  /\ faults = 0 /\ scribesLost = 0

\* AuditMiddleware, after the response: an error of apply_async is logged.
LogAsync(r) ==
  /\ r \notin entered \union unsent
  /\ \/ /\ entered' = entered \union {r}
        /\ queued' = [queued EXCEPT ![<<r, 0>>] = @ + 1]
        /\ UNCHANGED unsent
     \/ /\ unsent' = unsent \union {r}
        /\ UNCHANGED <<entered, queued>>
  /\ UNCHANGED <<tables, people, scribe, signed, unsigned, auditGhosts>>

-----------------------------------------------------------------------------
(* log_request_task *)

Fault == faults < MaxFaults /\ faults' = faults + 1

TakeEntry(w, r, n) ==
  /\ scribe[w] = Idle
  /\ queued[<<r, n>>] > 0
  /\ queued' = [queued EXCEPT ![<<r, n>>] = @ - 1]
  /\ scribe' = [scribe EXCEPT ![w] =
                  [of |-> r, retry |-> n, step |-> "lookup", user |-> Nobody]]
  /\ UNCHANGED <<tables, people, entered, unsent, signed, unsigned, auditGhosts>>

\* The author if the account still exists.
AuthorFound(r) == IF AuthorOf[r] \in people THEN AuthorOf[r] ELSE Nobody

\* Mutant: any error of the query counts as a missing user.
LookUpQuietly(w) ==
  LET r == scribe[w].of
  IN  /\ scribe[w].step = "lookup"
      /\ \/ /\ scribe' = [scribe EXCEPT ![w].step = "insert", ![w].user = AuthorFound(r)]
            /\ UNCHANGED faults
         \/ /\ Fault
            /\ scribe' = [scribe EXCEPT ![w].step = "insert"]
      /\ UNCHANGED <<tables, people, entered, unsent, queued, signed, unsigned,
                     failed, unanswered, dropped, strays, scribesLost>>

\* Only DoesNotExist is handled: another error ends the task without a retry.
LookUp(w) ==
  LET r == scribe[w].of
  IN  /\ scribe[w].step = "lookup"
      /\ \/ /\ scribe' = [scribe EXCEPT ![w].step = "insert", ![w].user = AuthorFound(r)]
            /\ UNCHANGED <<faults, dropped>>
         \/ /\ Fault
            /\ AuthorOf[r] # Nobody
            /\ scribe' = [scribe EXCEPT ![w].step = "ack"]
            /\ dropped' = dropped \union {r}
      /\ UNCHANGED <<tables, people, entered, unsent, queued, signed, unsigned,
                     failed, unanswered, strays, scribesLost>>

\* Mutant: the task is retried after a row was written as well.
InsertAndRetry(w) ==
  LET r == scribe[w].of
  IN  /\ scribe[w].step = "insert"
      /\ tables
      /\ signed' = [signed EXCEPT ![r] = @ + 1]
      /\ scribe' = [scribe EXCEPT ![w].step = "retry"]
      /\ UNCHANGED <<tables, people, entered, unsent, queued, unsigned, auditGhosts>>

\* The row, if the table is there and the user still is.
WriteRow(w) ==
  LET r == scribe[w].of
      u == scribe[w].user
  IN  /\ tables
      /\ u \in people \union {Nobody}
      /\ IF u = Nobody
         THEN unsigned' = [unsigned EXCEPT ![r] = @ + 1] /\ UNCHANGED signed
         ELSE signed' = [signed EXCEPT ![r] = @ + 1] /\ UNCHANGED unsigned

\* create(): the row is written; nothing is written; or the row is written and
\* the answer lost.  Any exception leads to a retry.
InsertRow(w) ==
  LET r == scribe[w].of
  IN  /\ scribe[w].step = "insert"
      /\ \/ /\ WriteRow(w)
            /\ scribe' = [scribe EXCEPT ![w].step = "ack"]
            /\ UNCHANGED <<failed, unanswered, faults>>
         \/ /\ \/ ~ (tables /\ scribe[w].user \in people \union {Nobody}) /\ UNCHANGED faults
               \/ Fault
            /\ scribe' = [scribe EXCEPT ![w].step = "retry"]
            /\ failed' = [failed EXCEPT ![r] = @ + 1]
            /\ UNCHANGED <<signed, unsigned, unanswered>>
         \/ /\ WriteRow(w)
            /\ Fault
            /\ scribe' = [scribe EXCEPT ![w].step = "retry"]
            /\ failed' = [failed EXCEPT ![r] = @ + 1]
            /\ unanswered' = [unanswered EXCEPT ![r] = @ + 1]
      /\ UNCHANGED <<tables, people, entered, unsent, queued, dropped, strays, scribesLost>>

\* self.retry(): a new message, unless there were enough; the old one is
\* acknowledged.  If the broker refuses the new one, the old one is rejected.
Retry(w) ==
  LET r == scribe[w].of
      n == scribe[w].retry
  IN  /\ scribe[w].step = "retry"
      /\ \/ /\ queued' = IF n < MaxRetries
                         THEN [queued EXCEPT ![<<r, n + 1>>] = @ + 1] ELSE queued
            /\ UNCHANGED <<faults, dropped>>
         \/ /\ n < MaxRetries
            /\ Fault
            /\ dropped' = dropped \union {r}
            /\ UNCHANGED queued
      /\ scribe' = [scribe EXCEPT ![w].step = "ack"]
      /\ UNCHANGED <<tables, people, entered, unsent, signed, unsigned, failed,
                     unanswered, strays, scribesLost>>

Ack(w) ==
  /\ scribe[w].step = "ack"
  /\ scribe' = [scribe EXCEPT ![w] = Idle]
  /\ UNCHANGED <<tables, people, entered, unsent, queued, signed, unsigned, auditGhosts>>

\* Mutant: a message is acknowledged when it is taken.
LoseScribeAcked(w) ==
  /\ scribe[w] # Idle
  /\ scribesLost < MaxScribesLost
  /\ scribesLost' = scribesLost + 1
  /\ scribe' = [scribe EXCEPT ![w] = Idle]
  /\ UNCHANGED <<tables, people, entered, unsent, queued, signed, unsigned, failed,
                 unanswered, dropped, faults, strays>>

\* A worker is lost: its message comes back (reject_on_worker_lost).
LoseScribe(w) ==
  LET m == <<scribe[w].of, scribe[w].retry>>
  IN  /\ scribe[w] # Idle
      /\ scribesLost < MaxScribesLost
      /\ scribesLost' = scribesLost + 1
      /\ strays' = [strays EXCEPT ![scribe[w].of] = @ + 1]
      /\ queued' = [queued EXCEPT ![m] = @ + 1]
      /\ scribe' = [scribe EXCEPT ![w] = Idle]
      /\ UNCHANGED <<tables, people, entered, unsent, signed, unsigned, failed,
                     unanswered, dropped, faults>>

\* The raw DELETE of a user, which fails while a row of the trail names them.
DropPerson(u) ==
  /\ u \in people
  /\ \A r \in Entries : AuthorOf[r] = u => signed[r] = 0
  /\ people' = people \ {u}
  /\ UNCHANGED <<tables, entered, unsent, queued, scribe, signed, unsigned, auditGhosts>>

-----------------------------------------------------------------------------
(* Specification *)

Write(w) ==
  \/ \E r \in Entries, n \in Retries : TakeEntry(w, r, n)
  \/ LookUp(w) \/ InsertRow(w) \/ Retry(w) \/ Ack(w)

AuditNext ==
  \/ \E r \in Entries : LogAsync(r)
  \/ \E w \in Scribes : Write(w) \/ LoseScribe(w)
  \/ \E u \in People : DropPerson(u)

AuditSpec == AuditInit /\ [][AuditNext]_auditVars

-----------------------------------------------------------------------------
(* Properties *)

AuditTypeOK ==
  /\ tables \in BOOLEAN
  /\ people \subseteq People
  /\ entered \union unsent \union dropped \subseteq Entries
  /\ queued \in [Entries \X Retries -> Nat]
  /\ scribe \in [Scribes -> [of : Entries \union {Nobody}, retry : Retries,
                             step : {"idle", "lookup", "insert", "retry", "ack"},
                             user : People \union {Nobody}]]
  /\ signed \in [Entries -> Nat] /\ unsigned \in [Entries -> Nat]
  /\ failed \in [Entries -> Nat] /\ unanswered \in [Entries -> Nat]
  /\ strays \in [Entries -> Nat]
  /\ faults \in 0 .. MaxFaults /\ scribesLost \in 0 .. MaxScribesLost

(* A request is in the trail once, and once more at most for every worker    *)
(* lost with its message and for every INSERT whose answer was lost: neither *)
(* a retry after a failure nor a redelivery after the acknowledgement        *)
(* repeats a row (log_request_task, which gives a row a fresh key).          *)
RepeatedByLossOnly ==
  \A r \in Entries : signed[r] + unsigned[r] <= 1 + strays[r] + unanswered[r]

(* An entry that names nobody is of a request without a user, or of a user   *)
(* whose account is gone (log_request_task).                                 *)
UnsignedOnlyIfGone ==
  \A r \in Entries : unsigned[r] > 0 => AuthorOf[r] \notin people

\* A message of the request waits, or a worker has one and is not done with it.
OnItsWay(r) ==
  \/ \E n \in Retries : queued[<<r, n>>] > 0
  \/ \E w \in Scribes : /\ scribe[w].of = r
                         /\ scribe[w].step \in {"lookup", "insert", "retry"}

(* An entry that was queued is never forgotten: it is on its way until it is *)
(* written, an error struck where the task does not retry, or each of the    *)
(* three attempts failed, whatever workers are lost.                         *)
NothingForgotten ==
  \A r \in entered :
    \/ OnItsWay(r)
    \/ signed[r] + unsigned[r] > 0
    \/ r \in dropped
    \/ failed[r] > MaxRetries

=============================================================================
