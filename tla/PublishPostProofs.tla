------------------------- MODULE PublishPostProofs -------------------------
(* Theorems about PublishPost, for any targets, posts, workers and bounds. *)
EXTENDS PublishPost, TLAPS

USE ConstantsAssumption

-----------------------------------------------------------------------------
(* Type correctness *)

LEMMA MessageFacts ==
  ASSUME NEW m \in Messages
  PROVE  /\ m[1] \in Targets
         /\ m[2] \in Attempts
         /\ PostOf[m[1]] \in Posts
         /\ m = <<m[1], m[2]>>
  BY DEF Messages

\* The helper of the exception paths keeps the types of what it assigns.
LEMMA RaiseType ==
  ASSUME TypeOK, NEW w \in Workers, pc[w] # "idle", Raise(w)
  PROVE  /\ pc' \in [Workers -> Label]
         /\ phase' \in [Workers -> Phase]
         /\ unsynced' \in SUBSET Posts
         /\ \A v \in Workers : pc'[v] # "idle" => pc[v] # "idle"
  BY MessageFacts DEF TypeOK, Raise, Goto, Label, Phase, T, P

LEMMA AggregateType ==
  ASSUME NEW p
  PROVE  Aggregate(p) \in TargetStatus
  BY DEF Aggregate, TargetStatus

LEMMA InitTypeOK == Init => TypeOK
  BY DEF Init, TypeOK, TargetStatus, JobStatus, Answer, Label, Phase, Attempts,
         Messages, NoMessage

\* Every statement of the task keeps the types.
LEMMA StepTypeOK ==
  ASSUME TypeOK, NEW w \in Workers, Step(w)
  PROVE  TypeOK'
<1> USE DEF rows, platform, locals, budgets, TypeOK
<1>0. pc[w] # "idle" /\ msg[w] \in Messages /\ T(w) \in Targets /\ P(w) \in Posts
      /\ <<T(w), held[w]>> \in Messages
  BY MessageFacts DEF Step, Fetch, Cleanup, Reset, Create, MarkRunning, SetPublishing,
     SyncRead, SyncWrite, CallPublish, MarkSuccess, MarkPublished, MarkFailed,
     MarkTargetFailed, SendRetry, OnFailure, RowGone, Ack, T, P, Messages
<1>1. CASE Fetch(w)
  BY <1>0, <1>1 DEF Fetch, Goto, Label, TargetStatus
<1>2. CASE Cleanup(w)
  BY <1>0, <1>2 DEF Cleanup, Goto, Label, JobStatus
<1>3. CASE Reset(w)
  BY <1>0, <1>3 DEF Reset, Goto, Label, TargetStatus
<1>4. CASE Create(w)
  BY <1>0, <1>4, MessageFacts DEF Create, Goto, Label, JobStatus
<1>5. CASE MarkRunning(w)
  BY <1>0, <1>5, RaiseType DEF MarkRunning, Goto, Label, JobStatus
<1>6. CASE SetPublishing(w)
  BY <1>0, <1>6 DEF SetPublishing, Goto, Label, TargetStatus
<1>7. CASE SyncRead(w)
  BY <1>0, <1>7, AggregateType DEF SyncRead, Goto, Label
<1>8. CASE SyncWrite(w)
  BY <1>0, <1>8 DEF SyncWrite, Goto, Label
<1>9. CASE CallPublish(w)
  BY <1>0, <1>9 DEF CallPublish, Goto, Label, Phase, Answer
<1>10. CASE MarkSuccess(w)
  BY <1>0, <1>10 DEF MarkSuccess, Goto, Label, JobStatus
<1>11. CASE MarkPublished(w)
  BY <1>0, <1>11 DEF MarkPublished, Goto, Label, TargetStatus
<1>12. CASE MarkFailed(w)
  BY <1>0, <1>12 DEF MarkFailed, Goto, Label, JobStatus
<1>13. CASE MarkTargetFailed(w)
  BY <1>0, <1>13 DEF MarkTargetFailed, Goto, Label, TargetStatus
<1>14. CASE SendRetry(w)
  <2>1. queue' \in [Messages -> Nat]
    <3> DEFINE n == <<T(w), msg[w][2] + 1>>
    <3>1. queue' = [queue EXCEPT ![n] = queue[n] + 1]
      BY <1>14 DEF SendRetry
    <3>2. \A m \in Messages : queue[m] \in Nat /\ queue[m] + 1 \in Nat
      OBVIOUS
    <3> HIDE DEF n
    <3>3. QED BY <3>1, <3>2
  <2>2. pc' \in [Workers -> Label] /\ \A v \in Workers : pc'[v] # "idle" => pc[v] # "idle"
    BY <1>0, <1>14 DEF SendRetry, Goto, Label
  <2>3. QED BY <1>14, <2>1, <2>2 DEF SendRetry
<1>15. CASE OnFailure(w)
  <2>1. JobsIn(T(w), {"RUNNING"}) \subseteq Attempts
    BY DEF JobsIn
  <2>2. held' \in [Workers -> Attempts]
    BY <1>15, <2>1 DEF OnFailure
  <2>3. pc' \in [Workers -> Label] /\ \A v \in Workers : pc'[v] # "idle" => pc[v] # "idle"
    BY <1>0, <1>15 DEF OnFailure, Goto, Label
  <2>4. QED BY <1>15, <2>2, <2>3 DEF OnFailure
<1>16. CASE RowGone(w)
  BY <1>0, <1>16, RaiseType DEF RowGone
<1>17. CASE Ack(w)
  BY <1>0, <1>17 DEF Ack, Goto, Label, TargetStatus, Phase, Attempts
<1>18. QED
  BY <1>1, <1>2, <1>3, <1>4, <1>5, <1>6, <1>7, <1>8, <1>9, <1>10, <1>11, <1>12,
     <1>13, <1>14, <1>15, <1>16, <1>17 DEF Step

\* So do the broker, the faults and the administrators.
LEMMA NextTypeOK == TypeOK /\ [Next]_vars => TypeOK'
<1> SUFFICES ASSUME TypeOK, [Next]_vars PROVE TypeOK'
  OBVIOUS
<1> USE DEF rows, platform, locals, budgets
<1>1. ASSUME NEW t \in Targets, Dispatch(t) PROVE TypeOK'
  BY <1>1 DEF Dispatch, TypeOK, Messages, Attempts
<1>2. ASSUME NEW t \in Targets, AdminMarkFailed(t) PROVE TypeOK'
  BY <1>2 DEF AdminMarkFailed, TypeOK, JobStatus
<1>3. ASSUME NEW t \in Targets, AdminReschedule(t) PROVE TypeOK'
  BY <1>3 DEF AdminReschedule, TypeOK, TargetStatus
<1>4. ASSUME NEW p \in Posts, DeletePost(p) PROVE TypeOK'
  BY <1>4 DEF DeletePost, TypeOK, TargetStatus, JobStatus
<1>5. ASSUME NEW w \in Workers, NEW m \in Messages, Receive(w, m) PROVE TypeOK'
  BY <1>5 DEF Receive, Goto, TypeOK, Label
<1>6. ASSUME NEW w \in Workers, Error(w) PROVE TypeOK'
  <2>1. CASE pc[w] = "retry"
    BY <1>6, <2>1 DEF Error, Goto, TypeOK, Label
  <2>2. CASE pc[w] # "retry"
    BY <1>6, <2>2, RaiseType DEF Error, TypeOK
  <2>3. QED BY <2>1, <2>2
<1>7. ASSUME NEW w \in Workers, Crash(w) PROVE TypeOK'
  BY <1>7, MessageFacts DEF Crash, Goto, TypeOK, Label, TargetStatus, Phase, Attempts, T, P
<1>8. ASSUME NEW w \in Workers, Redeliver(w) PROVE TypeOK'
  BY <1>8 DEF Redeliver, TypeOK
<1>9. CASE UNCHANGED vars
  BY <1>9 DEF vars, TypeOK
<1>10. QED
  BY <1>1, <1>2, <1>3, <1>4, <1>5, <1>6, <1>7, <1>8, <1>9, StepTypeOK
     DEF Next, Fault

THEOREM TypeCorrect == Spec => []TypeOK
  BY InitTypeOK, NextTypeOK, PTL DEF Spec

-----------------------------------------------------------------------------
(* The inductive invariant of delivery *)

\* The phase of a worker always matches the statement it is at.
LEMMA PhaseStep ==
  TypeOK /\ PhaseInv /\ [Next]_vars => PhaseInv'
<1> SUFFICES ASSUME TypeOK, PhaseInv, [Next]_vars PROVE PhaseInv'
  OBVIOUS
<1> USE DEF rows, platform, locals, budgets, TypeOK, PhaseInv
<1>1. ASSUME NEW t \in Targets, Dispatch(t) PROVE PhaseInv'
  BY <1>1 DEF Dispatch, Goto
<1>2. ASSUME NEW t \in Targets, AdminMarkFailed(t) PROVE PhaseInv'
  BY <1>2 DEF AdminMarkFailed, Goto
<1>3. ASSUME NEW t \in Targets, AdminReschedule(t) PROVE PhaseInv'
  BY <1>3 DEF AdminReschedule, Goto
<1>4. ASSUME NEW p \in Posts, DeletePost(p) PROVE PhaseInv'
  BY <1>4 DEF DeletePost, Goto
<1>5. ASSUME NEW w \in Workers, NEW m \in Messages, Receive(w, m) PROVE PhaseInv'
  BY <1>5 DEF Receive, Goto
<1>6. ASSUME NEW w \in Workers, Fetch(w) PROVE PhaseInv'
  BY <1>6 DEF Fetch, Goto
<1>7. ASSUME NEW w \in Workers, Cleanup(w) PROVE PhaseInv'
  BY <1>7 DEF Cleanup, Goto
<1>8. ASSUME NEW w \in Workers, Reset(w) PROVE PhaseInv'
  BY <1>8 DEF Reset, Goto
<1>9. ASSUME NEW w \in Workers, Create(w) PROVE PhaseInv'
  BY <1>9 DEF Create, Goto
<1>10. ASSUME NEW w \in Workers, MarkRunning(w) PROVE PhaseInv'
  <2>1. CASE Raise(w) /\ UNCHANGED job
    BY <1>10, <2>1 DEF MarkRunning, Goto, Raise
  <2>2. CASE pc' = [pc EXCEPT ![w] = "setPublishing"] /\ phase' = phase
    BY <1>10, <2>2 DEF MarkRunning
  <2>3. QED BY <1>10, <2>1, <2>2 DEF MarkRunning, Goto
<1>11. ASSUME NEW w \in Workers, SetPublishing(w) PROVE PhaseInv'
  BY <1>11 DEF SetPublishing, Goto
<1>12. ASSUME NEW w \in Workers, SyncRead(w) PROVE PhaseInv'
  BY <1>12 DEF SyncRead, Goto
<1>13. ASSUME NEW w \in Workers, SyncWrite(w) PROVE PhaseInv'
  BY <1>13 DEF SyncWrite, Goto
<1>14. ASSUME NEW w \in Workers, CallPublish(w) PROVE PhaseInv'
  BY <1>14 DEF CallPublish, Goto
<1>15. ASSUME NEW w \in Workers, MarkSuccess(w) PROVE PhaseInv'
  BY <1>15 DEF MarkSuccess, Goto
<1>16. ASSUME NEW w \in Workers, MarkPublished(w) PROVE PhaseInv'
  BY <1>16 DEF MarkPublished, Goto
<1>17. ASSUME NEW w \in Workers, MarkFailed(w) PROVE PhaseInv'
  <2>1. pc' \in [Workers -> Label] /\ phase' = phase /\ phase[w] \in {"end", "handler"}
        /\ \E l \in {"markTarget", "retry"} : pc' = [pc EXCEPT ![w] = l] /\ (l = "retry" => phase[w] = "end")
    BY <1>17, NextTypeOK DEF MarkFailed, Goto, IsFinal
  <2>2. QED BY <2>1
<1>18. ASSUME NEW w \in Workers, MarkTargetFailed(w) PROVE PhaseInv'
  BY <1>18 DEF MarkTargetFailed, Goto
<1>19. ASSUME NEW w \in Workers, SendRetry(w) PROVE PhaseInv'
  BY <1>19 DEF SendRetry, Goto
<1>20. ASSUME NEW w \in Workers, OnFailure(w) PROVE PhaseInv'
  BY <1>20 DEF OnFailure, Goto
<1>21. ASSUME NEW w \in Workers, RowGone(w) PROVE PhaseInv'
  BY <1>21 DEF RowGone, Goto, Raise
<1>22. ASSUME NEW w \in Workers, Ack(w) PROVE PhaseInv'
  BY <1>22 DEF Ack, Goto
<1>23. ASSUME NEW w \in Workers, Error(w) PROVE PhaseInv'
  BY <1>23 DEF Error, Goto, Raise
<1>24. ASSUME NEW w \in Workers, Crash(w) PROVE PhaseInv'
  BY <1>24 DEF Crash, Goto
<1>25. ASSUME NEW w \in Workers, Redeliver(w) PROVE PhaseInv'
  BY <1>25 DEF Redeliver, Goto
<1>26. CASE UNCHANGED vars
  BY <1>26 DEF vars
<1>27. QED
  BY <1>1, <1>2, <1>3, <1>4, <1>5, <1>6, <1>7, <1>8, <1>9, <1>10, <1>11, <1>12, <1>13, <1>14, <1>15, <1>16, <1>17, <1>18, <1>19, <1>20, <1>21, <1>22, <1>23, <1>24, <1>25, <1>26 DEF Next, Step, Fault

\* A job row never disappears, except with its post.
LEMMA RecordedStep ==
  TypeOK /\ [Next]_vars => (\A n \in Messages : Recorded(n) => Recorded(n)')
<1> SUFFICES ASSUME TypeOK, [Next]_vars PROVE (\A n \in Messages : Recorded(n) => Recorded(n)')
  OBVIOUS
<1> USE DEF rows, platform, locals, budgets, TypeOK, Recorded
<1>1. ASSUME NEW t \in Targets, Dispatch(t) PROVE (\A n \in Messages : Recorded(n) => Recorded(n)')
  BY <1>1, MessageFacts DEF Dispatch, T
<1>2. ASSUME NEW t \in Targets, AdminMarkFailed(t) PROVE (\A n \in Messages : Recorded(n) => Recorded(n)')
  BY <1>2, MessageFacts DEF AdminMarkFailed, T
<1>3. ASSUME NEW t \in Targets, AdminReschedule(t) PROVE (\A n \in Messages : Recorded(n) => Recorded(n)')
  BY <1>3, MessageFacts DEF AdminReschedule, T
<1>4. ASSUME NEW p \in Posts, DeletePost(p) PROVE (\A n \in Messages : Recorded(n) => Recorded(n)')
  BY <1>4, MessageFacts DEF DeletePost, T
<1>5. ASSUME NEW w \in Workers, NEW m \in Messages, Receive(w, m) PROVE (\A n \in Messages : Recorded(n) => Recorded(n)')
  BY <1>5, MessageFacts DEF Receive, T
<1>6. ASSUME NEW w \in Workers, Fetch(w) PROVE (\A n \in Messages : Recorded(n) => Recorded(n)')
  BY <1>6, MessageFacts DEF Fetch, T
<1>7. ASSUME NEW w \in Workers, Cleanup(w) PROVE (\A n \in Messages : Recorded(n) => Recorded(n)')
  BY <1>7, MessageFacts DEF Cleanup, T
<1>8. ASSUME NEW w \in Workers, Reset(w) PROVE (\A n \in Messages : Recorded(n) => Recorded(n)')
  BY <1>8, MessageFacts DEF Reset, T
<1>9. ASSUME NEW w \in Workers, Create(w) PROVE (\A n \in Messages : Recorded(n) => Recorded(n)')
  BY <1>9, MessageFacts DEF Create, T
<1>10. ASSUME NEW w \in Workers, MarkRunning(w) PROVE (\A n \in Messages : Recorded(n) => Recorded(n)')
  BY <1>10, MessageFacts DEF MarkRunning, Raise, T
<1>11. ASSUME NEW w \in Workers, SetPublishing(w) PROVE (\A n \in Messages : Recorded(n) => Recorded(n)')
  BY <1>11, MessageFacts DEF SetPublishing, T
<1>12. ASSUME NEW w \in Workers, SyncRead(w) PROVE (\A n \in Messages : Recorded(n) => Recorded(n)')
  BY <1>12, MessageFacts DEF SyncRead, T
<1>13. ASSUME NEW w \in Workers, SyncWrite(w) PROVE (\A n \in Messages : Recorded(n) => Recorded(n)')
  BY <1>13, MessageFacts DEF SyncWrite, T
<1>14. ASSUME NEW w \in Workers, CallPublish(w) PROVE (\A n \in Messages : Recorded(n) => Recorded(n)')
  BY <1>14, MessageFacts DEF CallPublish, T
<1>15. ASSUME NEW w \in Workers, MarkSuccess(w) PROVE (\A n \in Messages : Recorded(n) => Recorded(n)')
  BY <1>15, MessageFacts DEF MarkSuccess, T
<1>16. ASSUME NEW w \in Workers, MarkPublished(w) PROVE (\A n \in Messages : Recorded(n) => Recorded(n)')
  BY <1>16, MessageFacts DEF MarkPublished, T
<1>17. ASSUME NEW w \in Workers, MarkFailed(w) PROVE (\A n \in Messages : Recorded(n) => Recorded(n)')
  BY <1>17, MessageFacts DEF MarkFailed, T
<1>18. ASSUME NEW w \in Workers, MarkTargetFailed(w) PROVE (\A n \in Messages : Recorded(n) => Recorded(n)')
  BY <1>18, MessageFacts DEF MarkTargetFailed, T
<1>19. ASSUME NEW w \in Workers, SendRetry(w) PROVE (\A n \in Messages : Recorded(n) => Recorded(n)')
  BY <1>19, MessageFacts DEF SendRetry, T
<1>20. ASSUME NEW w \in Workers, OnFailure(w) PROVE (\A n \in Messages : Recorded(n) => Recorded(n)')
  BY <1>20, MessageFacts DEF OnFailure, T
<1>21. ASSUME NEW w \in Workers, RowGone(w) PROVE (\A n \in Messages : Recorded(n) => Recorded(n)')
  BY <1>21, MessageFacts DEF RowGone, Raise, T
<1>22. ASSUME NEW w \in Workers, Ack(w) PROVE (\A n \in Messages : Recorded(n) => Recorded(n)')
  BY <1>22, MessageFacts DEF Ack, T
<1>23. ASSUME NEW w \in Workers, Error(w) PROVE (\A n \in Messages : Recorded(n) => Recorded(n)')
  BY <1>23, MessageFacts DEF Error, Raise, T
<1>24. ASSUME NEW w \in Workers, Crash(w) PROVE (\A n \in Messages : Recorded(n) => Recorded(n)')
  BY <1>24, MessageFacts DEF Crash, T
<1>25. ASSUME NEW w \in Workers, Redeliver(w) PROVE (\A n \in Messages : Recorded(n) => Recorded(n)')
  BY <1>25, MessageFacts DEF Redeliver, T
<1>26. CASE UNCHANGED vars
  BY <1>26 DEF vars, T
<1>27. QED
  BY <1>1, <1>2, <1>3, <1>4, <1>5, <1>6, <1>7, <1>8, <1>9, <1>10, <1>11, <1>12, <1>13, <1>14, <1>15, <1>16, <1>17, <1>18, <1>19, <1>20, <1>21, <1>22, <1>23, <1>24, <1>25, <1>26 DEF Next, Step, Fault

\* Only the call to the platform changes what the platform said.
LEMMA AnswersFrame ==
  TypeOK /\ [Next]_vars => (UNCHANGED platform \/ \E w \in Workers : CallPublish(w))
<1> SUFFICES ASSUME TypeOK, [Next]_vars PROVE (UNCHANGED platform \/ \E w \in Workers : CallPublish(w))
  OBVIOUS
<1> USE DEF rows, platform, locals, budgets
<1>1. ASSUME NEW t \in Targets, Dispatch(t) PROVE (UNCHANGED platform \/ \E w \in Workers : CallPublish(w))
  BY <1>1 DEF Dispatch
<1>2. ASSUME NEW t \in Targets, AdminMarkFailed(t) PROVE (UNCHANGED platform \/ \E w \in Workers : CallPublish(w))
  BY <1>2 DEF AdminMarkFailed
<1>3. ASSUME NEW t \in Targets, AdminReschedule(t) PROVE (UNCHANGED platform \/ \E w \in Workers : CallPublish(w))
  BY <1>3 DEF AdminReschedule
<1>4. ASSUME NEW p \in Posts, DeletePost(p) PROVE (UNCHANGED platform \/ \E w \in Workers : CallPublish(w))
  BY <1>4 DEF DeletePost
<1>5. ASSUME NEW w \in Workers, NEW m \in Messages, Receive(w, m) PROVE (UNCHANGED platform \/ \E x \in Workers : CallPublish(x))
  BY <1>5 DEF Receive
<1>6. ASSUME NEW w \in Workers, Fetch(w) PROVE (UNCHANGED platform \/ \E x \in Workers : CallPublish(x))
  BY <1>6 DEF Fetch
<1>7. ASSUME NEW w \in Workers, Cleanup(w) PROVE (UNCHANGED platform \/ \E x \in Workers : CallPublish(x))
  BY <1>7 DEF Cleanup
<1>8. ASSUME NEW w \in Workers, Reset(w) PROVE (UNCHANGED platform \/ \E x \in Workers : CallPublish(x))
  BY <1>8 DEF Reset
<1>9. ASSUME NEW w \in Workers, Create(w) PROVE (UNCHANGED platform \/ \E x \in Workers : CallPublish(x))
  BY <1>9 DEF Create
<1>10. ASSUME NEW w \in Workers, MarkRunning(w) PROVE (UNCHANGED platform \/ \E x \in Workers : CallPublish(x))
  BY <1>10 DEF MarkRunning
<1>11. ASSUME NEW w \in Workers, SetPublishing(w) PROVE (UNCHANGED platform \/ \E x \in Workers : CallPublish(x))
  BY <1>11 DEF SetPublishing
<1>12. ASSUME NEW w \in Workers, SyncRead(w) PROVE (UNCHANGED platform \/ \E x \in Workers : CallPublish(x))
  BY <1>12 DEF SyncRead
<1>13. ASSUME NEW w \in Workers, SyncWrite(w) PROVE (UNCHANGED platform \/ \E x \in Workers : CallPublish(x))
  BY <1>13 DEF SyncWrite
<1>14. ASSUME NEW w \in Workers, CallPublish(w) PROVE (UNCHANGED platform \/ \E x \in Workers : CallPublish(x))
  BY <1>14
<1>15. ASSUME NEW w \in Workers, MarkSuccess(w) PROVE (UNCHANGED platform \/ \E x \in Workers : CallPublish(x))
  BY <1>15 DEF MarkSuccess
<1>16. ASSUME NEW w \in Workers, MarkPublished(w) PROVE (UNCHANGED platform \/ \E x \in Workers : CallPublish(x))
  BY <1>16 DEF MarkPublished
<1>17. ASSUME NEW w \in Workers, MarkFailed(w) PROVE (UNCHANGED platform \/ \E x \in Workers : CallPublish(x))
  BY <1>17 DEF MarkFailed
<1>18. ASSUME NEW w \in Workers, MarkTargetFailed(w) PROVE (UNCHANGED platform \/ \E x \in Workers : CallPublish(x))
  BY <1>18 DEF MarkTargetFailed
<1>19. ASSUME NEW w \in Workers, SendRetry(w) PROVE (UNCHANGED platform \/ \E x \in Workers : CallPublish(x))
  BY <1>19 DEF SendRetry
<1>20. ASSUME NEW w \in Workers, OnFailure(w) PROVE (UNCHANGED platform \/ \E x \in Workers : CallPublish(x))
  BY <1>20 DEF OnFailure
<1>21. ASSUME NEW w \in Workers, RowGone(w) PROVE (UNCHANGED platform \/ \E x \in Workers : CallPublish(x))
  BY <1>21 DEF RowGone
<1>22. ASSUME NEW w \in Workers, Ack(w) PROVE (UNCHANGED platform \/ \E x \in Workers : CallPublish(x))
  BY <1>22 DEF Ack
<1>23. ASSUME NEW w \in Workers, Error(w) PROVE (UNCHANGED platform \/ \E x \in Workers : CallPublish(x))
  BY <1>23 DEF Error
<1>24. ASSUME NEW w \in Workers, Crash(w) PROVE (UNCHANGED platform \/ \E x \in Workers : CallPublish(x))
  BY <1>24 DEF Crash
<1>25. ASSUME NEW w \in Workers, Redeliver(w) PROVE (UNCHANGED platform \/ \E x \in Workers : CallPublish(x))
  BY <1>25 DEF Redeliver
<1>26. CASE UNCHANGED vars
  BY <1>26 DEF vars
<1>27. QED
  BY <1>1, <1>2, <1>3, <1>4, <1>5, <1>6, <1>7, <1>8, <1>9, <1>10, <1>11, <1>12, <1>13, <1>14, <1>15, <1>16, <1>17, <1>18, <1>19, <1>20, <1>21, <1>22, <1>23, <1>24, <1>25, <1>26 DEF Next, Step, Fault

\* An answer, once given, is final: a worker calls the platform only for an
\* attempt that has none.
LEMMA AnswersStep ==
  ASSUME TypeOK, PhaseInv, ClaimInv, [Next]_vars
  PROVE  /\ \A n \in Messages : answers[n] # "none" => answers'[n] = answers[n]
         /\ \A n \in Messages : Refused(n) => Refused(n)'
<1>1. \A n \in Messages : answers[n] # "none" => answers'[n] = answers[n]
  <2>1. CASE UNCHANGED platform
    BY <2>1 DEF platform
  <2>2. ASSUME NEW w \in Workers, CallPublish(w)
        PROVE  \A n \in Messages : answers[n] # "none" => answers'[n] = answers[n]
    <3>1. answers[msg[w]] = "none"
      BY <2>2 DEF CallPublish, PhaseInv, ClaimInv, Claiming
    <3>2. QED BY <2>2, <3>1 DEF CallPublish, TypeOK
  <2>3. QED BY <2>1, <2>2, AnswersFrame
<1>2. ASSUME NEW n \in Messages, Refused(n) PROVE Refused(n)'
  <2>1. ASSUME NEW k \in Attempts, k < n[2] PROVE answers'[<<n[1], k>>] = "fail"
    <3>1. <<n[1], k>> \in Messages /\ answers[<<n[1], k>>] = "fail"
      BY <1>2, <2>1 DEF Refused, Messages
    <3>2. QED BY <3>1, <1>1
  <2>2. QED BY <2>1 DEF Refused
<1>3. QED BY <1>1, <1>2

\* A worker becomes a claimant only by inserting its job.
LEMMA ClaimFrame ==
  TypeOK /\ PhaseInv /\ [Next]_vars => ((\A v \in Workers : Claiming(v)' => Claiming(v) /\ msg'[v] = msg[v])
    \/ \E w \in Workers : Create(w) \/ CallPublish(w))
<1> SUFFICES ASSUME TypeOK, PhaseInv, [Next]_vars PROVE ((\A v \in Workers : Claiming(v)' => Claiming(v) /\ msg'[v] = msg[v])
    \/ \E w \in Workers : Create(w) \/ CallPublish(w))
  OBVIOUS
<1> USE DEF rows, platform, locals, budgets, TypeOK, PhaseInv, Claiming
<1>1. ASSUME NEW t \in Targets, Dispatch(t) PROVE ((\A v \in Workers : Claiming(v)' => Claiming(v) /\ msg'[v] = msg[v])
    \/ \E w \in Workers : Create(w) \/ CallPublish(w))
  BY <1>1 DEF Dispatch, Goto
<1>2. ASSUME NEW t \in Targets, AdminMarkFailed(t) PROVE ((\A v \in Workers : Claiming(v)' => Claiming(v) /\ msg'[v] = msg[v])
    \/ \E w \in Workers : Create(w) \/ CallPublish(w))
  BY <1>2 DEF AdminMarkFailed, Goto
<1>3. ASSUME NEW t \in Targets, AdminReschedule(t) PROVE ((\A v \in Workers : Claiming(v)' => Claiming(v) /\ msg'[v] = msg[v])
    \/ \E w \in Workers : Create(w) \/ CallPublish(w))
  BY <1>3 DEF AdminReschedule, Goto
<1>4. ASSUME NEW p \in Posts, DeletePost(p) PROVE ((\A v \in Workers : Claiming(v)' => Claiming(v) /\ msg'[v] = msg[v])
    \/ \E w \in Workers : Create(w) \/ CallPublish(w))
  BY <1>4 DEF DeletePost, Goto
<1>5. ASSUME NEW w \in Workers, NEW m \in Messages, Receive(w, m) PROVE ((\A v \in Workers : Claiming(v)' => Claiming(v) /\ msg'[v] = msg[v])
    \/ \E x \in Workers : Create(x) \/ CallPublish(x))
  BY <1>5 DEF Receive, Goto
<1>6. ASSUME NEW w \in Workers, Fetch(w) PROVE ((\A v \in Workers : Claiming(v)' => Claiming(v) /\ msg'[v] = msg[v])
    \/ \E x \in Workers : Create(x) \/ CallPublish(x))
  BY <1>6 DEF Fetch, Goto
<1>7. ASSUME NEW w \in Workers, Cleanup(w) PROVE ((\A v \in Workers : Claiming(v)' => Claiming(v) /\ msg'[v] = msg[v])
    \/ \E x \in Workers : Create(x) \/ CallPublish(x))
  BY <1>7 DEF Cleanup, Goto
<1>8. ASSUME NEW w \in Workers, Reset(w) PROVE ((\A v \in Workers : Claiming(v)' => Claiming(v) /\ msg'[v] = msg[v])
    \/ \E x \in Workers : Create(x) \/ CallPublish(x))
  BY <1>8 DEF Reset, Goto
<1>9. ASSUME NEW w \in Workers, Create(w) PROVE ((\A v \in Workers : Claiming(v)' => Claiming(v) /\ msg'[v] = msg[v])
    \/ \E x \in Workers : Create(x) \/ CallPublish(x))
  BY <1>9
<1>10. ASSUME NEW w \in Workers, MarkRunning(w) PROVE ((\A v \in Workers : Claiming(v)' => Claiming(v) /\ msg'[v] = msg[v])
    \/ \E x \in Workers : Create(x) \/ CallPublish(x))
  BY <1>10 DEF MarkRunning, Goto, Raise
<1>11. ASSUME NEW w \in Workers, SetPublishing(w) PROVE ((\A v \in Workers : Claiming(v)' => Claiming(v) /\ msg'[v] = msg[v])
    \/ \E x \in Workers : Create(x) \/ CallPublish(x))
  BY <1>11 DEF SetPublishing, Goto
<1>12. ASSUME NEW w \in Workers, SyncRead(w) PROVE ((\A v \in Workers : Claiming(v)' => Claiming(v) /\ msg'[v] = msg[v])
    \/ \E x \in Workers : Create(x) \/ CallPublish(x))
  BY <1>12 DEF SyncRead, Goto
<1>13. ASSUME NEW w \in Workers, SyncWrite(w) PROVE ((\A v \in Workers : Claiming(v)' => Claiming(v) /\ msg'[v] = msg[v])
    \/ \E x \in Workers : Create(x) \/ CallPublish(x))
  BY <1>13 DEF SyncWrite, Goto
<1>14. ASSUME NEW w \in Workers, CallPublish(w) PROVE ((\A v \in Workers : Claiming(v)' => Claiming(v) /\ msg'[v] = msg[v])
    \/ \E x \in Workers : Create(x) \/ CallPublish(x))
  BY <1>14
<1>15. ASSUME NEW w \in Workers, MarkSuccess(w) PROVE ((\A v \in Workers : Claiming(v)' => Claiming(v) /\ msg'[v] = msg[v])
    \/ \E x \in Workers : Create(x) \/ CallPublish(x))
  BY <1>15 DEF MarkSuccess, Goto
<1>16. ASSUME NEW w \in Workers, MarkPublished(w) PROVE ((\A v \in Workers : Claiming(v)' => Claiming(v) /\ msg'[v] = msg[v])
    \/ \E x \in Workers : Create(x) \/ CallPublish(x))
  BY <1>16 DEF MarkPublished, Goto
<1>17. ASSUME NEW w \in Workers, MarkFailed(w) PROVE ((\A v \in Workers : Claiming(v)' => Claiming(v) /\ msg'[v] = msg[v])
    \/ \E x \in Workers : Create(x) \/ CallPublish(x))
  BY <1>17 DEF MarkFailed, Goto
<1>18. ASSUME NEW w \in Workers, MarkTargetFailed(w) PROVE ((\A v \in Workers : Claiming(v)' => Claiming(v) /\ msg'[v] = msg[v])
    \/ \E x \in Workers : Create(x) \/ CallPublish(x))
  BY <1>18 DEF MarkTargetFailed, Goto
<1>19. ASSUME NEW w \in Workers, SendRetry(w) PROVE ((\A v \in Workers : Claiming(v)' => Claiming(v) /\ msg'[v] = msg[v])
    \/ \E x \in Workers : Create(x) \/ CallPublish(x))
  BY <1>19 DEF SendRetry, Goto
<1>20. ASSUME NEW w \in Workers, OnFailure(w) PROVE ((\A v \in Workers : Claiming(v)' => Claiming(v) /\ msg'[v] = msg[v])
    \/ \E x \in Workers : Create(x) \/ CallPublish(x))
  BY <1>20 DEF OnFailure, Goto
<1>21. ASSUME NEW w \in Workers, RowGone(w) PROVE ((\A v \in Workers : Claiming(v)' => Claiming(v) /\ msg'[v] = msg[v])
    \/ \E x \in Workers : Create(x) \/ CallPublish(x))
  BY <1>21 DEF RowGone, Goto, Raise
<1>22. ASSUME NEW w \in Workers, Ack(w) PROVE ((\A v \in Workers : Claiming(v)' => Claiming(v) /\ msg'[v] = msg[v])
    \/ \E x \in Workers : Create(x) \/ CallPublish(x))
  BY <1>22 DEF Ack, Goto
<1>23. ASSUME NEW w \in Workers, Error(w) PROVE ((\A v \in Workers : Claiming(v)' => Claiming(v) /\ msg'[v] = msg[v])
    \/ \E x \in Workers : Create(x) \/ CallPublish(x))
  BY <1>23 DEF Error, Goto, Raise
<1>24. ASSUME NEW w \in Workers, Crash(w) PROVE ((\A v \in Workers : Claiming(v)' => Claiming(v) /\ msg'[v] = msg[v])
    \/ \E x \in Workers : Create(x) \/ CallPublish(x))
  BY <1>24 DEF Crash, Goto
<1>25. ASSUME NEW w \in Workers, Redeliver(w) PROVE ((\A v \in Workers : Claiming(v)' => Claiming(v) /\ msg'[v] = msg[v])
    \/ \E x \in Workers : Create(x) \/ CallPublish(x))
  BY <1>25 DEF Redeliver, Goto
<1>26. CASE UNCHANGED vars
  BY <1>26 DEF vars
<1>27. QED
  BY <1>1, <1>2, <1>3, <1>4, <1>5, <1>6, <1>7, <1>8, <1>9, <1>10, <1>11, <1>12, <1>13, <1>14, <1>15, <1>16, <1>17, <1>18, <1>19, <1>20, <1>21, <1>22, <1>23, <1>24, <1>25, <1>26 DEF Next, Step, Fault

\* One claimant per attempt: the inserted celery_task_id was free, and its
\* attempt unanswered.
LEMMA ClaimStep ==
  ASSUME TypeOK, PhaseInv, ClaimInv, RefusedInv, [Next]_vars
  PROVE  ClaimInv'
<1>0. \A v \in Workers : Claiming(v) => msg[v] \in Messages
  BY DEF TypeOK, Claiming
<1>1. CASE \A v \in Workers : Claiming(v)' => Claiming(v) /\ msg'[v] = msg[v]
  <2>1. CASE UNCHANGED platform
    BY <1>0, <1>1, <2>1, RecordedStep DEF ClaimInv, platform
  <2>2. ASSUME NEW w \in Workers, CallPublish(w) PROVE ClaimInv'
    <3>1. Claiming(w) /\ ~Claiming(w)'
      BY <2>2 DEF CallPublish, Goto, Claiming, PhaseInv, TypeOK
    <3>2. \A v \in Workers : Claiming(v)' => msg[v] # msg[w]
      BY <1>1, <3>1 DEF ClaimInv
    <3>3. \A n \in Messages : n # msg[w] => answers'[n] = answers[n]
      BY <2>2 DEF CallPublish, TypeOK
    <3>4. QED BY <1>0, <1>1, <3>2, <3>3, RecordedStep DEF ClaimInv
  <2>3. QED BY <2>1, <2>2, AnswersFrame
<1>2. ASSUME NEW w \in Workers, Create(w) PROVE ClaimInv'
  <2>1. CASE ~Insertable(msg[w])
    BY <1>1, <1>2, <2>1 DEF Create, Goto, Claiming, TypeOK
  <2>2. CASE Insertable(msg[w])
    <3>1. msg[w] \in Messages /\ job[msg[w]] = "NONE" /\ target[msg[w][1]] # "GONE"
      BY <1>2, <2>2 DEF Create, Insertable, TypeOK
    <3>2. answers[msg[w]] = "none"
      BY <3>1 DEF RefusedInv, Recorded
    <3>3. \A v \in Workers : Claiming(v) => msg[v] # msg[w]
      BY <3>1 DEF ClaimInv, Recorded
    <3>4. job'[msg[w]] = "PENDING" /\ UNCHANGED <<answers, msg>>
          /\ \A v \in Workers : v # w => (Claiming(v)' => Claiming(v))
      BY <1>2, <2>2, <3>1 DEF Create, Goto, Claiming, TypeOK, platform
    <3>5. Recorded(msg[w])'
      BY <3>4 DEF Recorded
    <3>6. QED BY <1>0, <3>2, <3>3, <3>4, <3>5, RecordedStep DEF ClaimInv
  <2>3. QED BY <2>1, <2>2
<1>3. ASSUME NEW w \in Workers, CallPublish(w) PROVE ClaimInv'
  BY <1>1, <1>3 DEF CallPublish, Goto, Claiming, TypeOK
<1>4. QED BY <1>1, <1>2, <1>3, ClaimFrame

\* A message enters the queue as a first attempt, as the retry of a refused
\* one, or as a copy of a held one.
LEMMA QueueStep ==
  TypeOK /\ PhaseInv /\ RefusedInv /\ [Next]_vars => (\A m \in Messages : queue'[m] > 0 => Refused(m))
<1> SUFFICES ASSUME TypeOK, PhaseInv, RefusedInv, [Next]_vars PROVE (\A m \in Messages : queue'[m] > 0 => Refused(m))
  OBVIOUS
<1> USE DEF rows, platform, locals, budgets, RefusedInv
<1>1. ASSUME NEW t \in Targets, Dispatch(t) PROVE (\A m \in Messages : queue'[m] > 0 => Refused(m))
  <2>1. Refused(<<t, 0>>)
    BY DEF Refused, Attempts
  <2>2. \A n \in Messages : queue'[n] > 0 => queue[n] > 0 \/ n = <<t, 0>>
    BY <1>1 DEF Dispatch, TypeOK
  <2>3. QED BY <2>1, <2>2 DEF RefusedInv
<1>2. ASSUME NEW t \in Targets, AdminMarkFailed(t) PROVE (\A m \in Messages : queue'[m] > 0 => Refused(m))
  BY <1>2 DEF AdminMarkFailed
<1>3. ASSUME NEW t \in Targets, AdminReschedule(t) PROVE (\A m \in Messages : queue'[m] > 0 => Refused(m))
  BY <1>3 DEF AdminReschedule
<1>4. ASSUME NEW p \in Posts, DeletePost(p) PROVE (\A m \in Messages : queue'[m] > 0 => Refused(m))
  BY <1>4 DEF DeletePost
<1>5. ASSUME NEW w \in Workers, NEW m \in Messages, Receive(w, m) PROVE (\A n \in Messages : queue'[n] > 0 => Refused(n))
  BY <1>5 DEF Receive, RefusedInv, TypeOK
<1>6. ASSUME NEW w \in Workers, Fetch(w) PROVE (\A m \in Messages : queue'[m] > 0 => Refused(m))
  BY <1>6 DEF Fetch
<1>7. ASSUME NEW w \in Workers, Cleanup(w) PROVE (\A m \in Messages : queue'[m] > 0 => Refused(m))
  BY <1>7 DEF Cleanup
<1>8. ASSUME NEW w \in Workers, Reset(w) PROVE (\A m \in Messages : queue'[m] > 0 => Refused(m))
  BY <1>8 DEF Reset
<1>9. ASSUME NEW w \in Workers, Create(w) PROVE (\A m \in Messages : queue'[m] > 0 => Refused(m))
  BY <1>9 DEF Create
<1>10. ASSUME NEW w \in Workers, MarkRunning(w) PROVE (\A m \in Messages : queue'[m] > 0 => Refused(m))
  BY <1>10 DEF MarkRunning
<1>11. ASSUME NEW w \in Workers, SetPublishing(w) PROVE (\A m \in Messages : queue'[m] > 0 => Refused(m))
  BY <1>11 DEF SetPublishing
<1>12. ASSUME NEW w \in Workers, SyncRead(w) PROVE (\A m \in Messages : queue'[m] > 0 => Refused(m))
  BY <1>12 DEF SyncRead
<1>13. ASSUME NEW w \in Workers, SyncWrite(w) PROVE (\A m \in Messages : queue'[m] > 0 => Refused(m))
  BY <1>13 DEF SyncWrite
<1>14. ASSUME NEW w \in Workers, CallPublish(w) PROVE (\A m \in Messages : queue'[m] > 0 => Refused(m))
  BY <1>14 DEF CallPublish
<1>15. ASSUME NEW w \in Workers, MarkSuccess(w) PROVE (\A m \in Messages : queue'[m] > 0 => Refused(m))
  BY <1>15 DEF MarkSuccess
<1>16. ASSUME NEW w \in Workers, MarkPublished(w) PROVE (\A m \in Messages : queue'[m] > 0 => Refused(m))
  BY <1>16 DEF MarkPublished
<1>17. ASSUME NEW w \in Workers, MarkFailed(w) PROVE (\A m \in Messages : queue'[m] > 0 => Refused(m))
  BY <1>17 DEF MarkFailed
<1>18. ASSUME NEW w \in Workers, MarkTargetFailed(w) PROVE (\A m \in Messages : queue'[m] > 0 => Refused(m))
  BY <1>18 DEF MarkTargetFailed
<1>19. ASSUME NEW w \in Workers, SendRetry(w) PROVE (\A m \in Messages : queue'[m] > 0 => Refused(m))
  <2> DEFINE r == <<T(w), msg[w][2] + 1>>
  <2>1. Refused(msg[w]) /\ answers[msg[w]] = "fail" /\ msg[w] \in Messages
    BY <1>19 DEF SendRetry, RefusedInv, PhaseInv, TypeOK
  <2>2. ASSUME r \in Messages PROVE Refused(r)
    BY <2>1, <2>2, MessageFacts DEF Refused, T, Attempts
  <2>3. \A n \in Messages : queue'[n] > 0 => queue[n] > 0 \/ n = r
    BY <1>19 DEF SendRetry, TypeOK
  <2> HIDE DEF r
  <2>4. QED BY <2>2, <2>3 DEF RefusedInv
<1>20. ASSUME NEW w \in Workers, OnFailure(w) PROVE (\A m \in Messages : queue'[m] > 0 => Refused(m))
  BY <1>20 DEF OnFailure
<1>21. ASSUME NEW w \in Workers, RowGone(w) PROVE (\A m \in Messages : queue'[m] > 0 => Refused(m))
  BY <1>21 DEF RowGone
<1>22. ASSUME NEW w \in Workers, Ack(w) PROVE (\A m \in Messages : queue'[m] > 0 => Refused(m))
  BY <1>22 DEF Ack
<1>23. ASSUME NEW w \in Workers, Error(w) PROVE (\A m \in Messages : queue'[m] > 0 => Refused(m))
  BY <1>23 DEF Error
<1>24. ASSUME NEW w \in Workers, Crash(w) PROVE (\A m \in Messages : queue'[m] > 0 => Refused(m))
  <2>1. Refused(msg[w]) /\ msg[w] \in Messages
    BY <1>24 DEF Crash, RefusedInv, TypeOK
  <2>2. \A n \in Messages : queue'[n] > 0 => queue[n] > 0 \/ n = msg[w]
    BY <1>24 DEF Crash, TypeOK
  <2>3. QED BY <2>1, <2>2 DEF RefusedInv
<1>25. ASSUME NEW w \in Workers, Redeliver(w) PROVE (\A m \in Messages : queue'[m] > 0 => Refused(m))
  <2>1. Refused(msg[w]) /\ msg[w] \in Messages
    BY <1>25 DEF Redeliver, RefusedInv, TypeOK
  <2>2. \A n \in Messages : queue'[n] > 0 => queue[n] > 0 \/ n = msg[w]
    BY <1>25 DEF Redeliver, TypeOK
  <2>3. QED BY <2>1, <2>2 DEF RefusedInv
<1>26. CASE UNCHANGED vars
  BY <1>26 DEF vars
<1>27. QED
  BY <1>1, <1>2, <1>3, <1>4, <1>5, <1>6, <1>7, <1>8, <1>9, <1>10, <1>11, <1>12, <1>13, <1>14, <1>15, <1>16, <1>17, <1>18, <1>19, <1>20, <1>21, <1>22, <1>23, <1>24, <1>25, <1>26 DEF Next, Step, Fault

\* A worker holds the message it took from the queue until it is idle.
LEMMA HeldStep ==
  TypeOK /\ RefusedInv /\ [Next]_vars => (\A v \in Workers : pc'[v] # "idle" => msg'[v] \in Messages /\ Refused(msg'[v]))
<1> SUFFICES ASSUME TypeOK, RefusedInv, [Next]_vars PROVE (\A v \in Workers : pc'[v] # "idle" => msg'[v] \in Messages /\ Refused(msg'[v]))
  OBVIOUS
<1> USE DEF rows, platform, locals, budgets, TypeOK, RefusedInv
<1>1. ASSUME NEW t \in Targets, Dispatch(t) PROVE (\A v \in Workers : pc'[v] # "idle" => msg'[v] \in Messages /\ Refused(msg'[v]))
  BY <1>1 DEF Dispatch, Goto
<1>2. ASSUME NEW t \in Targets, AdminMarkFailed(t) PROVE (\A v \in Workers : pc'[v] # "idle" => msg'[v] \in Messages /\ Refused(msg'[v]))
  BY <1>2 DEF AdminMarkFailed, Goto
<1>3. ASSUME NEW t \in Targets, AdminReschedule(t) PROVE (\A v \in Workers : pc'[v] # "idle" => msg'[v] \in Messages /\ Refused(msg'[v]))
  BY <1>3 DEF AdminReschedule, Goto
<1>4. ASSUME NEW p \in Posts, DeletePost(p) PROVE (\A v \in Workers : pc'[v] # "idle" => msg'[v] \in Messages /\ Refused(msg'[v]))
  BY <1>4 DEF DeletePost, Goto
<1>5. ASSUME NEW w \in Workers, NEW m \in Messages, Receive(w, m) PROVE (\A v \in Workers : pc'[v] # "idle" => msg'[v] \in Messages /\ Refused(msg'[v]))
  BY <1>5 DEF Receive, Goto
<1>6. ASSUME NEW w \in Workers, Fetch(w) PROVE (\A v \in Workers : pc'[v] # "idle" => msg'[v] \in Messages /\ Refused(msg'[v]))
  BY <1>6 DEF Fetch, Goto
<1>7. ASSUME NEW w \in Workers, Cleanup(w) PROVE (\A v \in Workers : pc'[v] # "idle" => msg'[v] \in Messages /\ Refused(msg'[v]))
  BY <1>7 DEF Cleanup, Goto
<1>8. ASSUME NEW w \in Workers, Reset(w) PROVE (\A v \in Workers : pc'[v] # "idle" => msg'[v] \in Messages /\ Refused(msg'[v]))
  BY <1>8 DEF Reset, Goto
<1>9. ASSUME NEW w \in Workers, Create(w) PROVE (\A v \in Workers : pc'[v] # "idle" => msg'[v] \in Messages /\ Refused(msg'[v]))
  BY <1>9 DEF Create, Goto
<1>10. ASSUME NEW w \in Workers, MarkRunning(w) PROVE (\A v \in Workers : pc'[v] # "idle" => msg'[v] \in Messages /\ Refused(msg'[v]))
  BY <1>10 DEF MarkRunning, Goto, Raise
<1>11. ASSUME NEW w \in Workers, SetPublishing(w) PROVE (\A v \in Workers : pc'[v] # "idle" => msg'[v] \in Messages /\ Refused(msg'[v]))
  BY <1>11 DEF SetPublishing, Goto
<1>12. ASSUME NEW w \in Workers, SyncRead(w) PROVE (\A v \in Workers : pc'[v] # "idle" => msg'[v] \in Messages /\ Refused(msg'[v]))
  BY <1>12 DEF SyncRead, Goto
<1>13. ASSUME NEW w \in Workers, SyncWrite(w) PROVE (\A v \in Workers : pc'[v] # "idle" => msg'[v] \in Messages /\ Refused(msg'[v]))
  BY <1>13 DEF SyncWrite, Goto
<1>14. ASSUME NEW w \in Workers, CallPublish(w) PROVE (\A v \in Workers : pc'[v] # "idle" => msg'[v] \in Messages /\ Refused(msg'[v]))
  BY <1>14 DEF CallPublish, Goto
<1>15. ASSUME NEW w \in Workers, MarkSuccess(w) PROVE (\A v \in Workers : pc'[v] # "idle" => msg'[v] \in Messages /\ Refused(msg'[v]))
  BY <1>15 DEF MarkSuccess, Goto
<1>16. ASSUME NEW w \in Workers, MarkPublished(w) PROVE (\A v \in Workers : pc'[v] # "idle" => msg'[v] \in Messages /\ Refused(msg'[v]))
  BY <1>16 DEF MarkPublished, Goto
<1>17. ASSUME NEW w \in Workers, MarkFailed(w) PROVE (\A v \in Workers : pc'[v] # "idle" => msg'[v] \in Messages /\ Refused(msg'[v]))
  BY <1>17 DEF MarkFailed, Goto
<1>18. ASSUME NEW w \in Workers, MarkTargetFailed(w) PROVE (\A v \in Workers : pc'[v] # "idle" => msg'[v] \in Messages /\ Refused(msg'[v]))
  BY <1>18 DEF MarkTargetFailed, Goto
<1>19. ASSUME NEW w \in Workers, SendRetry(w) PROVE (\A v \in Workers : pc'[v] # "idle" => msg'[v] \in Messages /\ Refused(msg'[v]))
  BY <1>19 DEF SendRetry, Goto
<1>20. ASSUME NEW w \in Workers, OnFailure(w) PROVE (\A v \in Workers : pc'[v] # "idle" => msg'[v] \in Messages /\ Refused(msg'[v]))
  BY <1>20 DEF OnFailure, Goto
<1>21. ASSUME NEW w \in Workers, RowGone(w) PROVE (\A v \in Workers : pc'[v] # "idle" => msg'[v] \in Messages /\ Refused(msg'[v]))
  BY <1>21 DEF RowGone, Goto, Raise
<1>22. ASSUME NEW w \in Workers, Ack(w) PROVE (\A v \in Workers : pc'[v] # "idle" => msg'[v] \in Messages /\ Refused(msg'[v]))
  BY <1>22 DEF Ack, Goto
<1>23. ASSUME NEW w \in Workers, Error(w) PROVE (\A v \in Workers : pc'[v] # "idle" => msg'[v] \in Messages /\ Refused(msg'[v]))
  BY <1>23 DEF Error, Goto, Raise
<1>24. ASSUME NEW w \in Workers, Crash(w) PROVE (\A v \in Workers : pc'[v] # "idle" => msg'[v] \in Messages /\ Refused(msg'[v]))
  BY <1>24 DEF Crash, Goto
<1>25. ASSUME NEW w \in Workers, Redeliver(w) PROVE (\A v \in Workers : pc'[v] # "idle" => msg'[v] \in Messages /\ Refused(msg'[v]))
  BY <1>25 DEF Redeliver, Goto
<1>26. CASE UNCHANGED vars
  BY <1>26 DEF vars
<1>27. QED
  BY <1>1, <1>2, <1>3, <1>4, <1>5, <1>6, <1>7, <1>8, <1>9, <1>10, <1>11, <1>12, <1>13, <1>14, <1>15, <1>16, <1>17, <1>18, <1>19, <1>20, <1>21, <1>22, <1>23, <1>24, <1>25, <1>26 DEF Next, Step, Fault

\* mark_failed() and the retry follow a refusal of the platform.
LEMMA FailedStep ==
  TypeOK /\ PhaseInv /\ ClaimInv /\ RefusedInv /\ [Next]_vars => (\A v \in Workers : pc'[v] \in {"markFailed", "retry"} /\ phase'[v] = "end" => answers'[msg'[v]] = "fail")
<1> SUFFICES ASSUME TypeOK, PhaseInv, ClaimInv, RefusedInv, [Next]_vars PROVE (\A v \in Workers : pc'[v] \in {"markFailed", "retry"} /\ phase'[v] = "end" => answers'[msg'[v]] = "fail")
  OBVIOUS
<1> USE DEF rows, platform, locals, budgets, TypeOK, PhaseInv, RefusedInv
<1>1. ASSUME NEW t \in Targets, Dispatch(t) PROVE (\A v \in Workers : pc'[v] \in {"markFailed", "retry"} /\ phase'[v] = "end" => answers'[msg'[v]] = "fail")
  BY <1>1 DEF Dispatch, Goto
<1>2. ASSUME NEW t \in Targets, AdminMarkFailed(t) PROVE (\A v \in Workers : pc'[v] \in {"markFailed", "retry"} /\ phase'[v] = "end" => answers'[msg'[v]] = "fail")
  BY <1>2 DEF AdminMarkFailed, Goto
<1>3. ASSUME NEW t \in Targets, AdminReschedule(t) PROVE (\A v \in Workers : pc'[v] \in {"markFailed", "retry"} /\ phase'[v] = "end" => answers'[msg'[v]] = "fail")
  BY <1>3 DEF AdminReschedule, Goto
<1>4. ASSUME NEW p \in Posts, DeletePost(p) PROVE (\A v \in Workers : pc'[v] \in {"markFailed", "retry"} /\ phase'[v] = "end" => answers'[msg'[v]] = "fail")
  BY <1>4 DEF DeletePost, Goto
<1>5. ASSUME NEW w \in Workers, NEW m \in Messages, Receive(w, m) PROVE (\A v \in Workers : pc'[v] \in {"markFailed", "retry"} /\ phase'[v] = "end" => answers'[msg'[v]] = "fail")
  BY <1>5 DEF Receive, Goto
<1>6. ASSUME NEW w \in Workers, Fetch(w) PROVE (\A v \in Workers : pc'[v] \in {"markFailed", "retry"} /\ phase'[v] = "end" => answers'[msg'[v]] = "fail")
  BY <1>6 DEF Fetch, Goto
<1>7. ASSUME NEW w \in Workers, Cleanup(w) PROVE (\A v \in Workers : pc'[v] \in {"markFailed", "retry"} /\ phase'[v] = "end" => answers'[msg'[v]] = "fail")
  BY <1>7 DEF Cleanup, Goto
<1>8. ASSUME NEW w \in Workers, Reset(w) PROVE (\A v \in Workers : pc'[v] \in {"markFailed", "retry"} /\ phase'[v] = "end" => answers'[msg'[v]] = "fail")
  BY <1>8 DEF Reset, Goto
<1>9. ASSUME NEW w \in Workers, Create(w) PROVE (\A v \in Workers : pc'[v] \in {"markFailed", "retry"} /\ phase'[v] = "end" => answers'[msg'[v]] = "fail")
  BY <1>9 DEF Create, Goto
<1>10. ASSUME NEW w \in Workers, MarkRunning(w) PROVE (\A v \in Workers : pc'[v] \in {"markFailed", "retry"} /\ phase'[v] = "end" => answers'[msg'[v]] = "fail")
  BY <1>10 DEF MarkRunning, Goto, Raise
<1>11. ASSUME NEW w \in Workers, SetPublishing(w) PROVE (\A v \in Workers : pc'[v] \in {"markFailed", "retry"} /\ phase'[v] = "end" => answers'[msg'[v]] = "fail")
  BY <1>11 DEF SetPublishing, Goto
<1>12. ASSUME NEW w \in Workers, SyncRead(w) PROVE (\A v \in Workers : pc'[v] \in {"markFailed", "retry"} /\ phase'[v] = "end" => answers'[msg'[v]] = "fail")
  BY <1>12 DEF SyncRead, Goto
<1>13. ASSUME NEW w \in Workers, SyncWrite(w) PROVE (\A v \in Workers : pc'[v] \in {"markFailed", "retry"} /\ phase'[v] = "end" => answers'[msg'[v]] = "fail")
  BY <1>13 DEF SyncWrite, Goto
<1>14. ASSUME NEW w \in Workers, CallPublish(w) PROVE (\A v \in Workers : pc'[v] \in {"markFailed", "retry"} /\ phase'[v] = "end" => answers'[msg'[v]] = "fail")
  <2>1. answers[msg[w]] = "none" /\ msg[w] \in Messages
    BY <1>14 DEF CallPublish, ClaimInv, Claiming
  <2>2. \A v \in Workers : pc[v] \in {"markFailed", "retry"} /\ phase[v] = "end" => msg[v] # msg[w]
    BY <2>1
  <2>3. QED BY <1>14, <2>1, <2>2 DEF CallPublish, Goto
<1>15. ASSUME NEW w \in Workers, MarkSuccess(w) PROVE (\A v \in Workers : pc'[v] \in {"markFailed", "retry"} /\ phase'[v] = "end" => answers'[msg'[v]] = "fail")
  BY <1>15 DEF MarkSuccess, Goto
<1>16. ASSUME NEW w \in Workers, MarkPublished(w) PROVE (\A v \in Workers : pc'[v] \in {"markFailed", "retry"} /\ phase'[v] = "end" => answers'[msg'[v]] = "fail")
  BY <1>16 DEF MarkPublished, Goto
<1>17. ASSUME NEW w \in Workers, MarkFailed(w) PROVE (\A v \in Workers : pc'[v] \in {"markFailed", "retry"} /\ phase'[v] = "end" => answers'[msg'[v]] = "fail")
  BY <1>17 DEF MarkFailed, Goto
<1>18. ASSUME NEW w \in Workers, MarkTargetFailed(w) PROVE (\A v \in Workers : pc'[v] \in {"markFailed", "retry"} /\ phase'[v] = "end" => answers'[msg'[v]] = "fail")
  BY <1>18 DEF MarkTargetFailed, Goto
<1>19. ASSUME NEW w \in Workers, SendRetry(w) PROVE (\A v \in Workers : pc'[v] \in {"markFailed", "retry"} /\ phase'[v] = "end" => answers'[msg'[v]] = "fail")
  BY <1>19 DEF SendRetry, Goto
<1>20. ASSUME NEW w \in Workers, OnFailure(w) PROVE (\A v \in Workers : pc'[v] \in {"markFailed", "retry"} /\ phase'[v] = "end" => answers'[msg'[v]] = "fail")
  BY <1>20 DEF OnFailure, Goto
<1>21. ASSUME NEW w \in Workers, RowGone(w) PROVE (\A v \in Workers : pc'[v] \in {"markFailed", "retry"} /\ phase'[v] = "end" => answers'[msg'[v]] = "fail")
  BY <1>21 DEF RowGone, Goto, Raise
<1>22. ASSUME NEW w \in Workers, Ack(w) PROVE (\A v \in Workers : pc'[v] \in {"markFailed", "retry"} /\ phase'[v] = "end" => answers'[msg'[v]] = "fail")
  BY <1>22 DEF Ack, Goto
<1>23. ASSUME NEW w \in Workers, Error(w) PROVE (\A v \in Workers : pc'[v] \in {"markFailed", "retry"} /\ phase'[v] = "end" => answers'[msg'[v]] = "fail")
  BY <1>23 DEF Error, Goto, Raise
<1>24. ASSUME NEW w \in Workers, Crash(w) PROVE (\A v \in Workers : pc'[v] \in {"markFailed", "retry"} /\ phase'[v] = "end" => answers'[msg'[v]] = "fail")
  BY <1>24 DEF Crash, Goto
<1>25. ASSUME NEW w \in Workers, Redeliver(w) PROVE (\A v \in Workers : pc'[v] \in {"markFailed", "retry"} /\ phase'[v] = "end" => answers'[msg'[v]] = "fail")
  BY <1>25 DEF Redeliver, Goto
<1>26. CASE UNCHANGED vars
  BY <1>26 DEF vars
<1>27. QED
  BY <1>1, <1>2, <1>3, <1>4, <1>5, <1>6, <1>7, <1>8, <1>9, <1>10, <1>11, <1>12, <1>13, <1>14, <1>15, <1>16, <1>17, <1>18, <1>19, <1>20, <1>21, <1>22, <1>23, <1>24, <1>25, <1>26 DEF Next, Step, Fault

\* A message, a held one and an answered one have all earlier attempts refused.
LEMMA RefusedStep ==
  ASSUME TypeOK, PhaseInv, ClaimInv, RefusedInv, [Next]_vars
  PROVE  RefusedInv'
<1>1. \A n \in Messages : queue'[n] > 0 => Refused(n)'
  BY QueueStep, AnswersStep
<1>2. \A v \in Workers : pc'[v] # "idle" => Refused(msg[v])'
  <2>1. \A v \in Workers : pc'[v] # "idle" => msg'[v] \in Messages /\ Refused(msg'[v])
    BY HeldStep
  <2>2. ASSUME NEW n \in Messages, Refused(n) PROVE \A k \in Attempts : k < n[2] => answers'[<<n[1], k>>] = "fail"
    BY <2>2, AnswersStep DEF Refused
  <2>3. QED BY <2>1, <2>2 DEF Refused
<1>3. \A n \in Messages : answers'[n] # "none" => Recorded(n)' /\ Refused(n)'
  <2>1. CASE UNCHANGED platform
    BY <2>1, RecordedStep, AnswersStep DEF RefusedInv, platform
  <2>2. ASSUME NEW w \in Workers, CallPublish(w)
        PROVE  \A n \in Messages : answers'[n] # "none" => Recorded(n)' /\ Refused(n)'
    <3>1. Recorded(msg[w]) /\ Refused(msg[w]) /\ msg[w] \in Messages
      BY <2>2 DEF CallPublish, PhaseInv, ClaimInv, RefusedInv, Claiming, TypeOK
    <3>2. \A n \in Messages : answers'[n] # "none" => answers[n] # "none" \/ n = msg[w]
      BY <2>2 DEF CallPublish, TypeOK
    <3>3. \A n \in Messages : answers'[n] # "none" => Recorded(n) /\ Refused(n)
      BY <3>1, <3>2 DEF RefusedInv
    <3>4. QED BY <3>3, RecordedStep, AnswersStep
  <2>3. QED BY <2>1, <2>2, AnswersFrame
<1>4. QED BY <1>1, <1>2, <1>3, FailedStep DEF RefusedInv

\* When a worker calls the platform, no attempt of its target has succeeded:
\* the earlier ones were refused, and a later one would need this one refused.
LEMMA NothingDelivered ==
  ASSUME TypeOK, PhaseInv, ClaimInv, RefusedInv, CountInv,
         NEW w \in Workers, CallPublish(w)
  PROVE  delivered[T(w)] = 0
<1>1. msg[w] \in Messages /\ T(w) \in Targets /\ msg[w][2] \in Attempts /\ msg[w] = <<T(w), msg[w][2]>>
  BY MessageFacts DEF CallPublish, TypeOK, T
<1>2. answers[msg[w]] = "none" /\ Refused(msg[w])
  BY DEF CallPublish, PhaseInv, ClaimInv, RefusedInv, Claiming
<1>3. ASSUME NEW k \in Attempts PROVE answers[<<T(w), k>>] # "ok"
  <2>1. <<T(w), k>> \in Messages
    BY <1>1 DEF Messages
  <2>2. CASE k < msg[w][2]
    BY <1>2, <2>2 DEF Refused, T
  <2>3. CASE k = msg[w][2]
    BY <1>1, <1>2, <2>3
  <2>4. CASE k > msg[w][2]
    BY <1>1, <1>2, <2>1, <2>4 DEF RefusedInv, Refused
  <2>5. QED BY <1>1, <2>2, <2>3, <2>4 DEF Attempts
<1>4. QED BY <1>1, <1>3 DEF CountInv

\* The count of accepted posts is 1 exactly if some attempt succeeded.
LEMMA CountStep ==
  ASSUME TypeOK, PhaseInv, ClaimInv, RefusedInv, CountInv, [Next]_vars
  PROVE  CountInv' /\ (\A t \in Targets : delivered[t] = 1 => delivered'[t] = 1)
<1>1. CASE UNCHANGED platform
  BY <1>1 DEF platform, CountInv
<1>2. ASSUME NEW w \in Workers, CallPublish(w)
      PROVE  CountInv' /\ (\A t \in Targets : delivered[t] = 1 => delivered'[t] = 1)
  <2>1. msg[w] \in Messages /\ T(w) \in Targets /\ msg[w][2] \in Attempts /\ msg[w] = <<T(w), msg[w][2]>>
    BY <1>2, MessageFacts DEF CallPublish, TypeOK, T
  <2>2. delivered[T(w)] = 0 /\ answers[msg[w]] = "none"
    BY <1>2, NothingDelivered DEF CallPublish, PhaseInv, ClaimInv, Claiming
  <2>3. ASSUME NEW t \in Targets
        PROVE  /\ delivered'[t] \in {0, 1}
               /\ delivered[t] = 1 => delivered'[t] = 1
               /\ delivered'[t] = 1 <=> \E k \in Attempts : answers'[<<t, k>>] = "ok"
    <3>1. CASE t # T(w)
      <4>1. delivered'[t] = delivered[t]
        BY <1>2, <3>1 DEF CallPublish, TypeOK
      <4>2. \A k \in Attempts : answers'[<<t, k>>] = answers[<<t, k>>]
        BY <1>2, <2>1, <3>1 DEF CallPublish, TypeOK, Messages
      <4>3. QED BY <4>1, <4>2 DEF CountInv
    <3>2. CASE t = T(w) /\ answers' = [answers EXCEPT ![msg[w]] = "ok"]
                        /\ delivered' = [delivered EXCEPT ![T(w)] = @ + 1]
      <4>1. delivered'[t] = 1
        BY <2>1, <2>2, <3>2 DEF TypeOK
      <4>2. answers'[<<t, msg[w][2]>>] = "ok"
        BY <2>1, <3>2 DEF TypeOK
      <4>3. QED BY <2>1, <4>1, <4>2
    <3>3. CASE t = T(w) /\ answers' = [answers EXCEPT ![msg[w]] = "fail"] /\ UNCHANGED delivered
      <4>1. \A k \in Attempts : answers[<<t, k>>] # "ok"
        BY <2>2, <3>3 DEF CountInv
      <4>2. \A k \in Attempts : answers'[<<t, k>>] # "ok"
        BY <2>1, <3>3, <4>1 DEF TypeOK, Messages
      <4>3. delivered[t] = 0 /\ delivered'[t] = 0
        BY <2>2, <3>3
      <4>4. ~(delivered[t] = 1) /\ ~(delivered'[t] = 1) /\ delivered'[t] \in {0, 1}
        BY <4>3
      <4>5. ~\E k \in Attempts : answers'[<<t, k>>] = "ok"
        BY <4>2
      <4>6. QED BY <4>4, <4>5
    <3>4. QED BY <1>2, <3>1, <3>2, <3>3 DEF CallPublish
  <2>4. QED BY <2>3 DEF CountInv
<1>3. QED BY <1>1, <1>2, AnswersFrame

\* A post is computed as published only from published targets.
LEMMA AggregatePublished ==
  ASSUME NEW p, Aggregate(p) = "PUBLISHED", NEW t \in TargetsOf(p)
  PROVE  target[t] = "PUBLISHED"
  BY DEF Aggregate


\* The five parts of TruthInv, over the counts before the step.
LEMMA ShownStep ==
  TypeOK /\ TruthInv /\ [Next]_vars => (\A t \in Targets : target'[t] = "PUBLISHED" => delivered[t] = 1)
<1> SUFFICES ASSUME TypeOK, TruthInv, [Next]_vars PROVE (\A t \in Targets : target'[t] = "PUBLISHED" => delivered[t] = 1)
  OBVIOUS
<1> USE MessageFacts DEF rows, platform, locals, budgets, TypeOK, TruthInv, PublishedMeansDelivered, T, P
<1>1. ASSUME NEW t \in Targets, Dispatch(t) PROVE (\A s \in Targets : target'[s] = "PUBLISHED" => delivered[s] = 1)
  BY <1>1 DEF Dispatch, Goto
<1>2. ASSUME NEW t \in Targets, AdminMarkFailed(t) PROVE (\A s \in Targets : target'[s] = "PUBLISHED" => delivered[s] = 1)
  BY <1>2 DEF AdminMarkFailed, Goto
<1>3. ASSUME NEW t \in Targets, AdminReschedule(t) PROVE (\A s \in Targets : target'[s] = "PUBLISHED" => delivered[s] = 1)
  BY <1>3 DEF AdminReschedule, Goto
<1>4. ASSUME NEW p \in Posts, DeletePost(p) PROVE (\A t \in Targets : target'[t] = "PUBLISHED" => delivered[t] = 1)
  BY <1>4 DEF DeletePost, Goto
<1>5. ASSUME NEW w \in Workers, NEW m \in Messages, Receive(w, m) PROVE (\A t \in Targets : target'[t] = "PUBLISHED" => delivered[t] = 1)
  BY <1>5 DEF Receive, Goto
<1>6. ASSUME NEW w \in Workers, Fetch(w) PROVE (\A t \in Targets : target'[t] = "PUBLISHED" => delivered[t] = 1)
  BY <1>6 DEF Fetch, Goto
<1>7. ASSUME NEW w \in Workers, Cleanup(w) PROVE (\A t \in Targets : target'[t] = "PUBLISHED" => delivered[t] = 1)
  BY <1>7 DEF Cleanup, Goto
<1>8. ASSUME NEW w \in Workers, Reset(w) PROVE (\A t \in Targets : target'[t] = "PUBLISHED" => delivered[t] = 1)
  BY <1>8 DEF Reset, Goto
<1>9. ASSUME NEW w \in Workers, Create(w) PROVE (\A t \in Targets : target'[t] = "PUBLISHED" => delivered[t] = 1)
  BY <1>9 DEF Create, Goto
<1>10. ASSUME NEW w \in Workers, MarkRunning(w) PROVE (\A t \in Targets : target'[t] = "PUBLISHED" => delivered[t] = 1)
  BY <1>10 DEF MarkRunning, Goto, Raise
<1>11. ASSUME NEW w \in Workers, SetPublishing(w) PROVE (\A t \in Targets : target'[t] = "PUBLISHED" => delivered[t] = 1)
  BY <1>11 DEF SetPublishing, Goto
<1>12. ASSUME NEW w \in Workers, SyncRead(w) PROVE (\A t \in Targets : target'[t] = "PUBLISHED" => delivered[t] = 1)
  BY <1>12 DEF SyncRead, Goto
<1>13. ASSUME NEW w \in Workers, SyncWrite(w) PROVE (\A t \in Targets : target'[t] = "PUBLISHED" => delivered[t] = 1)
  BY <1>13 DEF SyncWrite, Goto
<1>14. ASSUME NEW w \in Workers, CallPublish(w) PROVE (\A t \in Targets : target'[t] = "PUBLISHED" => delivered[t] = 1)
  BY <1>14 DEF CallPublish, Goto
<1>15. ASSUME NEW w \in Workers, MarkSuccess(w) PROVE (\A t \in Targets : target'[t] = "PUBLISHED" => delivered[t] = 1)
  BY <1>15 DEF MarkSuccess, Goto
<1>16. ASSUME NEW w \in Workers, MarkPublished(w) PROVE (\A t \in Targets : target'[t] = "PUBLISHED" => delivered[t] = 1)
  BY <1>16 DEF MarkPublished, Goto
<1>17. ASSUME NEW w \in Workers, MarkFailed(w) PROVE (\A t \in Targets : target'[t] = "PUBLISHED" => delivered[t] = 1)
  BY <1>17 DEF MarkFailed, Goto
<1>18. ASSUME NEW w \in Workers, MarkTargetFailed(w) PROVE (\A t \in Targets : target'[t] = "PUBLISHED" => delivered[t] = 1)
  BY <1>18 DEF MarkTargetFailed, Goto
<1>19. ASSUME NEW w \in Workers, SendRetry(w) PROVE (\A t \in Targets : target'[t] = "PUBLISHED" => delivered[t] = 1)
  BY <1>19 DEF SendRetry, Goto
<1>20. ASSUME NEW w \in Workers, OnFailure(w) PROVE (\A t \in Targets : target'[t] = "PUBLISHED" => delivered[t] = 1)
  BY <1>20 DEF OnFailure, Goto
<1>21. ASSUME NEW w \in Workers, RowGone(w) PROVE (\A t \in Targets : target'[t] = "PUBLISHED" => delivered[t] = 1)
  BY <1>21 DEF RowGone, Goto, Raise
<1>22. ASSUME NEW w \in Workers, Ack(w) PROVE (\A t \in Targets : target'[t] = "PUBLISHED" => delivered[t] = 1)
  BY <1>22 DEF Ack, Goto
<1>23. ASSUME NEW w \in Workers, Error(w) PROVE (\A t \in Targets : target'[t] = "PUBLISHED" => delivered[t] = 1)
  BY <1>23 DEF Error, Goto, Raise
<1>24. ASSUME NEW w \in Workers, Crash(w) PROVE (\A t \in Targets : target'[t] = "PUBLISHED" => delivered[t] = 1)
  BY <1>24 DEF Crash, Goto
<1>25. ASSUME NEW w \in Workers, Redeliver(w) PROVE (\A t \in Targets : target'[t] = "PUBLISHED" => delivered[t] = 1)
  BY <1>25 DEF Redeliver, Goto
<1>26. CASE UNCHANGED vars
  BY <1>26 DEF vars
<1>27. QED
  BY <1>1, <1>2, <1>3, <1>4, <1>5, <1>6, <1>7, <1>8, <1>9, <1>10, <1>11, <1>12, <1>13, <1>14, <1>15, <1>16, <1>17, <1>18, <1>19, <1>20, <1>21, <1>22, <1>23, <1>24, <1>25, <1>26 DEF Next, Step, Fault

LEMMA JobStep ==
  TypeOK /\ TruthInv /\ [Next]_vars => (\A m \in Messages : job'[m] = "SUCCESS" => delivered[m[1]] = 1)
<1> SUFFICES ASSUME TypeOK, TruthInv, [Next]_vars PROVE (\A m \in Messages : job'[m] = "SUCCESS" => delivered[m[1]] = 1)
  OBVIOUS
<1> USE MessageFacts DEF rows, platform, locals, budgets, TypeOK, TruthInv, PublishedMeansDelivered, T, P
<1>1. ASSUME NEW t \in Targets, Dispatch(t) PROVE (\A m \in Messages : job'[m] = "SUCCESS" => delivered[m[1]] = 1)
  BY <1>1 DEF Dispatch, Goto
<1>2. ASSUME NEW t \in Targets, AdminMarkFailed(t) PROVE (\A m \in Messages : job'[m] = "SUCCESS" => delivered[m[1]] = 1)
  BY <1>2 DEF AdminMarkFailed, Goto
<1>3. ASSUME NEW t \in Targets, AdminReschedule(t) PROVE (\A m \in Messages : job'[m] = "SUCCESS" => delivered[m[1]] = 1)
  BY <1>3 DEF AdminReschedule, Goto
<1>4. ASSUME NEW p \in Posts, DeletePost(p) PROVE (\A m \in Messages : job'[m] = "SUCCESS" => delivered[m[1]] = 1)
  BY <1>4 DEF DeletePost, Goto
<1>5. ASSUME NEW w \in Workers, NEW m \in Messages, Receive(w, m) PROVE (\A n \in Messages : job'[n] = "SUCCESS" => delivered[n[1]] = 1)
  BY <1>5 DEF Receive, Goto
<1>6. ASSUME NEW w \in Workers, Fetch(w) PROVE (\A m \in Messages : job'[m] = "SUCCESS" => delivered[m[1]] = 1)
  BY <1>6 DEF Fetch, Goto
<1>7. ASSUME NEW w \in Workers, Cleanup(w) PROVE (\A m \in Messages : job'[m] = "SUCCESS" => delivered[m[1]] = 1)
  BY <1>7 DEF Cleanup, Goto
<1>8. ASSUME NEW w \in Workers, Reset(w) PROVE (\A m \in Messages : job'[m] = "SUCCESS" => delivered[m[1]] = 1)
  BY <1>8 DEF Reset, Goto
<1>9. ASSUME NEW w \in Workers, Create(w) PROVE (\A m \in Messages : job'[m] = "SUCCESS" => delivered[m[1]] = 1)
  BY <1>9 DEF Create, Goto
<1>10. ASSUME NEW w \in Workers, MarkRunning(w) PROVE (\A m \in Messages : job'[m] = "SUCCESS" => delivered[m[1]] = 1)
  BY <1>10 DEF MarkRunning, Goto, Raise
<1>11. ASSUME NEW w \in Workers, SetPublishing(w) PROVE (\A m \in Messages : job'[m] = "SUCCESS" => delivered[m[1]] = 1)
  BY <1>11 DEF SetPublishing, Goto
<1>12. ASSUME NEW w \in Workers, SyncRead(w) PROVE (\A m \in Messages : job'[m] = "SUCCESS" => delivered[m[1]] = 1)
  BY <1>12 DEF SyncRead, Goto
<1>13. ASSUME NEW w \in Workers, SyncWrite(w) PROVE (\A m \in Messages : job'[m] = "SUCCESS" => delivered[m[1]] = 1)
  BY <1>13 DEF SyncWrite, Goto
<1>14. ASSUME NEW w \in Workers, CallPublish(w) PROVE (\A m \in Messages : job'[m] = "SUCCESS" => delivered[m[1]] = 1)
  BY <1>14 DEF CallPublish, Goto
<1>15. ASSUME NEW w \in Workers, MarkSuccess(w) PROVE (\A m \in Messages : job'[m] = "SUCCESS" => delivered[m[1]] = 1)
  BY <1>15 DEF MarkSuccess, Goto
<1>16. ASSUME NEW w \in Workers, MarkPublished(w) PROVE (\A m \in Messages : job'[m] = "SUCCESS" => delivered[m[1]] = 1)
  BY <1>16 DEF MarkPublished, Goto
<1>17. ASSUME NEW w \in Workers, MarkFailed(w) PROVE (\A m \in Messages : job'[m] = "SUCCESS" => delivered[m[1]] = 1)
  BY <1>17 DEF MarkFailed, Goto
<1>18. ASSUME NEW w \in Workers, MarkTargetFailed(w) PROVE (\A m \in Messages : job'[m] = "SUCCESS" => delivered[m[1]] = 1)
  BY <1>18 DEF MarkTargetFailed, Goto
<1>19. ASSUME NEW w \in Workers, SendRetry(w) PROVE (\A m \in Messages : job'[m] = "SUCCESS" => delivered[m[1]] = 1)
  BY <1>19 DEF SendRetry, Goto
<1>20. ASSUME NEW w \in Workers, OnFailure(w) PROVE (\A m \in Messages : job'[m] = "SUCCESS" => delivered[m[1]] = 1)
  BY <1>20 DEF OnFailure, Goto
<1>21. ASSUME NEW w \in Workers, RowGone(w) PROVE (\A m \in Messages : job'[m] = "SUCCESS" => delivered[m[1]] = 1)
  BY <1>21 DEF RowGone, Goto, Raise
<1>22. ASSUME NEW w \in Workers, Ack(w) PROVE (\A m \in Messages : job'[m] = "SUCCESS" => delivered[m[1]] = 1)
  BY <1>22 DEF Ack, Goto
<1>23. ASSUME NEW w \in Workers, Error(w) PROVE (\A m \in Messages : job'[m] = "SUCCESS" => delivered[m[1]] = 1)
  BY <1>23 DEF Error, Goto, Raise
<1>24. ASSUME NEW w \in Workers, Crash(w) PROVE (\A m \in Messages : job'[m] = "SUCCESS" => delivered[m[1]] = 1)
  BY <1>24 DEF Crash, Goto
<1>25. ASSUME NEW w \in Workers, Redeliver(w) PROVE (\A m \in Messages : job'[m] = "SUCCESS" => delivered[m[1]] = 1)
  BY <1>25 DEF Redeliver, Goto
<1>26. CASE UNCHANGED vars
  BY <1>26 DEF vars
<1>27. QED
  BY <1>1, <1>2, <1>3, <1>4, <1>5, <1>6, <1>7, <1>8, <1>9, <1>10, <1>11, <1>12, <1>13, <1>14, <1>15, <1>16, <1>17, <1>18, <1>19, <1>20, <1>21, <1>22, <1>23, <1>24, <1>25, <1>26 DEF Next, Step, Fault

LEMMA DatedStep ==
  TypeOK /\ TruthInv /\ [Next]_vars => (\A p \in Posts : publishedAt'[p] => \A t \in TargetsOf(p) : delivered[t] = 1)
<1> SUFFICES ASSUME TypeOK, TruthInv, [Next]_vars PROVE (\A p \in Posts : publishedAt'[p] => \A t \in TargetsOf(p) : delivered[t] = 1)
  OBVIOUS
<1> USE MessageFacts DEF rows, platform, locals, budgets, TypeOK, TruthInv, PublishedMeansDelivered, T, P
<1>1. ASSUME NEW t \in Targets, Dispatch(t) PROVE (\A p \in Posts : publishedAt'[p] => \A s \in TargetsOf(p) : delivered[s] = 1)
  BY <1>1 DEF Dispatch, Goto
<1>2. ASSUME NEW t \in Targets, AdminMarkFailed(t) PROVE (\A p \in Posts : publishedAt'[p] => \A s \in TargetsOf(p) : delivered[s] = 1)
  BY <1>2 DEF AdminMarkFailed, Goto
<1>3. ASSUME NEW t \in Targets, AdminReschedule(t) PROVE (\A p \in Posts : publishedAt'[p] => \A s \in TargetsOf(p) : delivered[s] = 1)
  BY <1>3 DEF AdminReschedule, Goto
<1>4. ASSUME NEW p \in Posts, DeletePost(p) PROVE (\A q \in Posts : publishedAt'[q] => \A t \in TargetsOf(q) : delivered[t] = 1)
  BY <1>4 DEF DeletePost, Goto
<1>5. ASSUME NEW w \in Workers, NEW m \in Messages, Receive(w, m) PROVE (\A p \in Posts : publishedAt'[p] => \A t \in TargetsOf(p) : delivered[t] = 1)
  BY <1>5 DEF Receive, Goto
<1>6. ASSUME NEW w \in Workers, Fetch(w) PROVE (\A p \in Posts : publishedAt'[p] => \A t \in TargetsOf(p) : delivered[t] = 1)
  BY <1>6 DEF Fetch, Goto
<1>7. ASSUME NEW w \in Workers, Cleanup(w) PROVE (\A p \in Posts : publishedAt'[p] => \A t \in TargetsOf(p) : delivered[t] = 1)
  BY <1>7 DEF Cleanup, Goto
<1>8. ASSUME NEW w \in Workers, Reset(w) PROVE (\A p \in Posts : publishedAt'[p] => \A t \in TargetsOf(p) : delivered[t] = 1)
  BY <1>8 DEF Reset, Goto
<1>9. ASSUME NEW w \in Workers, Create(w) PROVE (\A p \in Posts : publishedAt'[p] => \A t \in TargetsOf(p) : delivered[t] = 1)
  BY <1>9 DEF Create, Goto
<1>10. ASSUME NEW w \in Workers, MarkRunning(w) PROVE (\A p \in Posts : publishedAt'[p] => \A t \in TargetsOf(p) : delivered[t] = 1)
  BY <1>10 DEF MarkRunning, Goto, Raise
<1>11. ASSUME NEW w \in Workers, SetPublishing(w) PROVE (\A p \in Posts : publishedAt'[p] => \A t \in TargetsOf(p) : delivered[t] = 1)
  BY <1>11 DEF SetPublishing, Goto
<1>12. ASSUME NEW w \in Workers, SyncRead(w) PROVE (\A p \in Posts : publishedAt'[p] => \A t \in TargetsOf(p) : delivered[t] = 1)
  BY <1>12 DEF SyncRead, Goto
<1>13. ASSUME NEW w \in Workers, SyncWrite(w) PROVE (\A p \in Posts : publishedAt'[p] => \A t \in TargetsOf(p) : delivered[t] = 1)
  BY <1>13 DEF SyncWrite, Goto
<1>14. ASSUME NEW w \in Workers, CallPublish(w) PROVE (\A p \in Posts : publishedAt'[p] => \A t \in TargetsOf(p) : delivered[t] = 1)
  BY <1>14 DEF CallPublish, Goto
<1>15. ASSUME NEW w \in Workers, MarkSuccess(w) PROVE (\A p \in Posts : publishedAt'[p] => \A t \in TargetsOf(p) : delivered[t] = 1)
  BY <1>15 DEF MarkSuccess, Goto
<1>16. ASSUME NEW w \in Workers, MarkPublished(w) PROVE (\A p \in Posts : publishedAt'[p] => \A t \in TargetsOf(p) : delivered[t] = 1)
  BY <1>16 DEF MarkPublished, Goto
<1>17. ASSUME NEW w \in Workers, MarkFailed(w) PROVE (\A p \in Posts : publishedAt'[p] => \A t \in TargetsOf(p) : delivered[t] = 1)
  BY <1>17 DEF MarkFailed, Goto
<1>18. ASSUME NEW w \in Workers, MarkTargetFailed(w) PROVE (\A p \in Posts : publishedAt'[p] => \A t \in TargetsOf(p) : delivered[t] = 1)
  BY <1>18 DEF MarkTargetFailed, Goto
<1>19. ASSUME NEW w \in Workers, SendRetry(w) PROVE (\A p \in Posts : publishedAt'[p] => \A t \in TargetsOf(p) : delivered[t] = 1)
  BY <1>19 DEF SendRetry, Goto
<1>20. ASSUME NEW w \in Workers, OnFailure(w) PROVE (\A p \in Posts : publishedAt'[p] => \A t \in TargetsOf(p) : delivered[t] = 1)
  BY <1>20 DEF OnFailure, Goto
<1>21. ASSUME NEW w \in Workers, RowGone(w) PROVE (\A p \in Posts : publishedAt'[p] => \A t \in TargetsOf(p) : delivered[t] = 1)
  BY <1>21 DEF RowGone, Goto, Raise
<1>22. ASSUME NEW w \in Workers, Ack(w) PROVE (\A p \in Posts : publishedAt'[p] => \A t \in TargetsOf(p) : delivered[t] = 1)
  BY <1>22 DEF Ack, Goto
<1>23. ASSUME NEW w \in Workers, Error(w) PROVE (\A p \in Posts : publishedAt'[p] => \A t \in TargetsOf(p) : delivered[t] = 1)
  BY <1>23 DEF Error, Goto, Raise
<1>24. ASSUME NEW w \in Workers, Crash(w) PROVE (\A p \in Posts : publishedAt'[p] => \A t \in TargetsOf(p) : delivered[t] = 1)
  BY <1>24 DEF Crash, Goto
<1>25. ASSUME NEW w \in Workers, Redeliver(w) PROVE (\A p \in Posts : publishedAt'[p] => \A t \in TargetsOf(p) : delivered[t] = 1)
  BY <1>25 DEF Redeliver, Goto
<1>26. CASE UNCHANGED vars
  BY <1>26 DEF vars
<1>27. QED
  BY <1>1, <1>2, <1>3, <1>4, <1>5, <1>6, <1>7, <1>8, <1>9, <1>10, <1>11, <1>12, <1>13, <1>14, <1>15, <1>16, <1>17, <1>18, <1>19, <1>20, <1>21, <1>22, <1>23, <1>24, <1>25, <1>26 DEF Next, Step, Fault

LEMMA AcceptedStep ==
  TypeOK /\ PhaseInv /\ ClaimInv /\ RefusedInv /\ CountInv /\ TruthInv /\ [Next]_vars => (\A v \in Workers : pc'[v] \in {"markSuccess", "markPublished"} => delivered'[T(v)'] = 1)
<1> SUFFICES ASSUME TypeOK, PhaseInv, ClaimInv, RefusedInv, CountInv, TruthInv, [Next]_vars PROVE (\A v \in Workers : pc'[v] \in {"markSuccess", "markPublished"} => delivered'[T(v)'] = 1)
  OBVIOUS
<1> USE MessageFacts DEF rows, platform, locals, budgets, TypeOK, TruthInv, PublishedMeansDelivered, T, P
<1>1. ASSUME NEW t \in Targets, Dispatch(t) PROVE (\A v \in Workers : pc'[v] \in {"markSuccess", "markPublished"} => delivered'[T(v)'] = 1)
  BY <1>1 DEF Dispatch, Goto
<1>2. ASSUME NEW t \in Targets, AdminMarkFailed(t) PROVE (\A v \in Workers : pc'[v] \in {"markSuccess", "markPublished"} => delivered'[T(v)'] = 1)
  BY <1>2 DEF AdminMarkFailed, Goto
<1>3. ASSUME NEW t \in Targets, AdminReschedule(t) PROVE (\A v \in Workers : pc'[v] \in {"markSuccess", "markPublished"} => delivered'[T(v)'] = 1)
  BY <1>3 DEF AdminReschedule, Goto
<1>4. ASSUME NEW p \in Posts, DeletePost(p) PROVE (\A v \in Workers : pc'[v] \in {"markSuccess", "markPublished"} => delivered'[T(v)'] = 1)
  BY <1>4 DEF DeletePost, Goto
<1>5. ASSUME NEW w \in Workers, NEW m \in Messages, Receive(w, m) PROVE (\A v \in Workers : pc'[v] \in {"markSuccess", "markPublished"} => delivered'[T(v)'] = 1)
  BY <1>5 DEF Receive, Goto
<1>6. ASSUME NEW w \in Workers, Fetch(w) PROVE (\A v \in Workers : pc'[v] \in {"markSuccess", "markPublished"} => delivered'[T(v)'] = 1)
  BY <1>6 DEF Fetch, Goto
<1>7. ASSUME NEW w \in Workers, Cleanup(w) PROVE (\A v \in Workers : pc'[v] \in {"markSuccess", "markPublished"} => delivered'[T(v)'] = 1)
  BY <1>7 DEF Cleanup, Goto
<1>8. ASSUME NEW w \in Workers, Reset(w) PROVE (\A v \in Workers : pc'[v] \in {"markSuccess", "markPublished"} => delivered'[T(v)'] = 1)
  BY <1>8 DEF Reset, Goto
<1>9. ASSUME NEW w \in Workers, Create(w) PROVE (\A v \in Workers : pc'[v] \in {"markSuccess", "markPublished"} => delivered'[T(v)'] = 1)
  BY <1>9 DEF Create, Goto
<1>10. ASSUME NEW w \in Workers, MarkRunning(w) PROVE (\A v \in Workers : pc'[v] \in {"markSuccess", "markPublished"} => delivered'[T(v)'] = 1)
  BY <1>10 DEF MarkRunning, Goto, Raise
<1>11. ASSUME NEW w \in Workers, SetPublishing(w) PROVE (\A v \in Workers : pc'[v] \in {"markSuccess", "markPublished"} => delivered'[T(v)'] = 1)
  BY <1>11 DEF SetPublishing, Goto
<1>12. ASSUME NEW w \in Workers, SyncRead(w) PROVE (\A v \in Workers : pc'[v] \in {"markSuccess", "markPublished"} => delivered'[T(v)'] = 1)
  BY <1>12 DEF SyncRead, Goto
<1>13. ASSUME NEW w \in Workers, SyncWrite(w) PROVE (\A v \in Workers : pc'[v] \in {"markSuccess", "markPublished"} => delivered'[T(v)'] = 1)
  BY <1>13 DEF SyncWrite, Goto
<1>14. ASSUME NEW w \in Workers, CallPublish(w) PROVE (\A v \in Workers : pc'[v] \in {"markSuccess", "markPublished"} => delivered'[T(v)'] = 1)
  <2>1. T(w) \in Targets /\ delivered[T(w)] = 0 /\ delivered \in [Targets -> Nat]
    BY <1>14, MessageFacts, NothingDelivered DEF CallPublish, T
  <2>2. \A v \in Workers : pc[v] \in {"markSuccess", "markPublished"} => delivered[T(v)] = 1 /\ delivered'[T(v)] = 1
    BY <1>14, <2>1, CountStep DEF T
  <2>3. QED BY <1>14, <2>1, <2>2 DEF CallPublish, Goto
<1>15. ASSUME NEW w \in Workers, MarkSuccess(w) PROVE (\A v \in Workers : pc'[v] \in {"markSuccess", "markPublished"} => delivered'[T(v)'] = 1)
  BY <1>15 DEF MarkSuccess, Goto
<1>16. ASSUME NEW w \in Workers, MarkPublished(w) PROVE (\A v \in Workers : pc'[v] \in {"markSuccess", "markPublished"} => delivered'[T(v)'] = 1)
  BY <1>16 DEF MarkPublished, Goto
<1>17. ASSUME NEW w \in Workers, MarkFailed(w) PROVE (\A v \in Workers : pc'[v] \in {"markSuccess", "markPublished"} => delivered'[T(v)'] = 1)
  BY <1>17 DEF MarkFailed, Goto
<1>18. ASSUME NEW w \in Workers, MarkTargetFailed(w) PROVE (\A v \in Workers : pc'[v] \in {"markSuccess", "markPublished"} => delivered'[T(v)'] = 1)
  BY <1>18 DEF MarkTargetFailed, Goto
<1>19. ASSUME NEW w \in Workers, SendRetry(w) PROVE (\A v \in Workers : pc'[v] \in {"markSuccess", "markPublished"} => delivered'[T(v)'] = 1)
  BY <1>19 DEF SendRetry, Goto
<1>20. ASSUME NEW w \in Workers, OnFailure(w) PROVE (\A v \in Workers : pc'[v] \in {"markSuccess", "markPublished"} => delivered'[T(v)'] = 1)
  BY <1>20 DEF OnFailure, Goto
<1>21. ASSUME NEW w \in Workers, RowGone(w) PROVE (\A v \in Workers : pc'[v] \in {"markSuccess", "markPublished"} => delivered'[T(v)'] = 1)
  BY <1>21 DEF RowGone, Goto, Raise
<1>22. ASSUME NEW w \in Workers, Ack(w) PROVE (\A v \in Workers : pc'[v] \in {"markSuccess", "markPublished"} => delivered'[T(v)'] = 1)
  BY <1>22 DEF Ack, Goto
<1>23. ASSUME NEW w \in Workers, Error(w) PROVE (\A v \in Workers : pc'[v] \in {"markSuccess", "markPublished"} => delivered'[T(v)'] = 1)
  BY <1>23 DEF Error, Goto, Raise
<1>24. ASSUME NEW w \in Workers, Crash(w) PROVE (\A v \in Workers : pc'[v] \in {"markSuccess", "markPublished"} => delivered'[T(v)'] = 1)
  BY <1>24 DEF Crash, Goto
<1>25. ASSUME NEW w \in Workers, Redeliver(w) PROVE (\A v \in Workers : pc'[v] \in {"markSuccess", "markPublished"} => delivered'[T(v)'] = 1)
  BY <1>25 DEF Redeliver, Goto
<1>26. CASE UNCHANGED vars
  BY <1>26 DEF vars
<1>27. QED
  BY <1>1, <1>2, <1>3, <1>4, <1>5, <1>6, <1>7, <1>8, <1>9, <1>10, <1>11, <1>12, <1>13, <1>14, <1>15, <1>16, <1>17, <1>18, <1>19, <1>20, <1>21, <1>22, <1>23, <1>24, <1>25, <1>26 DEF Next, Step, Fault

LEMMA ComputedStep ==
  TypeOK /\ TruthInv /\ [Next]_vars => (\A v \in Workers : pc'[v] = "syncWrite" /\ val'[v] = "PUBLISHED" => \A t \in TargetsOf(P(v)') : delivered[t] = 1)
<1> SUFFICES ASSUME TypeOK, TruthInv, [Next]_vars PROVE (\A v \in Workers : pc'[v] = "syncWrite" /\ val'[v] = "PUBLISHED" => \A t \in TargetsOf(P(v)') : delivered[t] = 1)
  OBVIOUS
<1> USE MessageFacts DEF rows, platform, locals, budgets, TypeOK, TruthInv, PublishedMeansDelivered, T, P
<1>1. ASSUME NEW t \in Targets, Dispatch(t) PROVE (\A v \in Workers : pc'[v] = "syncWrite" /\ val'[v] = "PUBLISHED" => \A s \in TargetsOf(P(v)') : delivered[s] = 1)
  BY <1>1 DEF Dispatch, Goto
<1>2. ASSUME NEW t \in Targets, AdminMarkFailed(t) PROVE (\A v \in Workers : pc'[v] = "syncWrite" /\ val'[v] = "PUBLISHED" => \A s \in TargetsOf(P(v)') : delivered[s] = 1)
  BY <1>2 DEF AdminMarkFailed, Goto
<1>3. ASSUME NEW t \in Targets, AdminReschedule(t) PROVE (\A v \in Workers : pc'[v] = "syncWrite" /\ val'[v] = "PUBLISHED" => \A s \in TargetsOf(P(v)') : delivered[s] = 1)
  BY <1>3 DEF AdminReschedule, Goto
<1>4. ASSUME NEW p \in Posts, DeletePost(p) PROVE (\A v \in Workers : pc'[v] = "syncWrite" /\ val'[v] = "PUBLISHED" => \A t \in TargetsOf(P(v)') : delivered[t] = 1)
  BY <1>4 DEF DeletePost, Goto
<1>5. ASSUME NEW w \in Workers, NEW m \in Messages, Receive(w, m) PROVE (\A v \in Workers : pc'[v] = "syncWrite" /\ val'[v] = "PUBLISHED" => \A t \in TargetsOf(P(v)') : delivered[t] = 1)
  BY <1>5 DEF Receive, Goto
<1>6. ASSUME NEW w \in Workers, Fetch(w) PROVE (\A v \in Workers : pc'[v] = "syncWrite" /\ val'[v] = "PUBLISHED" => \A t \in TargetsOf(P(v)') : delivered[t] = 1)
  BY <1>6 DEF Fetch, Goto
<1>7. ASSUME NEW w \in Workers, Cleanup(w) PROVE (\A v \in Workers : pc'[v] = "syncWrite" /\ val'[v] = "PUBLISHED" => \A t \in TargetsOf(P(v)') : delivered[t] = 1)
  BY <1>7 DEF Cleanup, Goto
<1>8. ASSUME NEW w \in Workers, Reset(w) PROVE (\A v \in Workers : pc'[v] = "syncWrite" /\ val'[v] = "PUBLISHED" => \A t \in TargetsOf(P(v)') : delivered[t] = 1)
  BY <1>8 DEF Reset, Goto
<1>9. ASSUME NEW w \in Workers, Create(w) PROVE (\A v \in Workers : pc'[v] = "syncWrite" /\ val'[v] = "PUBLISHED" => \A t \in TargetsOf(P(v)') : delivered[t] = 1)
  BY <1>9 DEF Create, Goto
<1>10. ASSUME NEW w \in Workers, MarkRunning(w) PROVE (\A v \in Workers : pc'[v] = "syncWrite" /\ val'[v] = "PUBLISHED" => \A t \in TargetsOf(P(v)') : delivered[t] = 1)
  BY <1>10 DEF MarkRunning, Goto, Raise
<1>11. ASSUME NEW w \in Workers, SetPublishing(w) PROVE (\A v \in Workers : pc'[v] = "syncWrite" /\ val'[v] = "PUBLISHED" => \A t \in TargetsOf(P(v)') : delivered[t] = 1)
  BY <1>11 DEF SetPublishing, Goto
<1>12. ASSUME NEW w \in Workers, SyncRead(w) PROVE (\A v \in Workers : pc'[v] = "syncWrite" /\ val'[v] = "PUBLISHED" => \A t \in TargetsOf(P(v)') : delivered[t] = 1)
  <2>1. \A t \in TargetsOf(P(w)) : Aggregate(P(w)) = "PUBLISHED" => delivered[t] = 1
    BY AggregatePublished DEF TargetsOf
  <2>2. QED BY <1>12, <2>1 DEF SyncRead, Goto
<1>13. ASSUME NEW w \in Workers, SyncWrite(w) PROVE (\A v \in Workers : pc'[v] = "syncWrite" /\ val'[v] = "PUBLISHED" => \A t \in TargetsOf(P(v)') : delivered[t] = 1)
  BY <1>13 DEF SyncWrite, Goto
<1>14. ASSUME NEW w \in Workers, CallPublish(w) PROVE (\A v \in Workers : pc'[v] = "syncWrite" /\ val'[v] = "PUBLISHED" => \A t \in TargetsOf(P(v)') : delivered[t] = 1)
  BY <1>14 DEF CallPublish, Goto
<1>15. ASSUME NEW w \in Workers, MarkSuccess(w) PROVE (\A v \in Workers : pc'[v] = "syncWrite" /\ val'[v] = "PUBLISHED" => \A t \in TargetsOf(P(v)') : delivered[t] = 1)
  BY <1>15 DEF MarkSuccess, Goto
<1>16. ASSUME NEW w \in Workers, MarkPublished(w) PROVE (\A v \in Workers : pc'[v] = "syncWrite" /\ val'[v] = "PUBLISHED" => \A t \in TargetsOf(P(v)') : delivered[t] = 1)
  BY <1>16 DEF MarkPublished, Goto
<1>17. ASSUME NEW w \in Workers, MarkFailed(w) PROVE (\A v \in Workers : pc'[v] = "syncWrite" /\ val'[v] = "PUBLISHED" => \A t \in TargetsOf(P(v)') : delivered[t] = 1)
  BY <1>17 DEF MarkFailed, Goto
<1>18. ASSUME NEW w \in Workers, MarkTargetFailed(w) PROVE (\A v \in Workers : pc'[v] = "syncWrite" /\ val'[v] = "PUBLISHED" => \A t \in TargetsOf(P(v)') : delivered[t] = 1)
  BY <1>18 DEF MarkTargetFailed, Goto
<1>19. ASSUME NEW w \in Workers, SendRetry(w) PROVE (\A v \in Workers : pc'[v] = "syncWrite" /\ val'[v] = "PUBLISHED" => \A t \in TargetsOf(P(v)') : delivered[t] = 1)
  BY <1>19 DEF SendRetry, Goto
<1>20. ASSUME NEW w \in Workers, OnFailure(w) PROVE (\A v \in Workers : pc'[v] = "syncWrite" /\ val'[v] = "PUBLISHED" => \A t \in TargetsOf(P(v)') : delivered[t] = 1)
  BY <1>20 DEF OnFailure, Goto
<1>21. ASSUME NEW w \in Workers, RowGone(w) PROVE (\A v \in Workers : pc'[v] = "syncWrite" /\ val'[v] = "PUBLISHED" => \A t \in TargetsOf(P(v)') : delivered[t] = 1)
  BY <1>21 DEF RowGone, Goto, Raise
<1>22. ASSUME NEW w \in Workers, Ack(w) PROVE (\A v \in Workers : pc'[v] = "syncWrite" /\ val'[v] = "PUBLISHED" => \A t \in TargetsOf(P(v)') : delivered[t] = 1)
  BY <1>22 DEF Ack, Goto
<1>23. ASSUME NEW w \in Workers, Error(w) PROVE (\A v \in Workers : pc'[v] = "syncWrite" /\ val'[v] = "PUBLISHED" => \A t \in TargetsOf(P(v)') : delivered[t] = 1)
  BY <1>23 DEF Error, Goto, Raise
<1>24. ASSUME NEW w \in Workers, Crash(w) PROVE (\A v \in Workers : pc'[v] = "syncWrite" /\ val'[v] = "PUBLISHED" => \A t \in TargetsOf(P(v)') : delivered[t] = 1)
  BY <1>24 DEF Crash, Goto
<1>25. ASSUME NEW w \in Workers, Redeliver(w) PROVE (\A v \in Workers : pc'[v] = "syncWrite" /\ val'[v] = "PUBLISHED" => \A t \in TargetsOf(P(v)') : delivered[t] = 1)
  BY <1>25 DEF Redeliver, Goto
<1>26. CASE UNCHANGED vars
  BY <1>26 DEF vars
<1>27. QED
  BY <1>1, <1>2, <1>3, <1>4, <1>5, <1>6, <1>7, <1>8, <1>9, <1>10, <1>11, <1>12, <1>13, <1>14, <1>15, <1>16, <1>17, <1>18, <1>19, <1>20, <1>21, <1>22, <1>23, <1>24, <1>25, <1>26 DEF Next, Step, Fault

LEMMA TruthStep ==
  ASSUME TypeOK, PhaseInv, ClaimInv, RefusedInv, CountInv, TruthInv, [Next]_vars
  PROVE  TruthInv'
<1>1. \A t \in Targets : delivered[t] = 1 => delivered'[t] = 1
  BY CountStep
<1>2. \A p \in Posts : publishedAt'[p] => \A t \in TargetsOf(p) : delivered'[t] = 1
  BY <1>1, DatedStep DEF TargetsOf
<1>3. \A v \in Workers : pc'[v] = "syncWrite" /\ val'[v] = "PUBLISHED"
        => \A t \in TargetsOf(P(v)') : delivered'[t] = 1
  BY <1>1, ComputedStep DEF TargetsOf
<1>4. \A m \in Messages : job'[m] = "SUCCESS" => delivered'[m[1]] = 1
  BY <1>1, JobStep, MessageFacts
<1>5. \A t \in Targets : target'[t] = "PUBLISHED" => delivered'[t] = 1
  BY <1>1, ShownStep
<1>6. QED
  BY <1>2, <1>3, <1>4, <1>5, AcceptedStep DEF TruthInv, PublishedMeansDelivered, T, P, TargetsOf

LEMMA InitDeliveryInv == Init => DeliveryInv
<1> SUFFICES ASSUME Init PROVE DeliveryInv
  OBVIOUS
<1>1. TypeOK
  BY InitTypeOK
<1>2. \A w \in Workers : pc[w] = "idle" /\ phase[w] = "begin"
  BY DEF Init
<1>3. \A m \in Messages : queue[m] = 0 /\ answers[m] = "none" /\ job[m] = "NONE"
  BY DEF Init
<1>4. PhaseInv /\ ClaimInv /\ RefusedInv
  BY <1>2, <1>3 DEF PhaseInv, ClaimInv, RefusedInv, Claiming
<1>5. CountInv
  <2>1. \A t \in Targets : delivered[t] = 0
    BY DEF Init
  <2>2. ASSUME NEW t \in Targets, NEW k \in Attempts PROVE answers[<<t, k>>] # "ok"
    <3>1. <<t, k>> \in Messages
      BY DEF Messages
    <3>2. QED BY <1>3, <3>1
  <2>3. \A t \in Targets : ~(delivered[t] = 1) /\ delivered[t] \in {0, 1}
    BY <2>1
  <2>4. \A t \in Targets : ~\E k \in Attempts : answers[<<t, k>>] = "ok"
    BY <2>2
  <2>5. SUFFICES ASSUME NEW t \in Targets
                 PROVE  /\ delivered[t] \in {0, 1}
                        /\ delivered[t] = 1 <=> \E k \in Attempts : answers[<<t, k>>] = "ok"
    BY DEF CountInv
  <2>6. QED BY <2>3, <2>4, Zenon
<1>6. TruthInv
  BY <1>2, <1>3 DEF Init, TruthInv, PublishedMeansDelivered
<1>7. QED BY <1>1, <1>4, <1>5, <1>6 DEF DeliveryInv

LEMMA NextDeliveryInv == DeliveryInv /\ [Next]_vars => DeliveryInv'
  BY NextTypeOK, PhaseStep, ClaimStep, RefusedStep, CountStep, TruthStep DEF DeliveryInv

\* The inductive invariant holds throughout.
THEOREM DeliveryInvariant == Spec => []DeliveryInv
  BY InitDeliveryInv, NextDeliveryInv, PTL DEF Spec

\* Whatever is dispatched again, redelivered, retried or lost, and however
\* many workers crash: the platform accepts a target at most once.
THEOREM DeliveredOnce == Spec => []AtMostOneDelivery
<1>1. DeliveryInv => AtMostOneDelivery
  BY DEF DeliveryInv, CountInv, AtMostOneDelivery
<1>2. QED BY <1>1, DeliveryInvariant, PTL

\* Two workers never talk to the platform for the same target at once.  Two
\* claimants of one attempt are the same worker; of two attempts, the later
\* one has the earlier one refused, whose claimant is still unanswered.
THEOREM CallsAreExclusive == Spec => []ExclusiveCall
<1>1. DeliveryInv => ExclusiveCall
  <2> SUFFICES ASSUME DeliveryInv, NEW v \in Workers, NEW w \in Workers,
                      Claiming(v), Claiming(w), T(v) = T(w)
               PROVE  v = w
    BY DEF ExclusiveCall
  <2>1. /\ msg[v] \in Messages /\ msg[w] \in Messages
        /\ msg[v] = <<T(v), msg[v][2]>> /\ msg[w] = <<T(v), msg[w][2]>>
        /\ msg[v][2] \in Attempts /\ msg[w][2] \in Attempts
    BY MessageFacts DEF DeliveryInv, TypeOK, Claiming, T
  <2>2. /\ answers[msg[v]] = "none" /\ answers[msg[w]] = "none"
        /\ Refused(msg[v]) /\ Refused(msg[w])
    BY DEF DeliveryInv, ClaimInv, RefusedInv, Claiming
  <2>3. ~(msg[v][2] < msg[w][2]) /\ ~(msg[w][2] < msg[v][2])
    BY <2>1, <2>2 DEF Refused, T
  <2>4. msg[v] = msg[w]
    BY <2>1, <2>3 DEF Attempts
  <2>5. QED BY <2>4 DEF DeliveryInv, ClaimInv
<1>2. QED BY <1>1, DeliveryInvariant, PTL

\* What the database shows as published was accepted by the platform.
THEOREM PublishedIsTrue == Spec => []PublishedMeansDelivered
<1>1. DeliveryInv => PublishedMeansDelivered
  BY DEF DeliveryInv, TruthInv
<1>2. QED BY <1>1, DeliveryInvariant, PTL

-----------------------------------------------------------------------------
(* The promise of module Delivery *)

\* The empty database keeps the promise.
LEMMA InitPromise == Init => Promise!DInit
  BY DEF Init, Promise!DInit

\* Each step of the publisher is a step of the promise, or changes nothing in it.
LEMMA StepPromise == DeliveryInv /\ [Next]_vars => [Promise!DNext]_(Promise!dvars)
<1> SUFFICES ASSUME DeliveryInv, [Next]_vars
             PROVE  Promise!DNext \/ UNCHANGED Promise!dvars
  OBVIOUS
<1> DEFINE Shown == {t \in Targets : target[t] = "PUBLISHED"}
           Dated == {p \in Posts : publishedAt[p]}
<1> USE DEF rows, platform, Promise!dvars
<1>a. TypeOK
  BY DEF DeliveryInv
<1>1. CASE UNCHANGED <<delivered, target, publishedAt>>
  BY <1>1
<1>2. ASSUME NEW w \in Workers, NEW t \in Targets, t = T(w),
             SetPublishing(w) \/ Reset(w) \/ MarkTargetFailed(w)
      PROVE  Promise!Retract({t})
  BY <1>a, <1>2 DEF SetPublishing, Reset, MarkTargetFailed, Promise!Retract, TypeOK
<1>3. ASSUME NEW t \in Targets, AdminReschedule(t) PROVE Promise!Retract({t})
  BY <1>a, <1>3 DEF AdminReschedule, Promise!Retract, TypeOK
<1>4. ASSUME NEW p \in Posts, DeletePost(p) PROVE Promise!Retract(TargetsOf(p))
  BY <1>a, <1>4 DEF DeletePost, Promise!Retract, TypeOK, TargetsOf
<1>5. ASSUME NEW w \in Workers, NEW t \in Targets, t = T(w), MarkPublished(w)
      PROVE  Promise!Show(t)
  BY <1>a, <1>5 DEF MarkPublished, Promise!Show, TypeOK, DeliveryInv, TruthInv
<1>6. ASSUME NEW w \in Workers, NEW p \in Posts, p = P(w), SyncWrite(w)
      PROVE  Promise!Date(p) \/ UNCHANGED Promise!dvars
  <2>1. CASE val[w] = "PUBLISHED"
    BY <1>a, <1>6, <2>1 DEF SyncWrite, Promise!Date, Promise!Members, TargetsOf, TypeOK, DeliveryInv, TruthInv
  <2>2. CASE val[w] # "PUBLISHED"
    BY <1>a, <1>6, <2>2 DEF SyncWrite, TypeOK
  <2>3. QED BY <2>1, <2>2
<1>7. ASSUME NEW w \in Workers, NEW t \in Targets, t = T(w), CallPublish(w)
      PROVE  Promise!Send(t) \/ UNCHANGED Promise!dvars
  <2>1. delivered[t] = 0
    BY <1>7, NothingDelivered DEF DeliveryInv
  <2>2. QED BY <1>a, <1>7, <2>1 DEF CallPublish, Promise!Send, TypeOK
<1>8. Next => \/ UNCHANGED <<delivered, target, publishedAt>>
              \/ \E w \in Workers : \/ SetPublishing(w) \/ Reset(w) \/ MarkTargetFailed(w)
                                    \/ MarkPublished(w) \/ SyncWrite(w) \/ CallPublish(w)
              \/ \E t \in Targets : AdminReschedule(t)
              \/ \E p \in Posts : DeletePost(p)
  BY DEF Next, Step, Fault, Dispatch, AdminMarkFailed, Receive, Fetch, Cleanup, Create,
     MarkRunning, SyncRead, MarkSuccess, MarkFailed, SendRetry, OnFailure, RowGone, Ack,
     Error, Crash, Redeliver
<1>9. \A w \in Workers : pc[w] # "idle" => T(w) \in Targets /\ P(w) \in Posts
  BY <1>a, MessageFacts DEF TypeOK, T, P
<1>10. \A w \in Workers :
         SetPublishing(w) \/ Reset(w) \/ MarkTargetFailed(w) \/ MarkPublished(w)
         \/ SyncWrite(w) \/ CallPublish(w) => pc[w] # "idle"
  BY DEF SetPublishing, Reset, MarkTargetFailed, MarkPublished, SyncWrite, CallPublish
<1>11. \A p : TargetsOf(p) \in SUBSET Targets
  BY DEF TargetsOf
<1>12. CASE UNCHANGED vars
  BY <1>1, <1>12 DEF vars
<1>13. ASSUME NEW w \in Workers,
              SetPublishing(w) \/ Reset(w) \/ MarkTargetFailed(w)
              \/ MarkPublished(w) \/ SyncWrite(w) \/ CallPublish(w)
       PROVE  Promise!DNext \/ UNCHANGED Promise!dvars
  <2>1. PICK t \in Targets, p \in Posts : t = T(w) /\ p = P(w)
    BY <1>9, <1>10, <1>13
  <2>2. CASE SetPublishing(w) \/ Reset(w) \/ MarkTargetFailed(w)
    <3>1. Promise!Retract({t}) /\ {t} \in SUBSET Targets
      BY <1>2, <2>1, <2>2
    <3>2. QED BY <3>1 DEF Promise!DNext
  <2>3. CASE MarkPublished(w)
    BY <1>5, <2>1, <2>3 DEF Promise!DNext
  <2>4. CASE SyncWrite(w)
    BY <1>6, <2>1, <2>4 DEF Promise!DNext
  <2>5. CASE CallPublish(w)
    BY <1>7, <2>1, <2>5 DEF Promise!DNext
  <2>6. QED BY <1>13, <2>2, <2>3, <2>4, <2>5
<1>14. ASSUME NEW t \in Targets, AdminReschedule(t) PROVE Promise!DNext
  BY <1>3, <1>14 DEF Promise!DNext
<1>15. ASSUME NEW p \in Posts, DeletePost(p) PROVE Promise!DNext
  BY <1>4, <1>11, <1>15 DEF Promise!DNext
<1>16. QED
  BY <1>1, <1>8, <1>12, <1>13, <1>14, <1>15

\* The publisher implements the promise of module Delivery.
THEOREM KeepsPromise == Spec => DeliversAsPromised
  BY InitPromise, StepPromise, DeliveryInvariant, PTL DEF Spec, DeliversAsPromised, Promise!DSpec

-----------------------------------------------------------------------------
(* Post.status *)

\* The computed status of a post depends on its own targets only.
LEMMA AggregateFrame ==
  ASSUME NEW p, \A t \in TargetsOf(p) : target'[t] = target[t]
  PROVE  Aggregate(p)' = Aggregate(p)
<1>1. {target'[t] : t \in TargetsOf(p)} = {target[t] : t \in TargetsOf(p)}
  OBVIOUS
<1>2. TargetsOf(p)' = TargetsOf(p)
  BY DEF TargetsOf
<1>3. QED BY <1>1, <1>2 DEF Aggregate

\* A step that leaves the rows of a post alone and moves no worker in or out
\* of its sync_status keeps SyncInvOf.
LEMMA QuietStep ==
  ASSUME NEW p \in Posts, SyncInvOf(p),
         \A t \in TargetsOf(p) : target'[t] = target[t],
         post'[p] = post[p],
         SyncPending(p) => SyncPending(p)',
         \A v \in Workers : AtWrite(v, p)' <=> AtWrite(v, p),
         \A v \in Workers : AtWrite(v, p) => val'[v] = val[v]
  PROVE  SyncInvOf(p)'
<1>1. Aggregate(p)' = Aggregate(p)
  BY AggregateFrame
<1>2. QED BY <1>1 DEF SyncInvOf

\* A step after which the post is still to be synchronised keeps SyncInvOf.
LEMMA PendingStep ==
  ASSUME NEW p \in Posts, SyncInvOf(p),
         SyncPending(p)',
         \A v \in Workers : AtWrite(v, p)' => AtWrite(v, p)
  PROVE  SyncInvOf(p)'
  BY DEF SyncInvOf

\* Leaving the task by an exception marks the post a worker was synchronising.
LEMMA RaiseSync ==
  ASSUME TypeOK, NEW p \in Posts, SyncInvOf(p), NEW w \in Workers, pc[w] # "idle",
         Raise(w), UNCHANGED <<target, post, msg, val>>
  PROVE  SyncInvOf(p)'
<1>1. CASE pc[w] \in {"sync", "syncWrite"} /\ P(w) = p
  <2>1. SyncPending(p)'
    BY <1>1 DEF Raise, SyncPending
  <2>2. \A v \in Workers : AtWrite(v, p)' => AtWrite(v, p)
    BY DEF Raise, Goto, AtWrite, P, T, TypeOK
  <2>3. QED BY <2>1, <2>2, PendingStep
<1>2. CASE ~(pc[w] \in {"sync", "syncWrite"} /\ P(w) = p)
  <2>1. SyncPending(p) => SyncPending(p)'
    BY <1>2 DEF Raise, Goto, SyncPending, P, T, TypeOK
  <2>2. \A v \in Workers : AtWrite(v, p)' <=> AtWrite(v, p)
    BY <1>2 DEF Raise, Goto, AtWrite, P, T, TypeOK
  <2>3. QED BY <2>1, <2>2, QuietStep
<1>3. QED BY <1>1, <1>2

\* Every step keeps SyncInvOf, for each post.
LEMMA SyncStep ==
  ASSUME TypeOK, SyncInv, NEW p \in Posts, [Next]_vars
  PROVE  SyncInvOf(p)'
<1> SyncInvOf(p)
  BY DEF SyncInv
<1> USE DEF rows, platform, locals, budgets
<1>1. ASSUME NEW t \in Targets, Dispatch(t) PROVE SyncInvOf(p)'
  <2>1. /\ SyncPending(p) => SyncPending(p)'
        /\ \A v \in Workers : AtWrite(v, p)' <=> AtWrite(v, p)
    BY <1>1 DEF Dispatch, Goto, SyncPending, AtWrite, P, T, TypeOK
  <2>2. QED BY <1>1, <2>1, QuietStep DEF Dispatch
<1>2. ASSUME NEW t \in Targets, AdminMarkFailed(t) PROVE SyncInvOf(p)'
  <2>1. /\ SyncPending(p) => SyncPending(p)'
        /\ \A v \in Workers : AtWrite(v, p)' <=> AtWrite(v, p)
    BY <1>2 DEF AdminMarkFailed, Goto, SyncPending, AtWrite, P, T, TypeOK
  <2>2. QED BY <1>2, <2>1, QuietStep DEF AdminMarkFailed
<1>3. ASSUME NEW t \in Targets, AdminReschedule(t) PROVE SyncInvOf(p)'
  <2>1. CASE PostOf[t] = p
    <3>1. SyncPending(p)' /\ \A v \in Workers : AtWrite(v, p)' => AtWrite(v, p)
      BY <1>3, <2>1 DEF AdminReschedule, Goto, SyncPending, AtWrite, P, T, TypeOK
    <3>2. QED BY <3>1, PendingStep
  <2>2. CASE PostOf[t] # p
    <3>1. \A u \in TargetsOf(p) : target'[u] = target[u]
      BY <1>3, <2>2 DEF AdminReschedule, TargetsOf, P, TypeOK
    <3>2. /\ SyncPending(p) => SyncPending(p)'
          /\ \A v \in Workers : AtWrite(v, p)' <=> AtWrite(v, p)
      BY <1>3, <2>2 DEF AdminReschedule, Goto, SyncPending, AtWrite, P, T, TypeOK
    <3>3. QED BY <1>3, <3>1, <3>2, QuietStep DEF AdminReschedule
  <2>3. QED BY <2>1, <2>2
<1>4. ASSUME NEW q \in Posts, DeletePost(q) PROVE SyncInvOf(p)'
  <2>1. CASE q = p
    <3>1. post'[p] = "GONE" /\ \A v \in Workers : ~AtWrite(v, p)'
      BY <1>4, <2>1 DEF DeletePost, Locked, AtWrite, P, T, TypeOK
    <3>2. QED BY <3>1 DEF SyncInvOf
  <2>2. CASE q # p
    <3>1. \A t \in TargetsOf(p) : target'[t] = target[t]
      BY <1>4, <2>2 DEF DeletePost, TargetsOf, TypeOK
    <3>2. /\ SyncPending(p) => SyncPending(p)'
          /\ \A v \in Workers : AtWrite(v, p)' <=> AtWrite(v, p)
          /\ post'[p] = post[p]
      BY <1>4, <2>2 DEF DeletePost, SyncPending, AtWrite, P, T, TypeOK
    <3>3. QED BY <1>4, <3>1, <3>2, QuietStep DEF DeletePost
  <2>3. QED BY <2>1, <2>2
<1>5. ASSUME NEW w \in Workers, NEW m \in Messages, Receive(w, m) PROVE SyncInvOf(p)'
  <2>1. /\ SyncPending(p) => SyncPending(p)'
        /\ \A v \in Workers : AtWrite(v, p)' <=> AtWrite(v, p)
    BY <1>5 DEF Receive, Goto, SyncPending, AtWrite, P, T, TypeOK
  <2>2. QED BY <1>5, <2>1, QuietStep DEF Receive
<1>6. ASSUME NEW w \in Workers, Fetch(w) PROVE SyncInvOf(p)'
  <2>1. /\ SyncPending(p) => SyncPending(p)'
        /\ \A v \in Workers : AtWrite(v, p)' <=> AtWrite(v, p)
    BY <1>6 DEF Fetch, Goto, SyncPending, AtWrite, P, T, TypeOK
  <2>2. QED BY <1>6, <2>1, QuietStep DEF Fetch
<1>7. ASSUME NEW w \in Workers, Cleanup(w) PROVE SyncInvOf(p)'
  <2>1. /\ SyncPending(p) => SyncPending(p)'
        /\ \A v \in Workers : AtWrite(v, p)' <=> AtWrite(v, p)
    BY <1>7 DEF Cleanup, Goto, SyncPending, AtWrite, P, T, TypeOK
  <2>2. QED BY <1>7, <2>1, QuietStep DEF Cleanup
<1>8. ASSUME NEW w \in Workers, Reset(w) PROVE SyncInvOf(p)'
  <2>1. CASE P(w) = p
    <3>1. SyncPending(p)' /\ \A v \in Workers : AtWrite(v, p)' => AtWrite(v, p)
      BY <1>8, <2>1 DEF Reset, Goto, SyncPending, AtWrite, P, T, TypeOK
    <3>2. QED BY <3>1, PendingStep
  <2>2. CASE P(w) # p
    <3>1. \A t \in TargetsOf(p) : target'[t] = target[t]
      BY <1>8, <2>2 DEF Reset, TargetsOf, P, TypeOK
    <3>2. /\ SyncPending(p) => SyncPending(p)'
          /\ \A v \in Workers : AtWrite(v, p)' <=> AtWrite(v, p)
      BY <1>8, <2>2 DEF Reset, Goto, SyncPending, AtWrite, P, T, TypeOK
    <3>3. QED BY <1>8, <3>1, <3>2, QuietStep DEF Reset
  <2>3. QED BY <2>1, <2>2
<1>9. ASSUME NEW w \in Workers, Create(w) PROVE SyncInvOf(p)'
  <2>1. /\ SyncPending(p) => SyncPending(p)'
        /\ \A v \in Workers : AtWrite(v, p)' <=> AtWrite(v, p)
    BY <1>9 DEF Create, Goto, SyncPending, AtWrite, P, T, TypeOK
  <2>2. QED BY <1>9, <2>1, QuietStep DEF Create
<1>10. ASSUME NEW w \in Workers, MarkRunning(w) PROVE SyncInvOf(p)'
  <2>1. CASE Raise(w)
    BY <1>10, <2>1, RaiseSync DEF MarkRunning
  <2>2. CASE ~(Raise(w))
    <3>1. /\ SyncPending(p) => SyncPending(p)'
          /\ \A v \in Workers : AtWrite(v, p)' <=> AtWrite(v, p)
      BY <1>10, <2>2 DEF MarkRunning, Goto, SyncPending, AtWrite, P, T, TypeOK
    <3>2. QED BY <1>10, <2>2, <3>1, QuietStep DEF MarkRunning
  <2>3. QED BY <2>1, <2>2
<1>11. ASSUME NEW w \in Workers, SetPublishing(w) PROVE SyncInvOf(p)'
  <2>1. CASE P(w) = p
    <3>1. SyncPending(p)' /\ \A v \in Workers : AtWrite(v, p)' => AtWrite(v, p)
      BY <1>11, <2>1 DEF SetPublishing, Goto, SyncPending, AtWrite, P, T, TypeOK
    <3>2. QED BY <3>1, PendingStep
  <2>2. CASE P(w) # p
    <3>1. \A t \in TargetsOf(p) : target'[t] = target[t]
      BY <1>11, <2>2 DEF SetPublishing, TargetsOf, P, TypeOK
    <3>2. /\ SyncPending(p) => SyncPending(p)'
          /\ \A v \in Workers : AtWrite(v, p)' <=> AtWrite(v, p)
      BY <1>11, <2>2 DEF SetPublishing, Goto, SyncPending, AtWrite, P, T, TypeOK
    <3>3. QED BY <1>11, <3>1, <3>2, QuietStep DEF SetPublishing
  <2>3. QED BY <2>1, <2>2
<1>12. ASSUME NEW w \in Workers, SyncRead(w) PROVE SyncInvOf(p)'
  <2>1. CASE P(w) = p
    <3>1. Aggregate(p)' = Aggregate(p)
      BY <1>12, AggregateFrame DEF SyncRead
    <3>2. \A v \in Workers : AtWrite(v, p)' <=> v = w
      BY <1>12, <2>1 DEF SyncRead, Goto, Locked, AtWrite, P, T, TypeOK
    <3>3. val'[w] = Aggregate(p)
      BY <1>12, <2>1 DEF SyncRead, TypeOK
    <3>4. QED BY <3>1, <3>2, <3>3 DEF SyncInvOf
  <2>2. CASE P(w) # p
    <3>1. /\ SyncPending(p) => SyncPending(p)'
          /\ \A v \in Workers : AtWrite(v, p)' <=> AtWrite(v, p)
          /\ \A v \in Workers : AtWrite(v, p) => val'[v] = val[v]
      BY <1>12, <2>2 DEF SyncRead, Goto, SyncPending, AtWrite, P, T, TypeOK
    <3>2. QED BY <1>12, <3>1, QuietStep DEF SyncRead
  <2>3. QED BY <2>1, <2>2
<1>13. ASSUME NEW w \in Workers, SyncWrite(w) PROVE SyncInvOf(p)'
  <2>1. CASE P(w) = p
    <3>1. Aggregate(p)' = Aggregate(p)
      BY <1>13, AggregateFrame DEF SyncWrite
    <3>2. AtWrite(w, p) /\ \A v \in Workers : ~AtWrite(v, p)'
      BY <1>13, <2>1 DEF SyncWrite, Goto, SyncInvOf, AtWrite, P, T, TypeOK
    <3>3. post'[p] = val[w] /\ (SyncPending(p) => SyncPending(p)')
      BY <1>13, <2>1 DEF SyncWrite, Goto, SyncPending, P, T, TypeOK
    <3>4. QED BY <3>1, <3>2, <3>3 DEF SyncInvOf
  <2>2. CASE P(w) # p
    <3>1. /\ SyncPending(p) => SyncPending(p)'
          /\ \A v \in Workers : AtWrite(v, p)' <=> AtWrite(v, p)
          /\ post'[p] = post[p]
      BY <1>13, <2>2 DEF SyncWrite, Goto, SyncPending, AtWrite, P, T, TypeOK
    <3>2. QED BY <1>13, <3>1, QuietStep DEF SyncWrite
  <2>3. QED BY <2>1, <2>2
<1>14. ASSUME NEW w \in Workers, CallPublish(w) PROVE SyncInvOf(p)'
  <2>1. /\ SyncPending(p) => SyncPending(p)'
        /\ \A v \in Workers : AtWrite(v, p)' <=> AtWrite(v, p)
    BY <1>14 DEF CallPublish, Goto, SyncPending, AtWrite, P, T, TypeOK
  <2>2. QED BY <1>14, <2>1, QuietStep DEF CallPublish
<1>15. ASSUME NEW w \in Workers, MarkSuccess(w) PROVE SyncInvOf(p)'
  <2>1. /\ SyncPending(p) => SyncPending(p)'
        /\ \A v \in Workers : AtWrite(v, p)' <=> AtWrite(v, p)
    BY <1>15 DEF MarkSuccess, Goto, SyncPending, AtWrite, P, T, TypeOK
  <2>2. QED BY <1>15, <2>1, QuietStep DEF MarkSuccess
<1>16. ASSUME NEW w \in Workers, MarkPublished(w) PROVE SyncInvOf(p)'
  <2>1. CASE P(w) = p
    <3>1. SyncPending(p)' /\ \A v \in Workers : AtWrite(v, p)' => AtWrite(v, p)
      BY <1>16, <2>1 DEF MarkPublished, Goto, SyncPending, AtWrite, P, T, TypeOK
    <3>2. QED BY <3>1, PendingStep
  <2>2. CASE P(w) # p
    <3>1. \A t \in TargetsOf(p) : target'[t] = target[t]
      BY <1>16, <2>2 DEF MarkPublished, TargetsOf, P, TypeOK
    <3>2. /\ SyncPending(p) => SyncPending(p)'
          /\ \A v \in Workers : AtWrite(v, p)' <=> AtWrite(v, p)
      BY <1>16, <2>2 DEF MarkPublished, Goto, SyncPending, AtWrite, P, T, TypeOK
    <3>3. QED BY <1>16, <3>1, <3>2, QuietStep DEF MarkPublished
  <2>3. QED BY <2>1, <2>2
<1>17. ASSUME NEW w \in Workers, MarkFailed(w) PROVE SyncInvOf(p)'
  <2>1. /\ SyncPending(p) => SyncPending(p)'
        /\ \A v \in Workers : AtWrite(v, p)' <=> AtWrite(v, p)
    BY <1>17 DEF MarkFailed, Goto, SyncPending, AtWrite, P, T, TypeOK
  <2>2. QED BY <1>17, <2>1, QuietStep DEF MarkFailed
<1>18. ASSUME NEW w \in Workers, MarkTargetFailed(w) PROVE SyncInvOf(p)'
  <2>1. CASE P(w) = p
    <3>1. SyncPending(p)' /\ \A v \in Workers : AtWrite(v, p)' => AtWrite(v, p)
      BY <1>18, <2>1 DEF MarkTargetFailed, Goto, SyncPending, AtWrite, P, T, TypeOK
    <3>2. QED BY <3>1, PendingStep
  <2>2. CASE P(w) # p
    <3>1. \A t \in TargetsOf(p) : target'[t] = target[t]
      BY <1>18, <2>2 DEF MarkTargetFailed, TargetsOf, P, TypeOK
    <3>2. /\ SyncPending(p) => SyncPending(p)'
          /\ \A v \in Workers : AtWrite(v, p)' <=> AtWrite(v, p)
      BY <1>18, <2>2 DEF MarkTargetFailed, Goto, SyncPending, AtWrite, P, T, TypeOK
    <3>3. QED BY <1>18, <3>1, <3>2, QuietStep DEF MarkTargetFailed
  <2>3. QED BY <2>1, <2>2
<1>19. ASSUME NEW w \in Workers, SendRetry(w) PROVE SyncInvOf(p)'
  <2>1. /\ SyncPending(p) => SyncPending(p)'
        /\ \A v \in Workers : AtWrite(v, p)' <=> AtWrite(v, p)
    BY <1>19 DEF SendRetry, Goto, SyncPending, AtWrite, P, T, TypeOK
  <2>2. QED BY <1>19, <2>1, QuietStep DEF SendRetry
<1>20. ASSUME NEW w \in Workers, OnFailure(w) PROVE SyncInvOf(p)'
  <2>1. /\ SyncPending(p) => SyncPending(p)'
        /\ \A v \in Workers : AtWrite(v, p)' <=> AtWrite(v, p)
    BY <1>20 DEF OnFailure, Goto, SyncPending, AtWrite, P, T, TypeOK
  <2>2. QED BY <1>20, <2>1, QuietStep DEF OnFailure
<1>21. ASSUME NEW w \in Workers, RowGone(w) PROVE SyncInvOf(p)'
  BY <1>21, RaiseSync DEF RowGone
<1>22. ASSUME NEW w \in Workers, Ack(w) PROVE SyncInvOf(p)'
  <2>1. /\ SyncPending(p) => SyncPending(p)'
        /\ \A v \in Workers : AtWrite(v, p)' <=> AtWrite(v, p)
        /\ \A v \in Workers : AtWrite(v, p) => val'[v] = val[v]
    BY <1>22 DEF Ack, Goto, SyncPending, AtWrite, P, T, TypeOK
  <2>2. QED BY <1>22, <2>1, QuietStep DEF Ack
<1>23. ASSUME NEW w \in Workers, Error(w) PROVE SyncInvOf(p)'
  <2>1. CASE pc[w] # "retry"
    BY <1>23, <2>1, RaiseSync DEF Error
  <2>2. CASE ~(pc[w] # "retry")
    <3>1. /\ SyncPending(p) => SyncPending(p)'
          /\ \A v \in Workers : AtWrite(v, p)' <=> AtWrite(v, p)
      BY <1>23, <2>2 DEF Error, Goto, SyncPending, AtWrite, P, T, TypeOK
    <3>2. QED BY <1>23, <2>2, <3>1, QuietStep DEF Error
  <2>3. QED BY <2>1, <2>2
<1>24. ASSUME NEW w \in Workers, Crash(w) PROVE SyncInvOf(p)'
  <2>1. CASE pc[w] \in {"sync", "syncWrite"} /\ P(w) = p
    <3>1. SyncPending(p)' /\ \A v \in Workers : AtWrite(v, p)' => AtWrite(v, p)
      BY <1>24, <2>1 DEF Crash, Goto, SyncPending, AtWrite, P, T, TypeOK
    <3>2. QED BY <3>1, PendingStep
  <2>2. CASE ~(pc[w] \in {"sync", "syncWrite"} /\ P(w) = p)
    <3>1. /\ SyncPending(p) => SyncPending(p)'
          /\ \A v \in Workers : AtWrite(v, p)' <=> AtWrite(v, p)
          /\ \A v \in Workers : AtWrite(v, p) => val'[v] = val[v]
      BY <1>24, <2>2 DEF Crash, Goto, SyncPending, AtWrite, P, T, TypeOK
    <3>2. QED BY <1>24, <3>1, QuietStep DEF Crash
  <2>3. QED BY <2>1, <2>2
<1>25. ASSUME NEW w \in Workers, Redeliver(w) PROVE SyncInvOf(p)'
  <2>1. /\ SyncPending(p) => SyncPending(p)'
        /\ \A v \in Workers : AtWrite(v, p)' <=> AtWrite(v, p)
    BY <1>25 DEF Redeliver, Goto, SyncPending, AtWrite, P, T, TypeOK
  <2>2. QED BY <1>25, <2>1, QuietStep DEF Redeliver
<1>26. CASE UNCHANGED vars
  <2>1. /\ SyncPending(p) => SyncPending(p)'
        /\ \A v \in Workers : AtWrite(v, p)' <=> AtWrite(v, p)
    BY <1>26 DEF vars, SyncPending, AtWrite, P, T, TypeOK
  <2>2. QED BY <1>26, <2>1, QuietStep DEF vars
<1>27. QED
  BY <1>1, <1>2, <1>3, <1>4, <1>5, <1>6, <1>7, <1>8, <1>9, <1>10, <1>11, <1>12, <1>13, <1>14, <1>15, <1>16, <1>17, <1>18, <1>19, <1>20, <1>21, <1>22, <1>23, <1>24, <1>25, <1>26 DEF Next, Step, Fault

\* At the start every post that differs from its targets is marked.
LEMMA InitSyncInv == Init => SyncInv
<1> SUFFICES ASSUME Init, NEW p \in Posts PROVE SyncInvOf(p)
  BY DEF SyncInv
<1>1. \A w \in Workers : ~AtWrite(w, p)
  BY DEF Init, AtWrite
<1>2. p \in unsynced \/ Aggregate(p) = "DRAFT"
  <2>1. ASSUME p \notin unsynced PROVE \A t \in TargetsOf(p) : target[t] = "DRAFT"
    BY <2>1 DEF Init, TargetsOf
  <2>2. QED BY <2>1 DEF Aggregate
<1>3. post[p] = "DRAFT"
  BY DEF Init
<1>4. QED BY <1>1, <1>2, <1>3 DEF SyncInvOf, SyncPending

\* Post.status is never silently stale: it is the aggregate of its targets,
\* or a worker is about to synchronise it, or the change was one that no
\* sync_status follows.
THEOREM StatusIsCurrent == Spec => []PostStatusCurrent
<1>1. TypeOK /\ SyncInv /\ [Next]_vars => SyncInv'
  BY SyncStep DEF SyncInv
<1>2. SyncInv => PostStatusCurrent
  BY DEF SyncInv, SyncInvOf, PostStatusCurrent, SyncPending, AtWrite, Syncing
<1>3. QED BY InitSyncInv, TypeCorrect, <1>1, <1>2, PTL DEF Spec


\* The inductive invariant behind PostStatusCurrent holds throughout.
THEOREM SyncInvariant == Spec => []SyncInv
<1>1. TypeOK /\ SyncInv /\ [Next]_vars => SyncInv'
  BY SyncStep DEF SyncInv
<1>2. QED BY InitSyncInv, TypeCorrect, <1>1, PTL DEF Spec

-----------------------------------------------------------------------------
(* The retry budget *)

\* Before the first fault and the first edit only the dispatcher and the
\* workers act.
LEMMA CalmStep ==
  ASSUME TypeOK, [Next]_vars, Calm'
  PROVE  /\ Calm
         /\ \/ UNCHANGED vars
            \/ \E t \in Targets : Dispatch(t)
            \/ \E w \in Workers : (\E m \in Messages : Receive(w, m)) \/ Step(w)
<1> USE DEF TypeOK, Calm, rows, platform, locals, budgets
<1>1. ASSUME NEW t \in Targets, AdminMarkFailed(t) \/ AdminReschedule(t) PROVE FALSE
  BY <1>1 DEF AdminMarkFailed, AdminReschedule
<1>2. ASSUME NEW p \in Posts, DeletePost(p) PROVE FALSE
  BY <1>2 DEF DeletePost
<1>3. ASSUME NEW w \in Workers, Fault(w) PROVE FALSE
  BY <1>3 DEF Fault, Error, Crash, Redeliver
<1>4. ASSUME NEW t \in Targets, Dispatch(t) PROVE Calm
  BY <1>4 DEF Dispatch
<1>5. ASSUME NEW w \in Workers, NEW m \in Messages, Receive(w, m) PROVE Calm
  BY <1>5 DEF Receive
<1>6. ASSUME NEW w \in Workers, Step(w) PROVE Calm
  BY <1>6 DEF Step, Fetch, Cleanup, Reset, Create, MarkRunning, SetPublishing, SyncRead, SyncWrite, CallPublish, MarkSuccess, MarkPublished, MarkFailed, MarkTargetFailed, SendRetry, OnFailure, RowGone, Ack
<1>7. CASE UNCHANGED vars
  BY <1>7 DEF vars
<1>8. QED BY <1>1, <1>2, <1>3, <1>4, <1>5, <1>6, <1>7 DEF Next

\* No statement raises: every row is there, and no other job is active.
LEMMA NobodyRaisedStep ==
  ASSUME BudgetInv, UndisturbedInv, [Next]_vars, Calm'
  PROVE  NobodyRaised'
<1> USE DEF rows, platform, locals, budgets, BudgetInv, DeliveryInv, TypeOK, UndisturbedInv, NobodyRaised, PhaseInv, OneActiveJob, OwnJobHeld
<1>1. ASSUME NEW t \in Targets, Dispatch(t) PROVE NobodyRaised'
  BY <1>1 DEF Dispatch
<1>2. ASSUME NEW w \in Workers, NEW m \in Messages, Receive(w, m) PROVE NobodyRaised'
  BY <1>2 DEF Receive, Goto
<1>3. ASSUME NEW w \in Workers, Fetch(w) PROVE NobodyRaised'
  BY <1>3 DEF Fetch, Goto
<1>4. ASSUME NEW w \in Workers, Cleanup(w) PROVE NobodyRaised'
  BY <1>4 DEF Cleanup, Goto
<1>5. ASSUME NEW w \in Workers, Reset(w) PROVE NobodyRaised'
  BY <1>5 DEF Reset, Goto
<1>6. ASSUME NEW w \in Workers, Create(w) PROVE NobodyRaised'
  BY <1>6 DEF Create, Goto
<1>7. ASSUME NEW w \in Workers, MarkRunning(w) PROVE NobodyRaised'
  <2>1. T(w) \in Targets /\ msg[w] \in Messages /\ msg[w] = <<T(w), msg[w][2]>> /\ msg[w][2] \in Attempts
    BY <1>7 DEF MarkRunning, T, Messages
  <2>2. held[w] = msg[w][2] /\ job[msg[w]] = "PENDING"
    BY <1>7 DEF MarkRunning, Claiming
  <2>3. held[w] \in JobsIn(T(w), Active)
    BY <2>1, <2>2 DEF JobsIn, Active
  <2>4. JobsIn(T(w), Active) \ {held[w]} = {}
    BY <2>1, <2>3
  <2>5. QED BY <1>7, <2>4 DEF MarkRunning, Goto
<1>8. ASSUME NEW w \in Workers, SetPublishing(w) PROVE NobodyRaised'
  BY <1>8 DEF SetPublishing, Goto
<1>9. ASSUME NEW w \in Workers, SyncRead(w) PROVE NobodyRaised'
  BY <1>9 DEF SyncRead, Goto
<1>10. ASSUME NEW w \in Workers, SyncWrite(w) PROVE NobodyRaised'
  BY <1>10 DEF SyncWrite, Goto
<1>11. ASSUME NEW w \in Workers, CallPublish(w) PROVE NobodyRaised'
  BY <1>11 DEF CallPublish, Goto
<1>12. ASSUME NEW w \in Workers, MarkSuccess(w) PROVE NobodyRaised'
  BY <1>12 DEF MarkSuccess, Goto
<1>13. ASSUME NEW w \in Workers, MarkPublished(w) PROVE NobodyRaised'
  BY <1>13 DEF MarkPublished, Goto
<1>14. ASSUME NEW w \in Workers, MarkFailed(w) PROVE NobodyRaised'
  BY <1>14 DEF MarkFailed, Goto
<1>15. ASSUME NEW w \in Workers, MarkTargetFailed(w) PROVE NobodyRaised'
  BY <1>15 DEF MarkTargetFailed, Goto
<1>16. ASSUME NEW w \in Workers, SendRetry(w) PROVE NobodyRaised'
  BY <1>16 DEF SendRetry, Goto
<1>17. ASSUME NEW w \in Workers, OnFailure(w) PROVE NobodyRaised'
  BY <1>17 DEF OnFailure, Goto
<1>18. ASSUME NEW w \in Workers, RowGone(w) PROVE NobodyRaised'
  <2>1. T(w) \in Targets
    BY <1>18 DEF RowGone, T, Messages
  <2>2. QED BY <1>18, <2>1 DEF RowGone
<1>19. ASSUME NEW w \in Workers, Ack(w) PROVE NobodyRaised'
  BY <1>19 DEF Ack, Goto
<1>20. CASE UNCHANGED vars
  BY <1>20 DEF vars
<1>21. QED BY <1>1, <1>2, <1>3, <1>4, <1>5, <1>6, <1>7, <1>8, <1>9, <1>10, <1>11, <1>12, <1>13, <1>14, <1>15, <1>16, <1>17, <1>18, <1>19, <1>20, CalmStep DEF Step

\* A job is inserted only when the target has no active one.
LEMMA OneActiveJobStep ==
  ASSUME BudgetInv, UndisturbedInv, [Next]_vars, Calm'
  PROVE  OneActiveJob'
<1> USE DEF rows, platform, locals, budgets, BudgetInv, DeliveryInv, TypeOK, UndisturbedInv, OneActiveJob
<1>1. ASSUME NEW t \in Targets, Dispatch(t) PROVE OneActiveJob'
  BY <1>1 DEF Dispatch, JobsIn
<1>2. ASSUME NEW w \in Workers, NEW m \in Messages, Receive(w, m) PROVE OneActiveJob'
  BY <1>2 DEF Receive, Goto, JobsIn
<1>3. ASSUME NEW w \in Workers, Fetch(w) PROVE OneActiveJob'
  BY <1>3 DEF Fetch, Goto, JobsIn
<1>4. ASSUME NEW w \in Workers, Cleanup(w) PROVE OneActiveJob'
  <2>1. \A t \in Targets : JobsIn(t, Active)' \subseteq JobsIn(t, Active)
    BY <1>4 DEF Cleanup, JobsIn, Active, Messages
  <2>2. QED BY <1>4, <2>1 DEF Cleanup
<1>5. ASSUME NEW w \in Workers, Reset(w) PROVE OneActiveJob'
  BY <1>5 DEF Reset, JobsIn
<1>6. ASSUME NEW w \in Workers, Create(w) PROVE OneActiveJob'
  <2>1. T(w) \in Targets /\ msg[w] \in Messages /\ msg[w] = <<T(w), msg[w][2]>> /\ msg[w][2] \in Attempts
    BY <1>6 DEF Create, T, Messages
  <2>2. CASE Insertable(msg[w]) /\ job' = [job EXCEPT ![msg[w]] = "PENDING"]
    <3>1. JobsIn(T(w), Active) = {}
      BY <2>2 DEF Insertable, T
    <3>2. \A t \in Targets : t = T(w) => JobsIn(t, Active)' \subseteq {msg[w][2]}
      BY <2>1, <2>2, <3>1 DEF JobsIn, Active, Messages
    <3>3. \A t \in Targets : t # T(w) => JobsIn(t, Active)' = JobsIn(t, Active)
      BY <2>1, <2>2 DEF JobsIn, Active, Messages
    <3>4. QED BY <1>6, <3>2, <3>3 DEF Create
  <2>3. CASE UNCHANGED job
    BY <1>6, <2>3 DEF Create, JobsIn
  <2>4. QED BY <1>6, <2>2, <2>3 DEF Create
<1>7. ASSUME NEW w \in Workers, MarkRunning(w) PROVE OneActiveJob'
  <2>1. T(w) \in Targets /\ msg[w] \in Messages /\ msg[w] = <<T(w), msg[w][2]>> /\ msg[w][2] \in Attempts
    BY <1>7 DEF MarkRunning, T, Messages
  <2>2. held[w] = msg[w][2] /\ job[msg[w]] = "PENDING"
    BY <1>7 DEF MarkRunning, Claiming, OwnJobHeld, PhaseInv
  <2>3. \A t \in Targets : JobsIn(t, Active)' \subseteq JobsIn(t, Active)
    <3>1. \A m \in Messages : job'[m] # job[m] => job[m] = "PENDING"
      BY <1>7, <2>1, <2>2 DEF MarkRunning
    <3>2. \A t \in Targets, k \in Attempts : <<t, k>> \in Messages
      BY DEF Messages
    <3>3. QED BY <3>1, <3>2 DEF JobsIn, Active
  <2>4. QED BY <1>7, <2>3 DEF MarkRunning
<1>8. ASSUME NEW w \in Workers, SetPublishing(w) PROVE OneActiveJob'
  BY <1>8 DEF SetPublishing, JobsIn
<1>9. ASSUME NEW w \in Workers, SyncRead(w) PROVE OneActiveJob'
  BY <1>9 DEF SyncRead, Goto, JobsIn
<1>10. ASSUME NEW w \in Workers, SyncWrite(w) PROVE OneActiveJob'
  BY <1>10 DEF SyncWrite, Goto, JobsIn
<1>11. ASSUME NEW w \in Workers, CallPublish(w) PROVE OneActiveJob'
  BY <1>11 DEF CallPublish, Goto, JobsIn
<1>12. ASSUME NEW w \in Workers, MarkSuccess(w) PROVE OneActiveJob'
  <2>1. \A t \in Targets : JobsIn(t, Active)' \subseteq JobsIn(t, Active)
    BY <1>12 DEF MarkSuccess, JobsIn, Active, Messages
  <2>2. QED BY <1>12, <2>1 DEF MarkSuccess
<1>13. ASSUME NEW w \in Workers, MarkPublished(w) PROVE OneActiveJob'
  BY <1>13 DEF MarkPublished, JobsIn
<1>14. ASSUME NEW w \in Workers, MarkFailed(w) PROVE OneActiveJob'
  <2>1. \A t \in Targets : JobsIn(t, Active)' \subseteq JobsIn(t, Active)
    BY <1>14 DEF MarkFailed, JobsIn, Active, Messages
  <2>2. QED BY <1>14, <2>1 DEF MarkFailed
<1>15. ASSUME NEW w \in Workers, MarkTargetFailed(w) PROVE OneActiveJob'
  BY <1>15 DEF MarkTargetFailed, JobsIn
<1>16. ASSUME NEW w \in Workers, SendRetry(w) PROVE OneActiveJob'
  BY <1>16 DEF SendRetry, Goto, JobsIn
<1>17. ASSUME NEW w \in Workers, OnFailure(w) PROVE OneActiveJob'
  BY <1>17 DEF OnFailure, Goto, JobsIn
<1>18. ASSUME NEW w \in Workers, RowGone(w) PROVE OneActiveJob'
  <2>1. T(w) \in Targets
    BY <1>18 DEF RowGone, T, Messages
  <2>2. QED BY <1>18, <2>1 DEF RowGone, OneActiveJob
<1>19. ASSUME NEW w \in Workers, Ack(w) PROVE OneActiveJob'
  BY <1>19 DEF Ack, Goto, JobsIn
<1>20. CASE UNCHANGED vars
  BY <1>20 DEF vars, JobsIn
<1>21. QED BY <1>1, <1>2, <1>3, <1>4, <1>5, <1>6, <1>7, <1>8, <1>9, <1>10, <1>11, <1>12, <1>13, <1>14, <1>15, <1>16, <1>17, <1>18, <1>19, <1>20, CalmStep DEF Step

\* A worker keeps the job it inserted, and nobody else runs or closes it before
\* it does: a job that is pending belongs to the attempt that nobody has answered.
LEMMA OwnJobHeldStep ==
  ASSUME BudgetInv, UndisturbedInv, [Next]_vars, Calm'
  PROVE  OwnJobHeld'
<1> USE DEF rows, platform, locals, budgets, BudgetInv, DeliveryInv, TypeOK, UndisturbedInv, OwnJobHeld, Claiming, Phase, PhaseInv, T
<1>1. ASSUME NEW t \in Targets, Dispatch(t) PROVE OwnJobHeld'
  BY <1>1 DEF Dispatch
<1>2. ASSUME NEW w \in Workers, NEW m \in Messages, Receive(w, m) PROVE OwnJobHeld'
  BY <1>2 DEF Receive, Goto
<1>3. ASSUME NEW w \in Workers, Fetch(w) PROVE OwnJobHeld'
  BY <1>3 DEF Fetch, Goto
<1>4. ASSUME NEW w \in Workers, Cleanup(w) PROVE OwnJobHeld'
  <2>1. ASSUME NEW m \in Messages, job[m] = "PENDING" PROVE job'[m] = "PENDING"
    <3>1. m = <<m[1], m[2]>>
      BY DEF Messages
    <3>2. ~ (m[1] = T(w) /\ m[2] \in JobsIn(T(w), {"RUNNING"}))
      BY <2>1, <3>1 DEF JobsIn
    <3>3. QED BY <1>4, <2>1, <3>2 DEF Cleanup
  <2>2. QED BY <1>4, <2>1 DEF Cleanup, Goto
<1>5. ASSUME NEW w \in Workers, Reset(w) PROVE OwnJobHeld'
  BY <1>5 DEF Reset, Goto
<1>6. ASSUME NEW w \in Workers, Create(w) PROVE OwnJobHeld'
  <2>1. T(w) \in Targets /\ msg[w] \in Messages /\ msg[w] = <<T(w), msg[w][2]>> /\ msg[w][2] \in Attempts
    BY <1>6 DEF Create, T, Messages
  <2>2. CASE Insertable(msg[w]) /\ job' = [job EXCEPT ![msg[w]] = "PENDING"] /\ held' = [held EXCEPT ![w] = msg[w][2]] /\ Goto(w, "markRunning")
    <3>1. \A v \in Workers : pc[v] = "markRunning" => msg[v] # msg[w]
      BY <2>2 DEF Insertable
    <3>2. QED BY <1>6, <2>1, <2>2, <3>1 DEF Create, Goto
  <2>3. CASE Goto(w, "ack") /\ UNCHANGED <<job, held>>
    BY <1>6, <2>3 DEF Create, Goto
  <2>4. QED BY <1>6, <2>2, <2>3 DEF Create
<1>7. ASSUME NEW w \in Workers, MarkRunning(w) PROVE OwnJobHeld'
  <2>1. T(w) \in Targets /\ msg[w] \in Messages /\ msg[w] = <<T(w), msg[w][2]>> /\ msg[w][2] \in Attempts
    BY <1>7 DEF MarkRunning, T, Messages
  <2>2. held[w] = msg[w][2] /\ job[msg[w]] = "PENDING"
    BY <1>7 DEF MarkRunning
  <2>3. held[w] \in JobsIn(T(w), Active)
    BY <2>1, <2>2 DEF JobsIn, Active
  <2>4. JobsIn(T(w), Active) \ {held[w]} = {}
    BY <2>1, <2>3 DEF OneActiveJob
  <2>5. \A v \in Workers : v # w /\ pc[v] = "markRunning" => msg[v] # msg[w]
    BY <1>7 DEF MarkRunning, ClaimInv
  <2>6. QED BY <1>7, <2>1, <2>2, <2>4, <2>5 DEF MarkRunning, Goto
<1>8. ASSUME NEW w \in Workers, SetPublishing(w) PROVE OwnJobHeld'
  BY <1>8 DEF SetPublishing, Goto
<1>9. ASSUME NEW w \in Workers, SyncRead(w) PROVE OwnJobHeld'
  BY <1>9 DEF SyncRead, Goto
<1>10. ASSUME NEW w \in Workers, SyncWrite(w) PROVE OwnJobHeld'
  BY <1>10 DEF SyncWrite, Goto
<1>11. ASSUME NEW w \in Workers, CallPublish(w) PROVE OwnJobHeld'
  <2>1. answers[msg[w]] = "none" /\ msg[w] \in Messages /\ held[w] = msg[w][2]
    BY <1>11 DEF CallPublish, ClaimInv
  <2>2. \A v \in Workers : pc[v] \in {"markSuccess", "markFailed"} => msg[v] # msg[w]
    BY <2>1
  <2>3. QED BY <1>11, <2>1, <2>2 DEF CallPublish, Goto
<1>12. ASSUME NEW w \in Workers, MarkSuccess(w) PROVE OwnJobHeld'
  <2>1. T(w) \in Targets /\ msg[w] \in Messages /\ msg[w] = <<T(w), msg[w][2]>> /\ msg[w][2] \in Attempts
    BY <1>12 DEF MarkSuccess, T, Messages
  <2>2. \A v \in Workers : pc[v] = "markRunning" => msg[v] # msg[w]
    BY <1>12 DEF MarkSuccess, ClaimInv
  <2>3. held[w] = msg[w][2]
    BY <1>12 DEF MarkSuccess
  <2>4. QED BY <1>12, <2>1, <2>2, <2>3 DEF MarkSuccess, Goto
<1>13. ASSUME NEW w \in Workers, MarkPublished(w) PROVE OwnJobHeld'
  BY <1>13 DEF MarkPublished, Goto
<1>14. ASSUME NEW w \in Workers, MarkFailed(w) PROVE OwnJobHeld'
  <2>1. T(w) \in Targets /\ msg[w] \in Messages /\ msg[w] = <<T(w), msg[w][2]>> /\ msg[w][2] \in Attempts
    BY <1>14 DEF MarkFailed, T, Messages
  <2>2. \A v \in Workers : pc[v] = "markRunning" => msg[v] # msg[w]
    BY <1>14 DEF MarkFailed, ClaimInv
  <2>3. held[w] = msg[w][2]
    BY <1>14 DEF MarkFailed
  <2>4. QED BY <1>14, <2>1, <2>2, <2>3 DEF MarkFailed, Goto
<1>15. ASSUME NEW w \in Workers, MarkTargetFailed(w) PROVE OwnJobHeld'
  BY <1>15 DEF MarkTargetFailed, Goto
<1>16. ASSUME NEW w \in Workers, SendRetry(w) PROVE OwnJobHeld'
  BY <1>16 DEF SendRetry, Goto
<1>17. ASSUME NEW w \in Workers, OnFailure(w) PROVE OwnJobHeld'
  BY <1>17 DEF OnFailure, NobodyRaised, Goto
<1>18. ASSUME NEW w \in Workers, RowGone(w) PROVE OwnJobHeld'
  <2>1. T(w) \in Targets
    BY <1>18 DEF RowGone, T, Messages
  <2>2. QED BY <1>18, <2>1 DEF RowGone, OneActiveJob
<1>19. ASSUME NEW w \in Workers, Ack(w) PROVE OwnJobHeld'
  BY <1>19 DEF Ack, Goto
<1>20. CASE UNCHANGED vars
  BY <1>20 DEF vars
<1>21. QED BY <1>1, <1>2, <1>3, <1>4, <1>5, <1>6, <1>7, <1>8, <1>9, <1>10, <1>11, <1>12, <1>13, <1>14, <1>15, <1>16, <1>17, <1>18, <1>19, <1>20, CalmStep DEF Step

\* The last refusal is the one of the last attempt, and it followed all the others.
LEMMA LastRefusalStep ==
  ASSUME BudgetInv, UndisturbedInv, [Next]_vars, Calm'
  PROVE  LastRefusal'
<1> USE DEF rows, platform, locals, budgets, BudgetInv, DeliveryInv, TypeOK, UndisturbedInv, LastRefusal
<1>0. \A n \in Messages : answers[n] # "none" => answers'[n] = answers[n]
  BY AnswersStep
<1>a. \A t \in Targets, k \in Attempts : <<t, k>> \in Messages
  BY DEF Messages
<1>1. ASSUME NEW t \in Targets, Dispatch(t) PROVE LastRefusal'
  BY <1>1 DEF Dispatch
<1>2. ASSUME NEW w \in Workers, NEW m \in Messages, Receive(w, m) PROVE LastRefusal'
  BY <1>2 DEF Receive, Goto
<1>3. ASSUME NEW w \in Workers, Fetch(w) PROVE LastRefusal'
  BY <1>3, <1>0, <1>a DEF Fetch, Goto
<1>4. ASSUME NEW w \in Workers, Cleanup(w) PROVE LastRefusal'
  BY <1>4, <1>0, <1>a DEF Cleanup, Goto
<1>5. ASSUME NEW w \in Workers, Reset(w) PROVE LastRefusal'
  BY <1>5, <1>0, <1>a DEF Reset, Goto
<1>6. ASSUME NEW w \in Workers, Create(w) PROVE LastRefusal'
  BY <1>6, <1>0, <1>a DEF Create, Goto
<1>7. ASSUME NEW w \in Workers, MarkRunning(w) PROVE LastRefusal'
  BY <1>7, <1>0, <1>a DEF MarkRunning, Goto, Raise
<1>8. ASSUME NEW w \in Workers, SetPublishing(w) PROVE LastRefusal'
  BY <1>8, <1>0, <1>a DEF SetPublishing, Goto
<1>9. ASSUME NEW w \in Workers, SyncRead(w) PROVE LastRefusal'
  BY <1>9, <1>0, <1>a DEF SyncRead, Goto
<1>10. ASSUME NEW w \in Workers, SyncWrite(w) PROVE LastRefusal'
  BY <1>10, <1>0, <1>a DEF SyncWrite, Goto
<1>11. ASSUME NEW w \in Workers, CallPublish(w) PROVE LastRefusal'
  BY <1>11, <1>0, <1>a DEF CallPublish, Goto
<1>12. ASSUME NEW w \in Workers, MarkSuccess(w) PROVE LastRefusal'
  BY <1>12, <1>0, <1>a DEF MarkSuccess, Goto
<1>13. ASSUME NEW w \in Workers, MarkPublished(w) PROVE LastRefusal'
  BY <1>13, <1>0, <1>a DEF MarkPublished, Goto
<1>14. ASSUME NEW w \in Workers, MarkFailed(w) PROVE LastRefusal'
  <2>1. msg[w] \in Messages /\ phase[w] # "handler" /\ answers[msg[w]] = "fail"
    BY <1>14 DEF MarkFailed, NobodyRaised, OwnJobHeld
  <2>2. QED BY <1>14, <1>0, <1>a, <2>1 DEF MarkFailed, IsFinal, Goto
<1>15. ASSUME NEW w \in Workers, MarkTargetFailed(w) PROVE LastRefusal'
  <2>1. T(w) \in Targets /\ msg[w] \in Messages /\ msg[w] = <<T(w), msg[w][2]>> /\ msg[w][2] \in Attempts
    BY <1>15 DEF MarkTargetFailed, T, Messages
  <2>2. answers[msg[w]] = "fail" /\ Refused(msg[w]) /\ msg[w][2] = MaxRetries
    <3>1. answers[msg[w]] = "fail" /\ msg[w][2] >= MaxRetries
      BY <1>15 DEF MarkTargetFailed
    <3>2. Refused(msg[w])
      BY <1>15 DEF MarkTargetFailed, RefusedInv
    <3>3. QED BY <2>1, <3>1, <3>2, ConstantsAssumption DEF Attempts
  <2>3. \A k \in Attempts : answers[<<T(w), k>>] = "fail"
    BY <2>1, <2>2, ConstantsAssumption DEF Refused, Attempts, T
  <2>4. QED BY <1>15, <1>0, <1>a, <2>1, <2>3 DEF MarkTargetFailed, Goto
<1>16. ASSUME NEW w \in Workers, SendRetry(w) PROVE LastRefusal'
  BY <1>16, <1>0, <1>a DEF SendRetry, Goto
<1>17. ASSUME NEW w \in Workers, OnFailure(w) PROVE LastRefusal'
  BY <1>17, <1>0, <1>a DEF OnFailure, Goto
<1>18. ASSUME NEW w \in Workers, RowGone(w) PROVE LastRefusal'
  <2>1. T(w) \in Targets
    BY <1>18 DEF RowGone, T, Messages
  <2>2. QED BY <1>18, <2>1 DEF RowGone, OneActiveJob
<1>19. ASSUME NEW w \in Workers, Ack(w) PROVE LastRefusal'
  BY <1>19, <1>0, <1>a DEF Ack, Goto
<1>20. CASE UNCHANGED vars
  BY <1>20 DEF vars
<1>21. QED BY <1>1, <1>2, <1>3, <1>4, <1>5, <1>6, <1>7, <1>8, <1>9, <1>10, <1>11, <1>12, <1>13, <1>14, <1>15, <1>16, <1>17, <1>18, <1>19, <1>20, CalmStep DEF Step

\* BudgetInv holds initially and is kept.
LEMMA BudgetInduction ==
  /\ Init => BudgetInv
  /\ BudgetInv /\ [Next]_vars => BudgetInv'
<1>1. Init => UndisturbedInv
  BY DEF Init, UndisturbedInv, NobodyRaised, OneActiveJob, OwnJobHeld, LastRefusal,
         JobsIn, Active, Claiming, Messages
<1>2. ASSUME BudgetInv, [Next]_vars, Calm' PROVE UndisturbedInv'
  <2>1. UndisturbedInv
    BY <1>2, CalmStep DEF BudgetInv, DeliveryInv
  <2>2. QED BY <1>2, <2>1, NobodyRaisedStep, OneActiveJobStep, OwnJobHeldStep,
               LastRefusalStep DEF UndisturbedInv
<1>3. QED BY <1>1, <1>2, InitDeliveryInv, NextDeliveryInv DEF BudgetInv

\* While nothing fails and nobody interferes, a target is given up only after
\* the platform refused every attempt of its retry budget, whatever messages
\* are dispatched again and however the workers interleave.
THEOREM GivenUpAfterBudget == Spec => []GiveUpOnlyAfterBudget
<1>1. BudgetInv => GiveUpOnlyAfterBudget
  BY DEF BudgetInv, Calm, UndisturbedInv, LastRefusal, GiveUpOnlyAfterBudget
<1>2. QED BY BudgetInduction, <1>1, PTL DEF Spec


-----------------------------------------------------------------------------
(* Nobody is abandoned, and nobody is tried again *)

\* Only the insertion of its job makes a worker attempt a message, and while it
\* does it keeps the message and the job.
LEMMA AttemptFrame ==
  ASSUME TypeOK, PhaseInv, [Next]_vars
  PROVE  \A v \in Workers :
           Attempting(v)' =>
             /\ msg'[v] = msg[v]
             /\ \/ Attempting(v) /\ held'[v] = held[v]
                \/ Create(v) /\ Insertable(msg[v])
<1> DEFINE G ==
      \A v \in Workers :
        Attempting(v)' =>
          /\ msg'[v] = msg[v]
          /\ \/ Attempting(v) /\ held'[v] = held[v]
             \/ Create(v) /\ Insertable(msg[v])
<1> USE DEF rows, platform, locals, budgets, TypeOK, PhaseInv, Attempting, Claiming
<1>1. ASSUME NEW t \in Targets, Dispatch(t) PROVE G
  BY <1>1 DEF Dispatch
<1>2. ASSUME NEW t \in Targets, AdminMarkFailed(t) PROVE G
  BY <1>2 DEF AdminMarkFailed
<1>3. ASSUME NEW t \in Targets, AdminReschedule(t) PROVE G
  BY <1>3 DEF AdminReschedule
<1>4. ASSUME NEW p \in Posts, DeletePost(p) PROVE G
  BY <1>4 DEF DeletePost
<1>5. ASSUME NEW w \in Workers, NEW m \in Messages, Receive(w, m) PROVE G
  BY <1>5 DEF Receive, Goto
<1>6. ASSUME NEW w \in Workers, Fetch(w) PROVE G
  BY <1>6 DEF Fetch, Goto
<1>7. ASSUME NEW w \in Workers, Cleanup(w) PROVE G
  BY <1>7 DEF Cleanup, Goto
<1>8. ASSUME NEW w \in Workers, Reset(w) PROVE G
  BY <1>8 DEF Reset, Goto
<1>9. ASSUME NEW w \in Workers, Create(w) PROVE G
  BY <1>9 DEF Create, Goto
<1>10. ASSUME NEW w \in Workers, MarkRunning(w) PROVE G
  BY <1>10 DEF MarkRunning, Goto, Raise
<1>11. ASSUME NEW w \in Workers, SetPublishing(w) PROVE G
  BY <1>11 DEF SetPublishing, Goto
<1>12. ASSUME NEW w \in Workers, SyncRead(w) PROVE G
  BY <1>12 DEF SyncRead, Goto
<1>13. ASSUME NEW w \in Workers, SyncWrite(w) PROVE G
  BY <1>13 DEF SyncWrite, Goto
<1>14. ASSUME NEW w \in Workers, CallPublish(w) PROVE G
  BY <1>14 DEF CallPublish, Goto
<1>15. ASSUME NEW w \in Workers, MarkSuccess(w) PROVE G
  BY <1>15 DEF MarkSuccess, Goto
<1>16. ASSUME NEW w \in Workers, MarkPublished(w) PROVE G
  BY <1>16 DEF MarkPublished, Goto
<1>17. ASSUME NEW w \in Workers, MarkFailed(w) PROVE G
  BY <1>17 DEF MarkFailed, Goto
<1>18. ASSUME NEW w \in Workers, MarkTargetFailed(w) PROVE G
  BY <1>18 DEF MarkTargetFailed, Goto
<1>19. ASSUME NEW w \in Workers, SendRetry(w) PROVE G
  BY <1>19 DEF SendRetry, Goto
<1>20. ASSUME NEW w \in Workers, OnFailure(w) PROVE G
  BY <1>20 DEF OnFailure, Goto
<1>21. ASSUME NEW w \in Workers, RowGone(w) PROVE G
  BY <1>21 DEF RowGone, Goto, Raise
<1>22. ASSUME NEW w \in Workers, Ack(w) PROVE G
  BY <1>22 DEF Ack, Goto
<1>23. ASSUME NEW w \in Workers, Error(w) PROVE G
  <2>1. CASE pc[w] = "retry"
    BY <1>23, <2>1 DEF Error, Goto
  <2>2. CASE pc[w] # "retry"
    BY <1>23, <2>2 DEF Error, Goto, Raise
  <2>3. QED BY <2>1, <2>2
<1>24. ASSUME NEW w \in Workers, Crash(w) PROVE G
  BY <1>24 DEF Crash, Goto
<1>25. ASSUME NEW w \in Workers, Redeliver(w) PROVE G
  BY <1>25 DEF Redeliver
<1>26. CASE UNCHANGED vars
  BY <1>26 DEF vars
<1>27. QED
  BY <1>1, <1>2, <1>3, <1>4, <1>5, <1>6, <1>7, <1>8, <1>9, <1>10, <1>11, <1>12, <1>13,
     <1>14, <1>15, <1>16, <1>17, <1>18, <1>19, <1>20, <1>21, <1>22, <1>23, <1>24, <1>25,
     <1>26 DEF Next, Step, Fault

\* A message enters the queue as a first attempt, as the retry of an attempt, or as
\* a copy of a held one, after a fault.
LEMMA QueueFrame ==
  ASSUME TypeOK, [Next]_vars
  PROVE  \A n \in Messages :
           queue'[n] > 0 =>
             \/ queue[n] > 0
             \/ n[2] = 0
             \/ \E v \in Workers : SendRetry(v) /\ n = <<T(v), msg[v][2] + 1>>
             \/ faults' # 0 /\ \E v \in Workers : pc[v] # "idle" /\ msg[v] = n
<1> DEFINE G ==
      \A n \in Messages :
        queue'[n] > 0 =>
          \/ queue[n] > 0
          \/ n[2] = 0
          \/ \E v \in Workers : SendRetry(v) /\ n = <<T(v), msg[v][2] + 1>>
          \/ faults' # 0 /\ \E v \in Workers : pc[v] # "idle" /\ msg[v] = n
<1> USE DEF rows, platform, locals, budgets, TypeOK
<1>1. ASSUME NEW t \in Targets, Dispatch(t) PROVE G
  <2>1. \A n \in Messages : n # <<t, 0>> => queue'[n] = queue[n]
    BY <1>1 DEF Dispatch
  <2>2. QED BY <2>1
<1>2. ASSUME NEW t \in Targets, AdminMarkFailed(t) PROVE G
  BY <1>2 DEF AdminMarkFailed
<1>3. ASSUME NEW t \in Targets, AdminReschedule(t) PROVE G
  BY <1>3 DEF AdminReschedule
<1>4. ASSUME NEW p \in Posts, DeletePost(p) PROVE G
  BY <1>4 DEF DeletePost
<1>5. ASSUME NEW w \in Workers, NEW m \in Messages, Receive(w, m) PROVE G
  <2>1. \A n \in Messages : queue'[n] = queue[n] \/ (n = m /\ queue[n] > 0)
    BY <1>5 DEF Receive
  <2>2. QED BY <2>1
<1>6. ASSUME NEW w \in Workers, Fetch(w) PROVE G
  BY <1>6 DEF Fetch, Goto
<1>7. ASSUME NEW w \in Workers, Cleanup(w) PROVE G
  BY <1>7 DEF Cleanup, Goto
<1>8. ASSUME NEW w \in Workers, Reset(w) PROVE G
  BY <1>8 DEF Reset, Goto
<1>9. ASSUME NEW w \in Workers, Create(w) PROVE G
  BY <1>9 DEF Create, Goto
<1>10. ASSUME NEW w \in Workers, MarkRunning(w) PROVE G
  BY <1>10 DEF MarkRunning, Goto, Raise
<1>11. ASSUME NEW w \in Workers, SetPublishing(w) PROVE G
  BY <1>11 DEF SetPublishing, Goto
<1>12. ASSUME NEW w \in Workers, SyncRead(w) PROVE G
  BY <1>12 DEF SyncRead, Goto
<1>13. ASSUME NEW w \in Workers, SyncWrite(w) PROVE G
  BY <1>13 DEF SyncWrite, Goto
<1>14. ASSUME NEW w \in Workers, CallPublish(w) PROVE G
  BY <1>14 DEF CallPublish, Goto
<1>15. ASSUME NEW w \in Workers, MarkSuccess(w) PROVE G
  BY <1>15 DEF MarkSuccess, Goto
<1>16. ASSUME NEW w \in Workers, MarkPublished(w) PROVE G
  BY <1>16 DEF MarkPublished, Goto
<1>17. ASSUME NEW w \in Workers, MarkFailed(w) PROVE G
  BY <1>17 DEF MarkFailed, Goto
<1>18. ASSUME NEW w \in Workers, MarkTargetFailed(w) PROVE G
  BY <1>18 DEF MarkTargetFailed, Goto
<1>19. ASSUME NEW w \in Workers, SendRetry(w) PROVE G
  <2>1. \A n \in Messages : n # <<T(w), msg[w][2] + 1>> => queue'[n] = queue[n]
    BY <1>19 DEF SendRetry
  <2>2. QED BY <1>19, <2>1
<1>20. ASSUME NEW w \in Workers, OnFailure(w) PROVE G
  BY <1>20 DEF OnFailure, Goto
<1>21. ASSUME NEW w \in Workers, RowGone(w) PROVE G
  BY <1>21 DEF RowGone, Goto, Raise
<1>22. ASSUME NEW w \in Workers, Ack(w) PROVE G
  BY <1>22 DEF Ack, Goto
<1>23. ASSUME NEW w \in Workers, Error(w) PROVE G
  BY <1>23 DEF Error, Goto, Raise
<1>24. ASSUME NEW w \in Workers, Crash(w) PROVE G
  <2>1. \A n \in Messages : n # msg[w] => queue'[n] = queue[n]
    BY <1>24 DEF Crash
  <2>2. pc[w] # "idle" /\ faults' # 0
    BY <1>24 DEF Crash
  <2>3. QED BY <2>1, <2>2
<1>25. ASSUME NEW w \in Workers, Redeliver(w) PROVE G
  <2>1. \A n \in Messages : n # msg[w] => queue'[n] = queue[n]
    BY <1>25 DEF Redeliver
  <2>2. pc[w] # "idle" /\ faults' # 0
    BY <1>25 DEF Redeliver
  <2>3. QED BY <2>1, <2>2
<1>26. CASE UNCHANGED vars
  BY <1>26 DEF vars
<1>27. QED
  BY <1>1, <1>2, <1>3, <1>4, <1>5, <1>6, <1>7, <1>8, <1>9, <1>10, <1>11, <1>12, <1>13,
     <1>14, <1>15, <1>16, <1>17, <1>18, <1>19, <1>20, <1>21, <1>22, <1>23, <1>24, <1>25,
     <1>26 DEF Next, Step, Fault

\* A worker gets its message from the queue, and keeps it until it is idle again.
LEMMA HeldFrame ==
  ASSUME TypeOK, PhaseInv, [Next]_vars
  PROVE  \A v \in Workers :
           \/ msg'[v] = msg[v] /\ (pc[v] = "idle" => pc'[v] = "idle")
           \/ msg'[v] = NoMessage /\ pc'[v] = "idle"
           \/ \E n \in Messages :
                Receive(v, n) /\ msg'[v] = n /\ pc'[v] = "fetch" /\ phase'[v] = "begin"
<1> DEFINE G ==
      \A v \in Workers :
        \/ msg'[v] = msg[v] /\ (pc[v] = "idle" => pc'[v] = "idle")
        \/ msg'[v] = NoMessage /\ pc'[v] = "idle"
        \/ \E n \in Messages :
             Receive(v, n) /\ msg'[v] = n /\ pc'[v] = "fetch" /\ phase'[v] = "begin"
<1> USE DEF rows, platform, locals, budgets, TypeOK, PhaseInv
<1>1. ASSUME NEW t \in Targets, Dispatch(t) PROVE G
  BY <1>1 DEF Dispatch
<1>2. ASSUME NEW t \in Targets, AdminMarkFailed(t) PROVE G
  BY <1>2 DEF AdminMarkFailed
<1>3. ASSUME NEW t \in Targets, AdminReschedule(t) PROVE G
  BY <1>3 DEF AdminReschedule
<1>4. ASSUME NEW p \in Posts, DeletePost(p) PROVE G
  BY <1>4 DEF DeletePost
<1>5. ASSUME NEW w \in Workers, NEW m \in Messages, Receive(w, m) PROVE G
  BY <1>5 DEF Receive, Goto, Label
<1>6. ASSUME NEW w \in Workers, Fetch(w) PROVE G
  BY <1>6 DEF Fetch, Goto
<1>7. ASSUME NEW w \in Workers, Cleanup(w) PROVE G
  BY <1>7 DEF Cleanup, Goto
<1>8. ASSUME NEW w \in Workers, Reset(w) PROVE G
  BY <1>8 DEF Reset, Goto
<1>9. ASSUME NEW w \in Workers, Create(w) PROVE G
  BY <1>9 DEF Create, Goto
<1>10. ASSUME NEW w \in Workers, MarkRunning(w) PROVE G
  BY <1>10 DEF MarkRunning, Goto, Raise
<1>11. ASSUME NEW w \in Workers, SetPublishing(w) PROVE G
  BY <1>11 DEF SetPublishing, Goto
<1>12. ASSUME NEW w \in Workers, SyncRead(w) PROVE G
  BY <1>12 DEF SyncRead, Goto
<1>13. ASSUME NEW w \in Workers, SyncWrite(w) PROVE G
  BY <1>13 DEF SyncWrite, Goto
<1>14. ASSUME NEW w \in Workers, CallPublish(w) PROVE G
  BY <1>14 DEF CallPublish, Goto
<1>15. ASSUME NEW w \in Workers, MarkSuccess(w) PROVE G
  BY <1>15 DEF MarkSuccess, Goto
<1>16. ASSUME NEW w \in Workers, MarkPublished(w) PROVE G
  BY <1>16 DEF MarkPublished, Goto
<1>17. ASSUME NEW w \in Workers, MarkFailed(w) PROVE G
  BY <1>17 DEF MarkFailed, Goto
<1>18. ASSUME NEW w \in Workers, MarkTargetFailed(w) PROVE G
  BY <1>18 DEF MarkTargetFailed, Goto
<1>19. ASSUME NEW w \in Workers, SendRetry(w) PROVE G
  BY <1>19 DEF SendRetry, Goto
<1>20. ASSUME NEW w \in Workers, OnFailure(w) PROVE G
  BY <1>20 DEF OnFailure, Goto
<1>21. ASSUME NEW w \in Workers, RowGone(w) PROVE G
  BY <1>21 DEF RowGone, Goto, Raise
<1>22. ASSUME NEW w \in Workers, Ack(w) PROVE G
  BY <1>22 DEF Ack, Goto
<1>23. ASSUME NEW w \in Workers, Error(w) PROVE G
  <2>1. CASE pc[w] = "retry"
    BY <1>23, <2>1 DEF Error, Goto
  <2>2. CASE pc[w] # "retry"
    BY <1>23, <2>2 DEF Error, Goto, Raise
  <2>3. QED BY <2>1, <2>2
<1>24. ASSUME NEW w \in Workers, Crash(w) PROVE G
  BY <1>24 DEF Crash, Goto
<1>25. ASSUME NEW w \in Workers, Redeliver(w) PROVE G
  BY <1>25 DEF Redeliver
<1>26. CASE UNCHANGED vars
  BY <1>26 DEF vars
<1>27. QED
  BY <1>1, <1>2, <1>3, <1>4, <1>5, <1>6, <1>7, <1>8, <1>9, <1>10, <1>11, <1>12, <1>13,
     <1>14, <1>15, <1>16, <1>17, <1>18, <1>19, <1>20, <1>21, <1>22, <1>23, <1>24, <1>25,
     <1>26 DEF Next, Step, Fault

\* A deleted target does not come back.
LEMMA GoneFrame ==
  ASSUME TypeOK, [Next]_vars
  PROVE  \A t \in Targets : target[t] = "GONE" => target'[t] = "GONE"
<1> DEFINE G ==
      \A t \in Targets : target[t] = "GONE" => target'[t] = "GONE"
<1> USE DEF rows, platform, locals, budgets, TypeOK, T
<1>1. ASSUME NEW t \in Targets, Dispatch(t) PROVE G
  BY <1>1, MessageFacts DEF Dispatch
<1>2. ASSUME NEW t \in Targets, AdminMarkFailed(t) PROVE G
  BY <1>2, MessageFacts DEF AdminMarkFailed
<1>3. ASSUME NEW t \in Targets, AdminReschedule(t) PROVE G
  BY <1>3, MessageFacts DEF AdminReschedule
<1>4. ASSUME NEW p \in Posts, DeletePost(p) PROVE G
  BY <1>4, MessageFacts DEF DeletePost
<1>5. ASSUME NEW w \in Workers, NEW m \in Messages, Receive(w, m) PROVE G
  BY <1>5, MessageFacts DEF Receive, Goto
<1>6. ASSUME NEW w \in Workers, Fetch(w) PROVE G
  BY <1>6, MessageFacts DEF Fetch, Goto
<1>7. ASSUME NEW w \in Workers, Cleanup(w) PROVE G
  BY <1>7, MessageFacts DEF Cleanup, Goto
<1>8. ASSUME NEW w \in Workers, Reset(w) PROVE G
  BY <1>8, MessageFacts DEF Reset, Goto
<1>9. ASSUME NEW w \in Workers, Create(w) PROVE G
  BY <1>9, MessageFacts DEF Create, Goto
<1>10. ASSUME NEW w \in Workers, MarkRunning(w) PROVE G
  BY <1>10, MessageFacts DEF MarkRunning, Goto, Raise
<1>11. ASSUME NEW w \in Workers, SetPublishing(w) PROVE G
  BY <1>11, MessageFacts DEF SetPublishing, Goto
<1>12. ASSUME NEW w \in Workers, SyncRead(w) PROVE G
  BY <1>12, MessageFacts DEF SyncRead, Goto
<1>13. ASSUME NEW w \in Workers, SyncWrite(w) PROVE G
  BY <1>13, MessageFacts DEF SyncWrite, Goto
<1>14. ASSUME NEW w \in Workers, CallPublish(w) PROVE G
  BY <1>14, MessageFacts DEF CallPublish, Goto
<1>15. ASSUME NEW w \in Workers, MarkSuccess(w) PROVE G
  BY <1>15, MessageFacts DEF MarkSuccess, Goto
<1>16. ASSUME NEW w \in Workers, MarkPublished(w) PROVE G
  BY <1>16, MessageFacts DEF MarkPublished, Goto
<1>17. ASSUME NEW w \in Workers, MarkFailed(w) PROVE G
  BY <1>17, MessageFacts DEF MarkFailed, Goto
<1>18. ASSUME NEW w \in Workers, MarkTargetFailed(w) PROVE G
  BY <1>18, MessageFacts DEF MarkTargetFailed, Goto
<1>19. ASSUME NEW w \in Workers, SendRetry(w) PROVE G
  BY <1>19, MessageFacts DEF SendRetry, Goto
<1>20. ASSUME NEW w \in Workers, OnFailure(w) PROVE G
  BY <1>20, MessageFacts DEF OnFailure, Goto
<1>21. ASSUME NEW w \in Workers, RowGone(w) PROVE G
  BY <1>21, MessageFacts DEF RowGone, Goto, Raise
<1>22. ASSUME NEW w \in Workers, Ack(w) PROVE G
  BY <1>22, MessageFacts DEF Ack, Goto
<1>23. ASSUME NEW w \in Workers, Error(w) PROVE G
  BY <1>23, MessageFacts DEF Error, Goto, Raise
<1>24. ASSUME NEW w \in Workers, Crash(w) PROVE G
  BY <1>24, MessageFacts DEF Crash, Goto
<1>25. ASSUME NEW w \in Workers, Redeliver(w) PROVE G
  BY <1>25, MessageFacts DEF Redeliver
<1>26. CASE UNCHANGED vars
  BY <1>26 DEF vars
<1>27. QED
  BY <1>1, <1>2, <1>3, <1>4, <1>5, <1>6, <1>7, <1>8, <1>9, <1>10, <1>11, <1>12, <1>13,
     <1>14, <1>15, <1>16, <1>17, <1>18, <1>19, <1>20, <1>21, <1>22, <1>23, <1>24, <1>25,
     <1>26 DEF Next, Step, Fault

\* Without faults, a statement raises only when the row is gone or another job is active.
LEMMA RaisedFrame ==
  ASSUME TypeOK, PhaseInv, faults' = 0, [Next]_vars
  PROVE  \A v \in Workers :
           phase'[v] = "handler" =>
             \/ phase[v] = "handler" /\ msg'[v] = msg[v]
             \/ RowGone(v)
             \/ MarkRunning(v) /\ JobsIn(T(v), Active) \ {held[v]} # {}
<1> DEFINE G ==
      \A v \in Workers :
        phase'[v] = "handler" =>
          \/ phase[v] = "handler" /\ msg'[v] = msg[v]
          \/ RowGone(v)
          \/ MarkRunning(v) /\ JobsIn(T(v), Active) \ {held[v]} # {}
<1> USE DEF rows, platform, locals, budgets, TypeOK, PhaseInv
<1>1. ASSUME NEW t \in Targets, Dispatch(t) PROVE G
  BY <1>1 DEF Dispatch
<1>2. ASSUME NEW t \in Targets, AdminMarkFailed(t) PROVE G
  BY <1>2 DEF AdminMarkFailed
<1>3. ASSUME NEW t \in Targets, AdminReschedule(t) PROVE G
  BY <1>3 DEF AdminReschedule
<1>4. ASSUME NEW p \in Posts, DeletePost(p) PROVE G
  BY <1>4 DEF DeletePost
<1>5. ASSUME NEW w \in Workers, NEW m \in Messages, Receive(w, m) PROVE G
  BY <1>5 DEF Receive, Goto
<1>6. ASSUME NEW w \in Workers, Fetch(w) PROVE G
  BY <1>6 DEF Fetch, Goto
<1>7. ASSUME NEW w \in Workers, Cleanup(w) PROVE G
  BY <1>7 DEF Cleanup, Goto
<1>8. ASSUME NEW w \in Workers, Reset(w) PROVE G
  BY <1>8 DEF Reset, Goto
<1>9. ASSUME NEW w \in Workers, Create(w) PROVE G
  BY <1>9 DEF Create, Goto
<1>10. ASSUME NEW w \in Workers, MarkRunning(w) PROVE G
  <2>1. CASE JobsIn(T(w), Active) \ {held[w]} # {}
    BY <1>10, <2>1 DEF MarkRunning, Goto, Raise
  <2>2. CASE JobsIn(T(w), Active) \ {held[w]} = {}
    BY <1>10, <2>2 DEF MarkRunning, Goto
  <2>3. QED BY <2>1, <2>2
<1>11. ASSUME NEW w \in Workers, SetPublishing(w) PROVE G
  BY <1>11 DEF SetPublishing, Goto
<1>12. ASSUME NEW w \in Workers, SyncRead(w) PROVE G
  BY <1>12 DEF SyncRead, Goto
<1>13. ASSUME NEW w \in Workers, SyncWrite(w) PROVE G
  BY <1>13 DEF SyncWrite, Goto
<1>14. ASSUME NEW w \in Workers, CallPublish(w) PROVE G
  BY <1>14 DEF CallPublish, Goto
<1>15. ASSUME NEW w \in Workers, MarkSuccess(w) PROVE G
  BY <1>15 DEF MarkSuccess, Goto
<1>16. ASSUME NEW w \in Workers, MarkPublished(w) PROVE G
  BY <1>16 DEF MarkPublished, Goto
<1>17. ASSUME NEW w \in Workers, MarkFailed(w) PROVE G
  BY <1>17 DEF MarkFailed, Goto
<1>18. ASSUME NEW w \in Workers, MarkTargetFailed(w) PROVE G
  BY <1>18 DEF MarkTargetFailed, Goto
<1>19. ASSUME NEW w \in Workers, SendRetry(w) PROVE G
  BY <1>19 DEF SendRetry, Goto
<1>20. ASSUME NEW w \in Workers, OnFailure(w) PROVE G
  BY <1>20 DEF OnFailure, Goto
<1>21. ASSUME NEW w \in Workers, RowGone(w) PROVE G
  BY <1>21 DEF RowGone, Goto, Raise
<1>22. ASSUME NEW w \in Workers, Ack(w) PROVE G
  BY <1>22 DEF Ack, Goto
<1>23. ASSUME NEW w \in Workers, Error(w) PROVE G
  BY <1>23 DEF Error, Goto, Raise
<1>24. ASSUME NEW w \in Workers, Crash(w) PROVE G
  BY <1>24 DEF Crash, Goto
<1>25. ASSUME NEW w \in Workers, Redeliver(w) PROVE G
  BY <1>25 DEF Redeliver
<1>26. CASE UNCHANGED vars
  BY <1>26 DEF vars
<1>27. QED
  BY <1>1, <1>2, <1>3, <1>4, <1>5, <1>6, <1>7, <1>8, <1>9, <1>10, <1>11, <1>12, <1>13,
     <1>14, <1>15, <1>16, <1>17, <1>18, <1>19, <1>20, <1>21, <1>22, <1>23, <1>24, <1>25,
     <1>26 DEF Next, Step, Fault

\* Without faults, an attempt ends only where the task records how it went, unless its
\* target is deleted or its job is refused.
LEMMA EndFrame ==
  ASSUME TypeOK, PhaseInv, faults' = 0, [Next]_vars
  PROVE  \A v \in Workers :
           Attempting(v) =>
             \/ Attempting(v)' /\ msg'[v] = msg[v]
             \/ MarkPublished(v)
             \/ MarkTargetFailed(v)
             \/ SendRetry(v)
             \/ RowGone(v)
             \/ MarkRunning(v) /\ JobsIn(T(v), Active) \ {held[v]} # {}
<1> DEFINE G ==
      \A v \in Workers :
        Attempting(v) =>
          \/ Attempting(v)' /\ msg'[v] = msg[v]
          \/ MarkPublished(v)
          \/ MarkTargetFailed(v)
          \/ SendRetry(v)
          \/ RowGone(v)
          \/ MarkRunning(v) /\ JobsIn(T(v), Active) \ {held[v]} # {}
<1> USE DEF rows, platform, locals, budgets, TypeOK, PhaseInv, Attempting, Claiming
<1>1. ASSUME NEW t \in Targets, Dispatch(t) PROVE G
  BY <1>1 DEF Dispatch
<1>2. ASSUME NEW t \in Targets, AdminMarkFailed(t) PROVE G
  BY <1>2 DEF AdminMarkFailed
<1>3. ASSUME NEW t \in Targets, AdminReschedule(t) PROVE G
  BY <1>3 DEF AdminReschedule
<1>4. ASSUME NEW p \in Posts, DeletePost(p) PROVE G
  BY <1>4 DEF DeletePost
<1>5. ASSUME NEW w \in Workers, NEW m \in Messages, Receive(w, m) PROVE G
  BY <1>5 DEF Receive, Goto
<1>6. ASSUME NEW w \in Workers, Fetch(w) PROVE G
  BY <1>6 DEF Fetch, Goto
<1>7. ASSUME NEW w \in Workers, Cleanup(w) PROVE G
  BY <1>7 DEF Cleanup, Goto
<1>8. ASSUME NEW w \in Workers, Reset(w) PROVE G
  BY <1>8 DEF Reset, Goto
<1>9. ASSUME NEW w \in Workers, Create(w) PROVE G
  BY <1>9 DEF Create, Goto
<1>10. ASSUME NEW w \in Workers, MarkRunning(w) PROVE G
  <2>1. CASE JobsIn(T(w), Active) \ {held[w]} # {}
    BY <1>10, <2>1 DEF MarkRunning, Goto, Raise
  <2>2. CASE JobsIn(T(w), Active) \ {held[w]} = {}
    BY <1>10, <2>2 DEF MarkRunning, Goto
  <2>3. QED BY <2>1, <2>2
<1>11. ASSUME NEW w \in Workers, SetPublishing(w) PROVE G
  BY <1>11 DEF SetPublishing, Goto
<1>12. ASSUME NEW w \in Workers, SyncRead(w) PROVE G
  BY <1>12 DEF SyncRead, Goto
<1>13. ASSUME NEW w \in Workers, SyncWrite(w) PROVE G
  BY <1>13 DEF SyncWrite, Goto
<1>14. ASSUME NEW w \in Workers, CallPublish(w) PROVE G
  BY <1>14 DEF CallPublish, Goto
<1>15. ASSUME NEW w \in Workers, MarkSuccess(w) PROVE G
  BY <1>15 DEF MarkSuccess, Goto
<1>16. ASSUME NEW w \in Workers, MarkPublished(w) PROVE G
  BY <1>16 DEF MarkPublished, Goto
<1>17. ASSUME NEW w \in Workers, MarkFailed(w) PROVE G
  BY <1>17 DEF MarkFailed, Goto
<1>18. ASSUME NEW w \in Workers, MarkTargetFailed(w) PROVE G
  BY <1>18 DEF MarkTargetFailed, Goto
<1>19. ASSUME NEW w \in Workers, SendRetry(w) PROVE G
  BY <1>19 DEF SendRetry, Goto
<1>20. ASSUME NEW w \in Workers, OnFailure(w) PROVE G
  BY <1>20 DEF OnFailure, Goto
<1>21. ASSUME NEW w \in Workers, RowGone(w) PROVE G
  <2>1. msg' = msg /\ \A v \in Workers : v # w => pc'[v] = pc[v] /\ phase'[v] = phase[v]
    BY <1>21 DEF RowGone, Goto, Raise
  <2>2. QED BY <1>21, <2>1
<1>22. ASSUME NEW w \in Workers, Ack(w) PROVE G
  BY <1>22 DEF Ack, Goto
<1>23. ASSUME NEW w \in Workers, Error(w) PROVE G
  BY <1>23 DEF Error, Goto, Raise
<1>24. ASSUME NEW w \in Workers, Crash(w) PROVE G
  BY <1>24 DEF Crash, Goto
<1>25. ASSUME NEW w \in Workers, Redeliver(w) PROVE G
  BY <1>25 DEF Redeliver
<1>26. CASE UNCHANGED vars
  BY <1>26 DEF vars
<1>27. QED
  BY <1>1, <1>2, <1>3, <1>4, <1>5, <1>6, <1>7, <1>8, <1>9, <1>10, <1>11, <1>12, <1>13,
     <1>14, <1>15, <1>16, <1>17, <1>18, <1>19, <1>20, <1>21, <1>22, <1>23, <1>24, <1>25,
     <1>26 DEF Next, Step, Fault

\* A worker comes to the last statements of an attempt from the end of its job; it
\* retries only below the budget.
LEMMA LastFrame ==
  ASSUME TypeOK, PhaseInv, [Next]_vars
  PROVE  \A v \in Workers :
           pc'[v] \in {"markPublished", "markTarget", "retry"} =>
             /\ msg'[v] = msg[v]
             /\ \/ pc'[v] = pc[v]
                \/ MarkSuccess(v)
                \/ MarkFailed(v) /\ (pc'[v] = "retry" => msg[v][2] < MaxRetries)
<1> DEFINE G ==
      \A v \in Workers :
        pc'[v] \in {"markPublished", "markTarget", "retry"} =>
          /\ msg'[v] = msg[v]
          /\ \/ pc'[v] = pc[v]
             \/ MarkSuccess(v)
             \/ MarkFailed(v) /\ (pc'[v] = "retry" => msg[v][2] < MaxRetries)
<1> USE DEF rows, platform, locals, budgets, TypeOK
<1>1. ASSUME NEW t \in Targets, Dispatch(t) PROVE G
  BY <1>1 DEF Dispatch
<1>2. ASSUME NEW t \in Targets, AdminMarkFailed(t) PROVE G
  BY <1>2 DEF AdminMarkFailed
<1>3. ASSUME NEW t \in Targets, AdminReschedule(t) PROVE G
  BY <1>3 DEF AdminReschedule
<1>4. ASSUME NEW p \in Posts, DeletePost(p) PROVE G
  BY <1>4 DEF DeletePost
<1>5. ASSUME NEW w \in Workers, NEW m \in Messages, Receive(w, m) PROVE G
  BY <1>5 DEF Receive, Goto
<1>6. ASSUME NEW w \in Workers, Fetch(w) PROVE G
  BY <1>6 DEF Fetch, Goto
<1>7. ASSUME NEW w \in Workers, Cleanup(w) PROVE G
  BY <1>7 DEF Cleanup, Goto
<1>8. ASSUME NEW w \in Workers, Reset(w) PROVE G
  BY <1>8 DEF Reset, Goto
<1>9. ASSUME NEW w \in Workers, Create(w) PROVE G
  BY <1>9 DEF Create, Goto
<1>10. ASSUME NEW w \in Workers, MarkRunning(w) PROVE G
  BY <1>10 DEF MarkRunning, Goto, Raise
<1>11. ASSUME NEW w \in Workers, SetPublishing(w) PROVE G
  BY <1>11 DEF SetPublishing, Goto
<1>12. ASSUME NEW w \in Workers, SyncRead(w) PROVE G
  BY <1>12 DEF SyncRead, Goto
<1>13. ASSUME NEW w \in Workers, SyncWrite(w) PROVE G
  BY <1>13 DEF SyncWrite, Goto
<1>14. ASSUME NEW w \in Workers, CallPublish(w) PROVE G
  BY <1>14 DEF CallPublish, Goto
<1>15. ASSUME NEW w \in Workers, MarkSuccess(w) PROVE G
  BY <1>15 DEF MarkSuccess, Goto
<1>16. ASSUME NEW w \in Workers, MarkPublished(w) PROVE G
  BY <1>16 DEF MarkPublished, Goto
<1>17. ASSUME NEW w \in Workers, MarkFailed(w) PROVE G
  <2>1. msg[w][2] \in Nat /\ MaxRetries \in Nat
    BY <1>17, MessageFacts DEF MarkFailed, Attempts
  <2>2. pc'[w] = "retry" => msg[w][2] < MaxRetries
    BY <1>17, <2>1 DEF MarkFailed, Goto, IsFinal
  <2>3. QED BY <1>17, <2>2 DEF MarkFailed, Goto
<1>18. ASSUME NEW w \in Workers, MarkTargetFailed(w) PROVE G
  BY <1>18 DEF MarkTargetFailed, Goto
<1>19. ASSUME NEW w \in Workers, SendRetry(w) PROVE G
  BY <1>19 DEF SendRetry, Goto
<1>20. ASSUME NEW w \in Workers, OnFailure(w) PROVE G
  BY <1>20 DEF OnFailure, Goto
<1>21. ASSUME NEW w \in Workers, RowGone(w) PROVE G
  BY <1>21 DEF RowGone, Goto, Raise
<1>22. ASSUME NEW w \in Workers, Ack(w) PROVE G
  BY <1>22 DEF Ack, Goto
<1>23. ASSUME NEW w \in Workers, Error(w) PROVE G
  <2>1. CASE pc[w] = "retry"
    BY <1>23, <2>1 DEF Error, Goto
  <2>2. CASE pc[w] # "retry"
    BY <1>23, <2>2 DEF Error, Goto, Raise
  <2>3. QED BY <2>1, <2>2
<1>24. ASSUME NEW w \in Workers, Crash(w) PROVE G
  BY <1>24 DEF Crash, Goto
<1>25. ASSUME NEW w \in Workers, Redeliver(w) PROVE G
  BY <1>25 DEF Redeliver
<1>26. CASE UNCHANGED vars
  BY <1>26 DEF vars
<1>27. QED
  BY <1>1, <1>2, <1>3, <1>4, <1>5, <1>6, <1>7, <1>8, <1>9, <1>10, <1>11, <1>12, <1>13,
     <1>14, <1>15, <1>16, <1>17, <1>18, <1>19, <1>20, <1>21, <1>22, <1>23, <1>24, <1>25,
     <1>26 DEF Next, Step, Fault

\* A job is inserted by its worker, made RUNNING by its worker, or ends.
LEMMA JobFrame ==
  ASSUME TypeOK, PhaseInv, OwnAttempt, faults' = 0, [Next]_vars
  PROVE  \A n \in Messages :
           target'[n[1]] # "GONE" =>
             \/ job'[n] = job[n]
             \/ \E v \in Workers : Create(v) /\ Insertable(msg[v]) /\ msg[v] = n
             \/ \E v \in Workers : /\ MarkRunning(v) /\ Attempting(v) /\ msg[v] = n
                                /\ Attempting(v)' /\ msg'[v] = n
             \/ job[n] # "NONE" /\ job'[n] \notin Active
<1> DEFINE G ==
      \A n \in Messages :
        target'[n[1]] # "GONE" =>
          \/ job'[n] = job[n]
          \/ \E v \in Workers : Create(v) /\ Insertable(msg[v]) /\ msg[v] = n
          \/ \E v \in Workers : /\ MarkRunning(v) /\ Attempting(v) /\ msg[v] = n
                                /\ Attempting(v)' /\ msg'[v] = n
          \/ job[n] # "NONE" /\ job'[n] \notin Active
<1> USE DEF rows, platform, locals, budgets, TypeOK
<1>1. ASSUME NEW t \in Targets, Dispatch(t) PROVE G
  BY <1>1 DEF Dispatch
<1>2. ASSUME NEW t \in Targets, AdminMarkFailed(t) PROVE G
  <2>1. \A n \in Messages : job'[n] = IF n[1] = t /\ job[n] \in Active THEN "FAILED" ELSE job[n]
    BY <1>2 DEF AdminMarkFailed
  <2>2. QED BY <2>1 DEF Active
<1>3. ASSUME NEW t \in Targets, AdminReschedule(t) PROVE G
  BY <1>3 DEF AdminReschedule
<1>4. ASSUME NEW p \in Posts, DeletePost(p) PROVE G
  <2>1. \A n \in Messages : target'[n[1]] # "GONE" => PostOf[n[1]] # p
    BY <1>4, MessageFacts DEF DeletePost
  <2>2. QED BY <1>4, <2>1 DEF DeletePost
<1>5. ASSUME NEW w \in Workers, NEW m \in Messages, Receive(w, m) PROVE G
  BY <1>5 DEF Receive, Goto
<1>6. ASSUME NEW w \in Workers, Fetch(w) PROVE G
  BY <1>6 DEF Fetch, Goto
<1>7. ASSUME NEW w \in Workers, Cleanup(w) PROVE G
  <2>1. ASSUME NEW n \in Messages, job'[n] # job[n] PROVE job[n] # "NONE" /\ job'[n] \notin Active
    <3>1. n = <<n[1], n[2]>>
      BY MessageFacts
    <3>2. n[1] = T(w) /\ n[2] \in JobsIn(T(w), {"RUNNING"}) /\ job'[n] = "FAILED"
      BY <1>7, <2>1 DEF Cleanup
    <3>3. job[n] = "RUNNING"
      BY <3>1, <3>2 DEF JobsIn
    <3>4. QED BY <3>2, <3>3 DEF Active
  <2>2. QED BY <2>1
<1>8. ASSUME NEW w \in Workers, Reset(w) PROVE G
  BY <1>8 DEF Reset, Goto
<1>9. ASSUME NEW w \in Workers, Create(w) PROVE G
  BY <1>9 DEF Create, Goto
<1>10. ASSUME NEW w \in Workers, MarkRunning(w) PROVE G
  <2>1. msg[w] \in Messages /\ T(w) = msg[w][1] /\ target[T(w)] # "GONE"
    BY <1>10 DEF MarkRunning, T
  <2>2. CASE JobsIn(T(w), Active) \ {held[w]} # {}
    BY <1>10, <2>2 DEF MarkRunning
  <2>3. CASE JobsIn(T(w), Active) \ {held[w]} = {}
    <3>1. Attempting(w) /\ held[w] = msg[w][2] /\ <<T(w), held[w]>> = msg[w]
      BY <1>10, <2>1, MessageFacts DEF MarkRunning, Attempting, Claiming, PhaseInv, OwnAttempt
    <3>2. job' = [job EXCEPT ![msg[w]] = "RUNNING"] /\ msg' = msg
          /\ pc'[w] = "setPublishing" /\ phase'[w] = "begin"
      BY <1>10, <2>3, <3>1 DEF MarkRunning, Goto, PhaseInv
    <3>3. Attempting(w)'
      BY <3>2 DEF Attempting, Claiming
    <3>4. QED BY <1>10, <3>1, <3>2, <3>3
  <2>4. QED BY <2>2, <2>3
<1>11. ASSUME NEW w \in Workers, SetPublishing(w) PROVE G
  BY <1>11 DEF SetPublishing, Goto
<1>12. ASSUME NEW w \in Workers, SyncRead(w) PROVE G
  BY <1>12 DEF SyncRead, Goto
<1>13. ASSUME NEW w \in Workers, SyncWrite(w) PROVE G
  BY <1>13 DEF SyncWrite, Goto
<1>14. ASSUME NEW w \in Workers, CallPublish(w) PROVE G
  BY <1>14 DEF CallPublish, Goto
<1>15. ASSUME NEW w \in Workers, MarkSuccess(w) PROVE G
  <2>1. msg[w] \in Messages /\ T(w) = msg[w][1] /\ target[T(w)] # "GONE"
    BY <1>15 DEF MarkSuccess, T
  <2>2. Attempting(w) /\ held[w] = msg[w][2] /\ <<T(w), held[w]>> = msg[w]
    BY <1>15, <2>1, MessageFacts DEF MarkSuccess, Attempting, PhaseInv, OwnAttempt
  <2>3. job[msg[w]] # "NONE"
    BY <1>15, <2>1, <2>2 DEF MarkSuccess, OwnAttempt
  <2>4. job' = [job EXCEPT ![msg[w]] = "SUCCESS"]
    BY <1>15, <2>2 DEF MarkSuccess
  <2>5. QED BY <2>1, <2>3, <2>4 DEF Active
<1>16. ASSUME NEW w \in Workers, MarkPublished(w) PROVE G
  BY <1>16 DEF MarkPublished, Goto
<1>17. ASSUME NEW w \in Workers, MarkFailed(w) PROVE G
  <2>1. msg[w] \in Messages /\ T(w) = msg[w][1] /\ target[T(w)] # "GONE"
    BY <1>17 DEF MarkFailed, T
  <2>2. Attempting(w) /\ held[w] = msg[w][2] /\ <<T(w), held[w]>> = msg[w]
    BY <1>17, <2>1, MessageFacts DEF MarkFailed, Attempting, PhaseInv, OwnAttempt
  <2>3. job[msg[w]] # "NONE"
    BY <1>17, <2>1, <2>2 DEF MarkFailed, OwnAttempt
  <2>4. job' = [job EXCEPT ![msg[w]] = "FAILED"]
    BY <1>17, <2>2 DEF MarkFailed
  <2>5. QED BY <2>1, <2>3, <2>4 DEF Active
<1>18. ASSUME NEW w \in Workers, MarkTargetFailed(w) PROVE G
  BY <1>18 DEF MarkTargetFailed, Goto
<1>19. ASSUME NEW w \in Workers, SendRetry(w) PROVE G
  BY <1>19 DEF SendRetry, Goto
<1>20. ASSUME NEW w \in Workers, OnFailure(w) PROVE G
  BY <1>20 DEF OnFailure, Goto
<1>21. ASSUME NEW w \in Workers, RowGone(w) PROVE G
  BY <1>21 DEF RowGone, Goto, Raise
<1>22. ASSUME NEW w \in Workers, Ack(w) PROVE G
  BY <1>22 DEF Ack, Goto
<1>23. ASSUME NEW w \in Workers, Error(w) PROVE G
  BY <1>23 DEF Error, Goto, Raise
<1>24. ASSUME NEW w \in Workers, Crash(w) PROVE G
  BY <1>24 DEF Crash, Goto
<1>25. ASSUME NEW w \in Workers, Redeliver(w) PROVE G
  BY <1>25 DEF Redeliver
<1>26. CASE UNCHANGED vars
  BY <1>26 DEF vars
<1>27. QED
  BY <1>1, <1>2, <1>3, <1>4, <1>5, <1>6, <1>7, <1>8, <1>9, <1>10, <1>11, <1>12, <1>13,
     <1>14, <1>15, <1>16, <1>17, <1>18, <1>19, <1>20, <1>21, <1>22, <1>23, <1>24, <1>25,
     <1>26 DEF Next, Step, Fault

\* A worker that has not inserted its job yet goes on, when its target is there.
LEMMA BeforeFrame ==
  ASSUME TypeOK, PhaseInv, faults' = 0, [Next]_vars
  PROVE  \A v \in Workers :
           pc[v] \in {"fetch", "cleanup", "reset", "create"} /\ target[T(v)] = "PUBLISHING" =>
             \/ msg'[v] = msg[v] /\ pc'[v] \in {"fetch", "cleanup", "reset", "create"}
             \/ Reset(v)
             \/ Create(v)
<1> DEFINE G ==
      \A v \in Workers :
        pc[v] \in {"fetch", "cleanup", "reset", "create"} /\ target[T(v)] = "PUBLISHING" =>
          \/ msg'[v] = msg[v] /\ pc'[v] \in {"fetch", "cleanup", "reset", "create"}
          \/ Reset(v)
          \/ Create(v)
<1> USE DEF rows, platform, locals, budgets, TypeOK
<1>1. ASSUME NEW t \in Targets, Dispatch(t) PROVE G
  BY <1>1 DEF Dispatch
<1>2. ASSUME NEW t \in Targets, AdminMarkFailed(t) PROVE G
  BY <1>2 DEF AdminMarkFailed
<1>3. ASSUME NEW t \in Targets, AdminReschedule(t) PROVE G
  BY <1>3 DEF AdminReschedule
<1>4. ASSUME NEW p \in Posts, DeletePost(p) PROVE G
  BY <1>4 DEF DeletePost
<1>5. ASSUME NEW w \in Workers, NEW m \in Messages, Receive(w, m) PROVE G
  BY <1>5 DEF Receive, Goto
<1>6. ASSUME NEW w \in Workers, Fetch(w) PROVE G
  BY <1>6 DEF Fetch, Goto
<1>7. ASSUME NEW w \in Workers, Cleanup(w) PROVE G
  BY <1>7 DEF Cleanup, Goto
<1>8. ASSUME NEW w \in Workers, Reset(w) PROVE G
  BY <1>8 DEF Reset, Goto
<1>9. ASSUME NEW w \in Workers, Create(w) PROVE G
  BY <1>9 DEF Create, Goto
<1>10. ASSUME NEW w \in Workers, MarkRunning(w) PROVE G
  BY <1>10 DEF MarkRunning, Goto, Raise
<1>11. ASSUME NEW w \in Workers, SetPublishing(w) PROVE G
  BY <1>11 DEF SetPublishing, Goto
<1>12. ASSUME NEW w \in Workers, SyncRead(w) PROVE G
  BY <1>12 DEF SyncRead, Goto
<1>13. ASSUME NEW w \in Workers, SyncWrite(w) PROVE G
  BY <1>13 DEF SyncWrite, Goto
<1>14. ASSUME NEW w \in Workers, CallPublish(w) PROVE G
  BY <1>14 DEF CallPublish, Goto
<1>15. ASSUME NEW w \in Workers, MarkSuccess(w) PROVE G
  BY <1>15 DEF MarkSuccess, Goto
<1>16. ASSUME NEW w \in Workers, MarkPublished(w) PROVE G
  BY <1>16 DEF MarkPublished, Goto
<1>17. ASSUME NEW w \in Workers, MarkFailed(w) PROVE G
  BY <1>17 DEF MarkFailed, Goto
<1>18. ASSUME NEW w \in Workers, MarkTargetFailed(w) PROVE G
  BY <1>18 DEF MarkTargetFailed, Goto
<1>19. ASSUME NEW w \in Workers, SendRetry(w) PROVE G
  BY <1>19 DEF SendRetry, Goto
<1>20. ASSUME NEW w \in Workers, OnFailure(w) PROVE G
  BY <1>20 DEF OnFailure, Goto
<1>21. ASSUME NEW w \in Workers, RowGone(w) PROVE G
  BY <1>21 DEF RowGone, Goto, Raise
<1>22. ASSUME NEW w \in Workers, Ack(w) PROVE G
  BY <1>22 DEF Ack, Goto
<1>23. ASSUME NEW w \in Workers, Error(w) PROVE G
  BY <1>23 DEF Error, Goto, Raise
<1>24. ASSUME NEW w \in Workers, Crash(w) PROVE G
  BY <1>24 DEF Crash, Goto
<1>25. ASSUME NEW w \in Workers, Redeliver(w) PROVE G
  BY <1>25 DEF Redeliver
<1>26. CASE UNCHANGED vars
  BY <1>26 DEF vars
<1>27. QED
  BY <1>1, <1>2, <1>3, <1>4, <1>5, <1>6, <1>7, <1>8, <1>9, <1>10, <1>11, <1>12, <1>13,
     <1>14, <1>15, <1>16, <1>17, <1>18, <1>19, <1>20, <1>21, <1>22, <1>23, <1>24, <1>25,
     <1>26 DEF Next, Step, Fault

\* Only set_publishing makes a target PUBLISHING.
LEMMA PublishingFrame ==
  ASSUME TypeOK, [Next]_vars
  PROVE  \A t \in Targets :
           target'[t] = "PUBLISHING" =>
             \/ target[t] = "PUBLISHING"
             \/ \E v \in Workers : SetPublishing(v) /\ T(v) = t
<1> DEFINE G ==
      \A t \in Targets :
        target'[t] = "PUBLISHING" =>
          \/ target[t] = "PUBLISHING"
          \/ \E v \in Workers : SetPublishing(v) /\ T(v) = t
<1> USE DEF rows, platform, locals, budgets, TypeOK
<1>1. ASSUME NEW t \in Targets, Dispatch(t) PROVE G
  BY <1>1 DEF Dispatch
<1>2. ASSUME NEW t \in Targets, AdminMarkFailed(t) PROVE G
  BY <1>2 DEF AdminMarkFailed
<1>3. ASSUME NEW t \in Targets, AdminReschedule(t) PROVE G
  BY <1>3 DEF AdminReschedule
<1>4. ASSUME NEW p \in Posts, DeletePost(p) PROVE G
  BY <1>4 DEF DeletePost
<1>5. ASSUME NEW w \in Workers, NEW m \in Messages, Receive(w, m) PROVE G
  BY <1>5 DEF Receive, Goto
<1>6. ASSUME NEW w \in Workers, Fetch(w) PROVE G
  BY <1>6 DEF Fetch, Goto
<1>7. ASSUME NEW w \in Workers, Cleanup(w) PROVE G
  BY <1>7 DEF Cleanup, Goto
<1>8. ASSUME NEW w \in Workers, Reset(w) PROVE G
  BY <1>8 DEF Reset, Goto
<1>9. ASSUME NEW w \in Workers, Create(w) PROVE G
  BY <1>9 DEF Create, Goto
<1>10. ASSUME NEW w \in Workers, MarkRunning(w) PROVE G
  BY <1>10 DEF MarkRunning, Goto, Raise
<1>11. ASSUME NEW w \in Workers, SetPublishing(w) PROVE G
  BY <1>11 DEF SetPublishing, Goto
<1>12. ASSUME NEW w \in Workers, SyncRead(w) PROVE G
  BY <1>12 DEF SyncRead, Goto
<1>13. ASSUME NEW w \in Workers, SyncWrite(w) PROVE G
  BY <1>13 DEF SyncWrite, Goto
<1>14. ASSUME NEW w \in Workers, CallPublish(w) PROVE G
  BY <1>14 DEF CallPublish, Goto
<1>15. ASSUME NEW w \in Workers, MarkSuccess(w) PROVE G
  BY <1>15 DEF MarkSuccess, Goto
<1>16. ASSUME NEW w \in Workers, MarkPublished(w) PROVE G
  BY <1>16 DEF MarkPublished, Goto
<1>17. ASSUME NEW w \in Workers, MarkFailed(w) PROVE G
  BY <1>17 DEF MarkFailed, Goto
<1>18. ASSUME NEW w \in Workers, MarkTargetFailed(w) PROVE G
  BY <1>18 DEF MarkTargetFailed, Goto
<1>19. ASSUME NEW w \in Workers, SendRetry(w) PROVE G
  BY <1>19 DEF SendRetry, Goto
<1>20. ASSUME NEW w \in Workers, OnFailure(w) PROVE G
  BY <1>20 DEF OnFailure, Goto
<1>21. ASSUME NEW w \in Workers, RowGone(w) PROVE G
  BY <1>21 DEF RowGone, Goto, Raise
<1>22. ASSUME NEW w \in Workers, Ack(w) PROVE G
  BY <1>22 DEF Ack, Goto
<1>23. ASSUME NEW w \in Workers, Error(w) PROVE G
  BY <1>23 DEF Error, Goto, Raise
<1>24. ASSUME NEW w \in Workers, Crash(w) PROVE G
  BY <1>24 DEF Crash, Goto
<1>25. ASSUME NEW w \in Workers, Redeliver(w) PROVE G
  BY <1>25 DEF Redeliver
<1>26. CASE UNCHANGED vars
  BY <1>26 DEF vars
<1>27. QED
  BY <1>1, <1>2, <1>3, <1>4, <1>5, <1>6, <1>7, <1>8, <1>9, <1>10, <1>11, <1>12, <1>13,
     <1>14, <1>15, <1>16, <1>17, <1>18, <1>19, <1>20, <1>21, <1>22, <1>23, <1>24, <1>25,
     <1>26 DEF Next, Step, Fault

\* Only a worker takes a message from the queue.
LEMMA TakenFrame ==
  ASSUME TypeOK, [Next]_vars
  PROVE  \A n \in Messages :
           queue[n] > 0 =>
             \/ queue'[n] > 0
             \/ \E v \in Workers : Receive(v, n)
<1> DEFINE G ==
      \A n \in Messages :
        queue[n] > 0 =>
          \/ queue'[n] > 0
          \/ \E v \in Workers : Receive(v, n)
<1> USE DEF rows, platform, locals, budgets, TypeOK
<1>1. ASSUME NEW t \in Targets, Dispatch(t) PROVE G
  <2>1. queue' = [queue EXCEPT ![<<t, 0>>] = queue[<<t, 0>>] + 1]
    BY <1>1 DEF Dispatch
  <2>2. QED BY <2>1
<1>2. ASSUME NEW t \in Targets, AdminMarkFailed(t) PROVE G
  BY <1>2 DEF AdminMarkFailed
<1>3. ASSUME NEW t \in Targets, AdminReschedule(t) PROVE G
  BY <1>3 DEF AdminReschedule
<1>4. ASSUME NEW p \in Posts, DeletePost(p) PROVE G
  BY <1>4 DEF DeletePost
<1>5. ASSUME NEW w \in Workers, NEW m \in Messages, Receive(w, m) PROVE G
  <2>1. \A n \in Messages : queue'[n] = queue[n] \/ n = m
    BY <1>5 DEF Receive
  <2>2. QED BY <1>5, <2>1
<1>6. ASSUME NEW w \in Workers, Fetch(w) PROVE G
  BY <1>6 DEF Fetch, Goto
<1>7. ASSUME NEW w \in Workers, Cleanup(w) PROVE G
  BY <1>7 DEF Cleanup, Goto
<1>8. ASSUME NEW w \in Workers, Reset(w) PROVE G
  BY <1>8 DEF Reset, Goto
<1>9. ASSUME NEW w \in Workers, Create(w) PROVE G
  BY <1>9 DEF Create, Goto
<1>10. ASSUME NEW w \in Workers, MarkRunning(w) PROVE G
  BY <1>10 DEF MarkRunning, Goto, Raise
<1>11. ASSUME NEW w \in Workers, SetPublishing(w) PROVE G
  BY <1>11 DEF SetPublishing, Goto
<1>12. ASSUME NEW w \in Workers, SyncRead(w) PROVE G
  BY <1>12 DEF SyncRead, Goto
<1>13. ASSUME NEW w \in Workers, SyncWrite(w) PROVE G
  BY <1>13 DEF SyncWrite, Goto
<1>14. ASSUME NEW w \in Workers, CallPublish(w) PROVE G
  BY <1>14 DEF CallPublish, Goto
<1>15. ASSUME NEW w \in Workers, MarkSuccess(w) PROVE G
  BY <1>15 DEF MarkSuccess, Goto
<1>16. ASSUME NEW w \in Workers, MarkPublished(w) PROVE G
  BY <1>16 DEF MarkPublished, Goto
<1>17. ASSUME NEW w \in Workers, MarkFailed(w) PROVE G
  BY <1>17 DEF MarkFailed, Goto
<1>18. ASSUME NEW w \in Workers, MarkTargetFailed(w) PROVE G
  BY <1>18 DEF MarkTargetFailed, Goto
<1>19. ASSUME NEW w \in Workers, SendRetry(w) PROVE G
  <2> DEFINE r == <<T(w), msg[w][2] + 1>>
  <2>1. queue' = [queue EXCEPT ![r] = queue[r] + 1]
    BY <1>19 DEF SendRetry
  <2> HIDE DEF r
  <2>2. QED BY <2>1
<1>20. ASSUME NEW w \in Workers, OnFailure(w) PROVE G
  BY <1>20 DEF OnFailure, Goto
<1>21. ASSUME NEW w \in Workers, RowGone(w) PROVE G
  BY <1>21 DEF RowGone, Goto, Raise
<1>22. ASSUME NEW w \in Workers, Ack(w) PROVE G
  BY <1>22 DEF Ack, Goto
<1>23. ASSUME NEW w \in Workers, Error(w) PROVE G
  BY <1>23 DEF Error, Goto, Raise
<1>24. ASSUME NEW w \in Workers, Crash(w) PROVE G
  BY <1>24 DEF Crash, Goto
<1>25. ASSUME NEW w \in Workers, Redeliver(w) PROVE G
  BY <1>25 DEF Redeliver
<1>26. CASE UNCHANGED vars
  BY <1>26 DEF vars
<1>27. QED
  BY <1>1, <1>2, <1>3, <1>4, <1>5, <1>6, <1>7, <1>8, <1>9, <1>10, <1>11, <1>12, <1>13,
     <1>14, <1>15, <1>16, <1>17, <1>18, <1>19, <1>20, <1>21, <1>22, <1>23, <1>24, <1>25,
     <1>26 DEF Next, Step, Fault

\* Faults are counted, never forgotten.
LEMMA FaultsKept ==
  ASSUME TypeOK, [Next]_vars
  PROVE  faults' = 0 => faults = 0
<1> DEFINE G ==
      faults' = 0 => faults = 0
<1> USE DEF rows, platform, locals, budgets, TypeOK
<1>1. ASSUME NEW t \in Targets, Dispatch(t) PROVE G
  BY <1>1 DEF Dispatch
<1>2. ASSUME NEW t \in Targets, AdminMarkFailed(t) PROVE G
  BY <1>2 DEF AdminMarkFailed
<1>3. ASSUME NEW t \in Targets, AdminReschedule(t) PROVE G
  BY <1>3 DEF AdminReschedule
<1>4. ASSUME NEW p \in Posts, DeletePost(p) PROVE G
  BY <1>4 DEF DeletePost
<1>5. ASSUME NEW w \in Workers, NEW m \in Messages, Receive(w, m) PROVE G
  BY <1>5 DEF Receive, Goto
<1>6. ASSUME NEW w \in Workers, Fetch(w) PROVE G
  BY <1>6 DEF Fetch, Goto
<1>7. ASSUME NEW w \in Workers, Cleanup(w) PROVE G
  BY <1>7 DEF Cleanup, Goto
<1>8. ASSUME NEW w \in Workers, Reset(w) PROVE G
  BY <1>8 DEF Reset, Goto
<1>9. ASSUME NEW w \in Workers, Create(w) PROVE G
  BY <1>9 DEF Create, Goto
<1>10. ASSUME NEW w \in Workers, MarkRunning(w) PROVE G
  BY <1>10 DEF MarkRunning, Goto, Raise
<1>11. ASSUME NEW w \in Workers, SetPublishing(w) PROVE G
  BY <1>11 DEF SetPublishing, Goto
<1>12. ASSUME NEW w \in Workers, SyncRead(w) PROVE G
  BY <1>12 DEF SyncRead, Goto
<1>13. ASSUME NEW w \in Workers, SyncWrite(w) PROVE G
  BY <1>13 DEF SyncWrite, Goto
<1>14. ASSUME NEW w \in Workers, CallPublish(w) PROVE G
  BY <1>14 DEF CallPublish, Goto
<1>15. ASSUME NEW w \in Workers, MarkSuccess(w) PROVE G
  BY <1>15 DEF MarkSuccess, Goto
<1>16. ASSUME NEW w \in Workers, MarkPublished(w) PROVE G
  BY <1>16 DEF MarkPublished, Goto
<1>17. ASSUME NEW w \in Workers, MarkFailed(w) PROVE G
  BY <1>17 DEF MarkFailed, Goto
<1>18. ASSUME NEW w \in Workers, MarkTargetFailed(w) PROVE G
  BY <1>18 DEF MarkTargetFailed, Goto
<1>19. ASSUME NEW w \in Workers, SendRetry(w) PROVE G
  BY <1>19 DEF SendRetry, Goto
<1>20. ASSUME NEW w \in Workers, OnFailure(w) PROVE G
  BY <1>20 DEF OnFailure, Goto
<1>21. ASSUME NEW w \in Workers, RowGone(w) PROVE G
  BY <1>21 DEF RowGone, Goto, Raise
<1>22. ASSUME NEW w \in Workers, Ack(w) PROVE G
  BY <1>22 DEF Ack, Goto
<1>23. ASSUME NEW w \in Workers, Error(w) PROVE G
  BY <1>23 DEF Error, Goto, Raise
<1>24. ASSUME NEW w \in Workers, Crash(w) PROVE G
  BY <1>24 DEF Crash, Goto
<1>25. ASSUME NEW w \in Workers, Redeliver(w) PROVE G
  BY <1>25 DEF Redeliver
<1>26. CASE UNCHANGED vars
  BY <1>26 DEF vars
<1>27. QED
  BY <1>1, <1>2, <1>3, <1>4, <1>5, <1>6, <1>7, <1>8, <1>9, <1>10, <1>11, <1>12, <1>13,
     <1>14, <1>15, <1>16, <1>17, <1>18, <1>19, <1>20, <1>21, <1>22, <1>23, <1>24, <1>25,
     <1>26 DEF Next, Step, Fault

\* A worker that raises over another active job of its target has a rival: that
\* job has an owner, whose attempt is not over either.
LEMMA NoRival ==
  ASSUME HandInv, FaultlessInv, NEW w \in Workers, MarkRunning(w)
  PROVE  JobsIn(T(w), Active) \ {held[w]} = {}
<1> USE DEF HandInv, DeliveryInv, FaultlessInv
<1>1. /\ msg[w] \in Messages /\ T(w) \in Targets /\ msg[w][2] \in Attempts
      /\ msg[w] = <<T(w), msg[w][2]>> /\ target[T(w)] # "GONE"
  BY MessageFacts DEF MarkRunning, TypeOK, T
<1>2. Attempting(w) /\ held[w] = msg[w][2]
  BY DEF MarkRunning, Attempting, Claiming, PhaseInv, OwnAttempt
<1>3. SUFFICES ASSUME NEW k \in Attempts, job[<<T(w), k>>] \in Active, k # msg[w][2]
               PROVE  FALSE
  BY <1>2 DEF JobsIn
<1>4. <<T(w), k>> \in Messages /\ <<T(w), k>>[1] = T(w)
  BY <1>1 DEF Messages
<1>5. PICK v \in Workers : Attempting(v) /\ msg[v] = <<T(w), k>>
  BY <1>1, <1>3, <1>4 DEF ActiveJobOwned
<1>6. Known(<<T(w), k>>) /\ Known(<<T(w), msg[w][2]>>)
  BY <1>1, <1>5 DEF Known
<1>7. k < msg[w][2] \/ msg[w][2] < k
  BY <1>1, <1>3 DEF Attempts
<1>8. CASE k < msg[w][2]
  BY <1>1, <1>5, <1>6, <1>8 DEF OneAfterAnother
<1>9. CASE msg[w][2] < k
  BY <1>1, <1>2, <1>6, <1>9 DEF OneAfterAnother
<1>10. QED BY <1>7, <1>8, <1>9

\* A message that becomes known is a first attempt or the retry being sent.
LEMMA KnownFrame ==
  ASSUME HandInv, FaultlessInv, [Next]_vars, faults' = 0,
         NEW n \in Messages, target'[n[1]] # "GONE", Known(n)'
  PROVE  \/ Known(n)
         \/ n[2] = 0
         \/ \E v \in Workers : SendRetry(v) /\ n = <<T(v), msg[v][2] + 1>>
<1> USE DEF HandInv, DeliveryInv, FaultlessInv
<1>1. CASE queue'[n] > 0
  BY <1>1, QueueFrame DEF Known
<1>2. CASE job'[n] # "NONE"
  BY <1>2, JobFrame DEF Known
<1>3. ASSUME NEW v \in Workers, msg'[v] = n PROVE Known(n)
  <2>1. n # NoMessage
    BY DEF Messages, NoMessage
  <2>2. ASSUME NEW m \in Messages, Receive(v, m), msg'[v] = m PROVE Known(n)
    BY <1>3, <2>2 DEF Receive, Known
  <2>3. QED BY <1>3, <2>1, <2>2, HeldFrame DEF Known
<1>4. QED BY <1>1, <1>2, <1>3 DEF Known

\* An attempt is not made twice: its job is there for good.
LEMMA AttemptedOnce ==
  ASSUME TypeOK, PhaseInv, [Next]_vars,
         NEW n \in Messages, target'[n[1]] # "GONE", job[n] # "NONE",
         ~ \E v \in Workers : Attempting(v) /\ msg[v] = n
  PROVE  job'[n] # "NONE" /\ ~ \E v \in Workers : Attempting(v)' /\ msg'[v] = n
<1>1. job'[n] # "NONE"
  BY RecordedStep DEF Recorded
<1>2. ASSUME NEW v \in Workers, Attempting(v)', msg'[v] = n PROVE FALSE
  BY <1>2, AttemptFrame DEF Insertable
<1>3. QED BY <1>1, <1>2

\* The attempts of a target follow one another.
LEMMA OneAfterAnotherStep ==
  ASSUME HandInv, FaultlessInv, [Next]_vars, faults' = 0
  PROVE  OneAfterAnother'
<1> USE DEF HandInv, DeliveryInv, FaultlessInv
<1>1. ASSUME NEW t \in Targets, NEW j \in Attempts, NEW k \in Attempts,
             target'[t] # "GONE", j < k, Known(<<t, k>>)'
      PROVE  job'[<<t, j>>] # "NONE" /\ ~ \E w \in Workers : Attempting(w)' /\ msg'[w] = <<t, j>>
  <2>1. /\ <<t, j>> \in Messages /\ <<t, k>> \in Messages /\ <<t, j>>[1] = t
        /\ <<t, k>>[1] = t /\ <<t, k>>[2] = k /\ k # 0 /\ target[t] # "GONE"
    BY <1>1, GoneFrame DEF Messages, Attempts
  <2>2. CASE Known(<<t, k>>)
    <3>1. job[<<t, j>>] # "NONE" /\ ~ \E w \in Workers : Attempting(w) /\ msg[w] = <<t, j>>
      BY <1>1, <2>1, <2>2 DEF OneAfterAnother
    <3>2. QED BY <1>1, <2>1, <3>1, AttemptedOnce
  <2>3. ASSUME NEW w \in Workers, SendRetry(w), <<t, k>> = <<T(w), msg[w][2] + 1>>
        PROVE  job'[<<t, j>>] # "NONE" /\ ~ \E v \in Workers : Attempting(v)' /\ msg'[v] = <<t, j>>
    <3>1. /\ msg[w] \in Messages /\ T(w) = t /\ k = msg[w][2] + 1 /\ msg[w][2] \in Attempts
          /\ msg[w] = <<t, msg[w][2]>> /\ Attempting(w)
      BY <2>3, MessageFacts DEF SendRetry, TypeOK, T, PhaseInv, Attempting
    <3>2. CASE j = msg[w][2]
      <4>1. job[msg[w]] # "NONE" /\ job'[msg[w]] # "NONE"
        BY <2>1, <2>3, <3>1 DEF SendRetry, OwnAttempt, rows
      <4>2. pc'[w] = "ack" /\ msg' = msg
        BY <2>3 DEF SendRetry, Goto, TypeOK
      <4>3. ASSUME NEW v \in Workers, Attempting(v)', msg'[v] = msg[w] PROVE FALSE
        <5>1. Attempting(v) /\ msg[v] = msg[w]
          BY <4>1, <4>2, <4>3, AttemptFrame DEF Insertable
        <5>2. v = w
          BY <3>1, <5>1 DEF OneAfterAnother
        <5>3. QED BY <4>2, <4>3, <5>2 DEF Attempting, Claiming
      <4>4. QED BY <3>1, <3>2, <4>1, <4>3
    <3>3. CASE j # msg[w][2]
      <4>1. j < msg[w][2]
        BY <1>1, <3>1, <3>3 DEF Attempts
      <4>2. Known(<<t, msg[w][2]>>)
        BY <3>1 DEF Known
      <4>3. job[<<t, j>>] # "NONE" /\ ~ \E v \in Workers : Attempting(v) /\ msg[v] = <<t, j>>
        BY <2>1, <3>1, <4>1, <4>2 DEF OneAfterAnother
      <4>4. QED BY <1>1, <2>1, <4>3, AttemptedOnce
    <3>4. QED BY <3>2, <3>3
  <2>4. QED BY <1>1, <2>1, <2>2, <2>3, KnownFrame
<1>2. ASSUME NEW v \in Workers, NEW w \in Workers, Attempting(v)', Attempting(w)', msg'[v] = msg'[w]
      PROVE  v = w
  <2>1. msg[v] = msg[w]
    BY <1>2, AttemptFrame
  <2>2. ASSUME NEW x \in Workers, NEW y \in Workers, Create(x), Insertable(msg[x]),
               Attempting(y), msg[x] = msg[y]
        PROVE  FALSE
    <3>1. pc[y] # "idle" /\ target[T(y)] # "GONE" /\ job[msg[y]] = "NONE"
      BY <2>2 DEF Insertable, Attempting, Claiming, T
    <3>2. QED BY <2>2, <3>1 DEF OwnAttempt
  <2>3. CASE Create(v) /\ Insertable(msg[v]) /\ Create(w)
    <3>1. ASSUME v # w PROVE FALSE
      BY <2>3, <3>1 DEF Create, Goto, TypeOK
    <3>2. QED BY <3>1
  <2>4. QED BY <1>2, <2>1, <2>2, <2>3, AttemptFrame DEF OneAfterAnother
<1>3. QED BY <1>1, <1>2 DEF OneAfterAnother

\* A worker keeps the job of its attempt, and no statement of it raises as long
\* as the target is there.
LEMMA OwnAttemptStep ==
  ASSUME HandInv, FaultlessInv, [Next]_vars, faults' = 0
  PROVE  OwnAttempt'
<1> USE DEF HandInv, DeliveryInv, FaultlessInv
<1> SUFFICES ASSUME NEW w \in Workers
             PROVE  /\ Attempting(w)' => held'[w] = msg'[w][2]
                    /\ pc'[w] = "retry" => msg'[w][2] < MaxRetries
                    /\ pc'[w] # "idle" /\ target'[T(w)'] # "GONE" =>
                         /\ phase'[w] # "handler"
                         /\ Attempting(w)' => job'[msg'[w]] # "NONE"
                         /\ pc'[w] \in {"markPublished", "markTarget", "retry"}
                              => job'[msg'[w]] \notin Active
  BY DEF OwnAttempt
<1>1. ASSUME Attempting(w)' PROVE held'[w] = msg'[w][2]
  <2>1. CASE Attempting(w) /\ held'[w] = held[w] /\ msg'[w] = msg[w]
    BY <2>1 DEF OwnAttempt
  <2>2. CASE Create(w) /\ Insertable(msg[w])
    BY <2>2 DEF Create, TypeOK
  <2>3. QED BY <1>1, <2>1, <2>2, AttemptFrame
<1>2. ASSUME pc'[w] = "retry" PROVE msg'[w][2] < MaxRetries
  BY <1>2, LastFrame DEF OwnAttempt, MarkSuccess, Goto, TypeOK
<1>3. ASSUME pc'[w] # "idle", target'[T(w)'] # "GONE", phase'[w] = "handler" PROVE FALSE
  <2>1. msg'[w] \in Messages /\ T(w)' \in Targets
    BY <1>3, HeldStep, MessageFacts DEF T
  <2>2. CASE phase[w] = "handler" /\ msg'[w] = msg[w]
    <3>1. pc[w] # "idle" /\ target[T(w)] # "GONE"
      BY <1>3, <2>1, <2>2, GoneFrame DEF PhaseInv, T
    <3>2. QED BY <2>2, <3>1 DEF OwnAttempt
  <2>3. CASE RowGone(w)
    BY <1>3, <2>1, <2>3, GoneFrame DEF RowGone, T
  <2>4. CASE MarkRunning(w)
    BY <1>3, <2>4, NoRival, RaisedFrame DEF MarkRunning, RowGone, PhaseInv
  <2>5. QED BY <1>3, <2>2, <2>3, <2>4, RaisedFrame
<1>4. ASSUME Attempting(w)', target'[T(w)'] # "GONE" PROVE job'[msg'[w]] # "NONE"
  <2>1. msg'[w] = msg[w] /\ msg[w] \in Messages /\ T(w)' = T(w) /\ T(w) \in Targets /\ msg[w][1] = T(w)
    <3>1. pc'[w] # "idle"
      BY <1>4 DEF Attempting, Claiming
    <3>2. QED BY <1>4, <3>1, HeldStep, AttemptFrame, MessageFacts DEF T
  <2>2. CASE Attempting(w)
    <3>1. job[msg[w]] # "NONE"
      BY <1>4, <2>1, <2>2, GoneFrame DEF OwnAttempt, Attempting, Claiming
    <3>2. QED BY <1>4, <2>1, <3>1, RecordedStep DEF Recorded
  <2>3. CASE Create(w) /\ Insertable(msg[w])
    BY <2>1, <2>3 DEF Create, TypeOK
  <2>4. QED BY <1>4, <2>2, <2>3, AttemptFrame
<1>5. ASSUME target'[T(w)'] # "GONE", pc'[w] \in {"markPublished", "markTarget", "retry"},
             job'[msg'[w]] \in Active
      PROVE  FALSE
  <2>1. msg'[w] = msg[w] /\ msg[w] \in Messages /\ T(w)' = T(w) /\ msg[w][1] = T(w) /\ T(w) \in Targets
    BY <1>5, HeldStep, LastFrame, MessageFacts DEF T
  <2>2. target[T(w)] # "GONE"
    BY <1>5, <2>1, GoneFrame
  <2>3. CASE MarkSuccess(w) \/ MarkFailed(w)
    <3>1. held[w] = msg[w][2] /\ <<T(w), held[w]>> = msg[w]
      BY <2>1, <2>2, <2>3, MessageFacts DEF MarkSuccess, MarkFailed, OwnAttempt, PhaseInv, Attempting
    <3>2. job'[msg[w]] \in {"SUCCESS", "FAILED"}
      BY <2>1, <2>3, <3>1 DEF MarkSuccess, MarkFailed, TypeOK
    <3>3. QED BY <1>5, <2>1, <3>2 DEF Active
  <2>4. CASE pc'[w] = pc[w]
    <3>1. Attempting(w) /\ job[msg[w]] \notin Active /\ job[msg[w]] # "NONE"
      <4>1. phase[w] # "handler"
        BY <1>5, <2>2, <2>4 DEF OwnAttempt
      <4>2. Attempting(w)
        BY <1>5, <2>4, <4>1 DEF Attempting, PhaseInv
      <4>3. QED BY <1>5, <2>2, <2>4, <4>2 DEF OwnAttempt
    <3>2. ASSUME NEW v \in Workers, MarkRunning(v), Attempting(v), msg[v] = msg[w] PROVE FALSE
      <4>1. v = w
        BY <3>1, <3>2 DEF OneAfterAnother
      <4>2. QED BY <1>5, <2>4, <3>2, <4>1 DEF MarkRunning
    <3>3. ASSUME NEW v \in Workers, Insertable(msg[v]), msg[v] = msg[w] PROVE FALSE
      BY <3>1, <3>3 DEF Insertable
    <3>4. QED BY <1>5, <2>1, <3>1, <3>2, <3>3, JobFrame
  <2>5. QED BY <1>5, <2>3, <2>4, LastFrame
<1>6. ASSUME Attempting(w)' PROVE pc'[w] # "idle"
  BY <1>6 DEF Attempting, Claiming
<1>7. QED BY <1>1, <1>2, <1>3, <1>4, <1>5

\* As long as an attempt goes on its worker goes on with it; it ends only after
\* the job did.
LEMMA OwnerGoesOn ==
  ASSUME HandInv, FaultlessInv, [Next]_vars, faults' = 0,
         NEW w \in Workers, Attempting(w), target[T(w)] # "GONE"
  PROVE  \/ Attempting(w)' /\ msg'[w] = msg[w]
         \/ MarkPublished(w) \/ MarkTargetFailed(w) \/ SendRetry(w)
<1> USE DEF HandInv, DeliveryInv, FaultlessInv
<1>1. ~ RowGone(w)
  BY DEF RowGone
<1>2. ~ (MarkRunning(w) /\ JobsIn(T(w), Active) \ {held[w]} # {})
  BY NoRival
<1>3. QED BY <1>1, <1>2, EndFrame

\* An active job always has a worker that will end it.
LEMMA ActiveJobOwnedStep ==
  ASSUME HandInv, FaultlessInv, [Next]_vars, faults' = 0
  PROVE  ActiveJobOwned'
<1> USE DEF HandInv, DeliveryInv, FaultlessInv
<1> SUFFICES ASSUME NEW m \in Messages, job'[m] \in Active, target'[m[1]] # "GONE"
             PROVE  \E w \in Workers : Attempting(w)' /\ msg'[w] = m
  BY DEF ActiveJobOwned
<1>1. target[m[1]] # "GONE"
  BY GoneFrame, MessageFacts
<1>2. CASE job'[m] = job[m]
  <2>1. PICK w \in Workers : Attempting(w) /\ msg[w] = m
    BY <1>1, <1>2 DEF ActiveJobOwned
  <2>2. target[T(w)] # "GONE" /\ pc[w] # "idle"
    BY <1>1, <2>1 DEF T, Attempting, Claiming
  <2>3. ~ (MarkPublished(w) \/ MarkTargetFailed(w) \/ SendRetry(w))
    BY <1>2, <2>1, <2>2 DEF OwnAttempt, MarkPublished, MarkTargetFailed, SendRetry
  <2>4. QED BY <2>1, <2>2, <2>3, OwnerGoesOn
<1>3. ASSUME NEW v \in Workers, Create(v), Insertable(msg[v]), msg[v] = m
      PROVE  Attempting(v)' /\ msg'[v] = m
  BY <1>3 DEF Create, Goto, TypeOK, PhaseInv, Attempting, Claiming
<1>4. QED BY <1>2, <1>3, JobFrame

\* A target that is PUBLISHING stays in hand.
LEMMA NotAbandonedStep ==
  ASSUME HandInv, FaultlessInv, [Next]_vars, faults = 0, faults' = 0
  PROVE  NotAbandoned'
<1> USE DEF HandInv, DeliveryInv, FaultlessInv
<1> SUFFICES ASSUME NEW t \in Targets, target'[t] = "PUBLISHING"
             PROVE  InHand(t)'
  BY DEF NotAbandoned
<1>a. ASSUME NEW w \in Workers, Attempting(w)', T(w)' = t PROVE InHand(t)'
  BY <1>a DEF InHand
<1>b. ASSUME NEW w \in Workers, Create(w), Insertable(msg[w]), T(w) = t PROVE InHand(t)'
  <2>1. Attempting(w)' /\ T(w)' = t
    BY <1>b DEF Create, Goto, TypeOK, PhaseInv, Attempting, Claiming, T
  <2>2. QED BY <1>a, <2>1
<1>c. ASSUME NEW n \in Messages, n[1] = t, job[n] = "NONE", job'[n] # "NONE" PROVE InHand(t)'
  <2>1. PICK w \in Workers : Create(w) /\ Insertable(msg[w]) /\ msg[w] = n
    <3>1. ASSUME NEW v \in Workers, Attempting(v), msg[v] = n, MarkRunning(v) PROVE FALSE
      BY <1>c, <3>1 DEF OwnAttempt, MarkRunning, T
    <3>2. QED BY <1>c, <3>1, JobFrame
  <2>2. QED BY <1>b, <1>c, <2>1 DEF T
<1>1. CASE target[t] # "PUBLISHING"
  <2>1. PICK w \in Workers : SetPublishing(w) /\ T(w) = t
    BY <1>1, PublishingFrame
  <2>2. Attempting(w)' /\ T(w)' = t
    BY <2>1 DEF SetPublishing, Goto, TypeOK, PhaseInv, Attempting, Claiming, T, locals
  <2>3. QED BY <1>a, <2>2
<1>2. CASE target[t] = "PUBLISHING"
  <2>1. ASSUME NEW k \in Attempts, queue[<<t, k>>] > 0, job[<<t, k>>] = "NONE" PROVE InHand(t)'
    <3>1. <<t, k>> \in Messages
      BY DEF Messages
    <3>2. CASE job'[<<t, k>>] = "NONE" /\ queue'[<<t, k>>] > 0
      BY <3>2 DEF InHand
    <3>3. ASSUME NEW w \in Workers, Receive(w, <<t, k>>), job'[<<t, k>>] = "NONE" PROVE InHand(t)'
      <4>1. pc'[w] = "fetch" /\ msg'[w] = <<t, k>>
        BY <3>1, <3>3 DEF Receive, Goto, TypeOK
      <4>2. T(w)' = t
        BY <4>1 DEF T
      <4>3. QED BY <3>3, <4>1, <4>2 DEF InHand
    <3>4. QED BY <2>1, <3>1, <3>2, <3>3, <1>c, TakenFrame
  <2>2. ASSUME NEW w \in Workers, pc[w] \in {"fetch", "cleanup", "reset", "create"}, T(w) = t,
               job[msg[w]] = "NONE"
        PROVE  InHand(t)'
    <3>1. msg[w] \in Messages /\ msg[w][1] = t
      BY <2>2 DEF TypeOK, T
    <3>2. CASE msg'[w] = msg[w] /\ pc'[w] \in {"fetch", "cleanup", "reset", "create"}
      <4>1. T(w)' = t
        BY <2>2, <3>2 DEF T
      <4>2. CASE job'[msg[w]] = "NONE"
        BY <3>2, <4>1, <4>2 DEF InHand
      <4>3. CASE job'[msg[w]] # "NONE"
        BY <1>c, <2>2, <3>1, <4>3
      <4>4. QED BY <4>2, <4>3
    <3>3. CASE Reset(w)
      BY <2>2, <3>3 DEF Reset, TypeOK
    <3>4. CASE Create(w)
      <4>1. CASE Insertable(msg[w])
        BY <1>b, <2>2, <3>4, <4>1
      <4>2. CASE ~ Insertable(msg[w])
        <5>1. PICK k \in Attempts : job[<<t, k>>] \in Active
          BY <1>2, <2>2, <3>1, <4>2 DEF Insertable, JobsIn
        <5>2. <<t, k>> \in Messages /\ <<t, k>>[1] = t /\ target[t] # "GONE"
          BY <1>2 DEF Messages
        <5>3. PICK v \in Workers : Attempting(v) /\ msg[v] = <<t, k>>
          BY <5>1, <5>2 DEF ActiveJobOwned
        <5>4. v # w /\ T(v) = t
          BY <3>4, <5>3 DEF Create, Attempting, Claiming, T
        <5>5. Attempting(v)' /\ T(v)' = t
          BY <3>4, <5>3, <5>4 DEF Create, Goto, TypeOK, Attempting, Claiming, T
        <5>6. QED BY <1>a, <5>5
      <4>3. QED BY <4>1, <4>2
    <3>5. QED BY <1>2, <2>2, <3>2, <3>3, <3>4, BeforeFrame
  <2>3. ASSUME NEW w \in Workers, Attempting(w), T(w) = t PROVE InHand(t)'
    <3>1. msg[w] \in Messages /\ msg[w] = <<t, msg[w][2]>> /\ msg[w][2] \in Attempts
      BY <2>3, MessageFacts DEF TypeOK, Attempting, Claiming, T
    <3>2. CASE Attempting(w)' /\ msg'[w] = msg[w]
      <4>1. T(w)' = t
        BY <2>3, <3>2 DEF T
      <4>2. QED BY <1>a, <3>2, <4>1
    <3>3. CASE MarkPublished(w) \/ MarkTargetFailed(w)
      BY <2>3, <3>3 DEF MarkPublished, MarkTargetFailed, TypeOK
    <3>4. CASE SendRetry(w)
      <4> DEFINE r == msg[w][2] + 1
      <4>1. r \in Attempts /\ msg[w][2] < r
        BY <3>1, <3>4 DEF SendRetry, OwnAttempt, Attempts
      <4>2. <<t, r>> \in Messages
        BY <4>1 DEF Messages
      <4>3. job[<<t, r>>] = "NONE"
        <5>1. ASSUME Known(<<t, r>>) PROVE FALSE
          BY <1>2, <2>3, <3>1, <4>1, <5>1 DEF OneAfterAnother
        <5>2. QED BY <5>1 DEF Known
      <4>4. queue'[<<t, r>>] > 0
        <5>1. queue' = [queue EXCEPT ![<<t, r>>] = queue[<<t, r>>] + 1] /\ queue[<<t, r>>] \in Nat
          BY <2>3, <3>4, <4>2 DEF SendRetry, TypeOK
        <5> HIDE DEF r
        <5>2. QED BY <4>2, <5>1 DEF TypeOK
      <4>5. job' = job
        BY <3>4 DEF SendRetry, rows
      <4> HIDE DEF r
      <4>6. QED BY <4>1, <4>3, <4>4, <4>5 DEF InHand
    <3>5. QED BY <1>2, <2>3, <3>2, <3>3, <3>4, OwnerGoesOn
  <2>4. InHand(t)
    BY <1>2 DEF NotAbandoned
  <2>5. QED BY <2>1, <2>2, <2>3, <2>4 DEF InHand
<1>3. QED BY <1>1, <1>2

\* HandInv holds initially and is kept.
LEMMA HandInduction ==
  /\ Init => HandInv
  /\ HandInv /\ [Next]_vars => HandInv'
<1>1. ASSUME Init PROVE FaultlessInv
  <2>1. OneAfterAnother
    BY <1>1 DEF Init, OneAfterAnother, Known, Attempting, Claiming, Messages, NoMessage
  <2>2. OwnAttempt /\ ActiveJobOwned /\ NotAbandoned
    BY <1>1 DEF Init, OwnAttempt, ActiveJobOwned, NotAbandoned, Attempting, Claiming, Active
  <2>3. QED BY <2>1, <2>2 DEF FaultlessInv
<1>2. ASSUME HandInv, [Next]_vars, faults' = 0 PROVE FaultlessInv'
  <2>1. faults = 0
    BY <1>2, FaultsKept DEF HandInv, DeliveryInv
  <2>2. FaultlessInv
    BY <1>2, <2>1 DEF HandInv
  <2>3. QED BY <1>2, <2>1, <2>2, OneAfterAnotherStep, OwnAttemptStep, ActiveJobOwnedStep,
               NotAbandonedStep DEF FaultlessInv
<1>3. QED BY <1>1, <1>2, InitDeliveryInv, NextDeliveryInv DEF HandInv

\* Until something fails, a target that is PUBLISHING has a message or a worker
\* that goes on with it: neither messages sent twice, nor orphan cleanup, nor
\* administrators who fail its jobs or reschedule it, leave it behind.
THEOREM NobodyAbandoned == Spec => []NotAbandoned
<1>1. HandInv => NotAbandoned
  BY DEF HandInv, FaultlessInv, NotAbandoned
<1>2. QED BY HandInduction, <1>1, PTL DEF Spec

\* Once the attempts of a target are over, no later step makes another one: the
\* messages still sent for it find their task id taken.
LEMMA OverStep ==
  ASSUME TypeOK, PhaseInv, [Next]_vars, NEW t \in Targets, Over(t), target'[t] # "GONE"
  PROVE  Over(t)'
<1>1. \A k \in Attempts : <<t, k>> \in Messages /\ <<t, k>>[1] = t /\ <<t, k>>[2] = k
  BY DEF Messages
<1>2. 0 \in Attempts
  BY ConstantsAssumption DEF Attempts
<1>3. \A k \in Attempts : job[<<t, k>>] # "NONE" => job'[<<t, k>>] # "NONE"
  BY <1>1, RecordedStep DEF Recorded
<1>4. ASSUME NEW k \in Attempts, job'[<<t, k>>] = "NONE", queue'[<<t, k>>] > 0 PROVE FALSE
  <2>1. job[<<t, k>>] = "NONE" /\ k # 0
    BY <1>3, <1>4 DEF Over
  <2>2. queue[<<t, k>>] = 0 /\ \A w \in Workers : msg[w] # <<t, k>>
    BY <2>1 DEF Over
  <2>3. ASSUME NEW w \in Workers, SendRetry(w), <<t, k>> = <<T(w), msg[w][2] + 1>> PROVE FALSE
    BY <2>3 DEF SendRetry, PhaseInv, Attempting, Over
  <2>4. QED BY <1>1, <1>4, <2>1, <2>2, <2>3, QueueFrame
<1>5. ASSUME NEW k \in Attempts, job'[<<t, k>>] = "NONE", NEW w \in Workers, msg'[w] = <<t, k>>
      PROVE  FALSE
  <2>1. queue[<<t, k>>] = 0 /\ \A v \in Workers : msg[v] # <<t, k>>
    BY <1>3, <1>5 DEF Over
  <2>2. <<t, k>> # NoMessage
    BY DEF NoMessage
  <2>3. QED BY <1>5, <2>1, <2>2, HeldFrame DEF Receive
<1>6. ASSUME NEW w \in Workers, Attempting(w)', T(w)' = t PROVE FALSE
  <2>1. T(w) = t /\ msg'[w] = msg[w]
    BY <1>6, AttemptFrame DEF T
  <2>2. ~ Attempting(w)
    BY <2>1 DEF Over
  <2>3. Create(w) /\ Insertable(msg[w])
    BY <1>6, <2>2, AttemptFrame
  <2>4. msg[w] = <<t, msg[w][2]>> /\ msg[w][2] \in Attempts /\ job[msg[w]] = "NONE"
    BY <2>1, <2>3, MessageFacts DEF Create, Insertable, TypeOK, T
  <2>5. QED BY <2>4 DEF Over
<1>7. \A k \in Attempts : queue'[<<t, k>>] = 0 \/ queue'[<<t, k>>] > 0
  BY <1>1, NextTypeOK DEF TypeOK
<1>8. QED BY <1>2, <1>3, <1>4, <1>5, <1>6, <1>7 DEF Over

\* Only the call of a worker on the target posts it, and only a worker on it
\* marks it published.
LEMMA OutcomeFrame ==
  ASSUME TypeOK, [Next]_vars
  PROVE  \A s \in Targets :
           /\ delivered'[s] = delivered[s] \/ \E v \in Workers : CallPublish(v) /\ T(v) = s
           /\ target'[s] = "PUBLISHED" =>
                target[s] = "PUBLISHED" \/ \E v \in Workers : MarkPublished(v) /\ T(v) = s
<1> DEFINE G ==
      \A s \in Targets :
        /\ delivered'[s] = delivered[s] \/ \E v \in Workers : CallPublish(v) /\ T(v) = s
        /\ target'[s] = "PUBLISHED" =>
             target[s] = "PUBLISHED" \/ \E v \in Workers : MarkPublished(v) /\ T(v) = s
<1> USE DEF rows, platform, locals, budgets, TypeOK
<1>1. ASSUME NEW t \in Targets, Dispatch(t) PROVE G
  BY <1>1 DEF Dispatch
<1>2. ASSUME NEW t \in Targets, AdminMarkFailed(t) PROVE G
  BY <1>2 DEF AdminMarkFailed
<1>3. ASSUME NEW t \in Targets, AdminReschedule(t) PROVE G
  BY <1>3 DEF AdminReschedule
<1>4. ASSUME NEW p \in Posts, DeletePost(p) PROVE G
  BY <1>4 DEF DeletePost
<1>5. ASSUME NEW w \in Workers, NEW m \in Messages, Receive(w, m) PROVE G
  BY <1>5 DEF Receive
<1>6. ASSUME NEW w \in Workers, Fetch(w) PROVE G
  BY <1>6 DEF Fetch
<1>7. ASSUME NEW w \in Workers, Cleanup(w) PROVE G
  BY <1>7 DEF Cleanup
<1>8. ASSUME NEW w \in Workers, Reset(w) PROVE G
  BY <1>8 DEF Reset
<1>9. ASSUME NEW w \in Workers, Create(w) PROVE G
  BY <1>9 DEF Create
<1>10. ASSUME NEW w \in Workers, MarkRunning(w) PROVE G
  BY <1>10 DEF MarkRunning
<1>11. ASSUME NEW w \in Workers, SetPublishing(w) PROVE G
  BY <1>11 DEF SetPublishing
<1>12. ASSUME NEW w \in Workers, SyncRead(w) PROVE G
  BY <1>12 DEF SyncRead
<1>13. ASSUME NEW w \in Workers, SyncWrite(w) PROVE G
  BY <1>13 DEF SyncWrite
<1>14. ASSUME NEW w \in Workers, CallPublish(w) PROVE G
  <2>1. \A s \in Targets : s # T(w) => delivered'[s] = delivered[s]
    BY <1>14 DEF CallPublish
  <2>2. QED BY <1>14, <2>1 DEF CallPublish
<1>15. ASSUME NEW w \in Workers, MarkSuccess(w) PROVE G
  BY <1>15 DEF MarkSuccess
<1>16. ASSUME NEW w \in Workers, MarkPublished(w) PROVE G
  <2>1. \A s \in Targets : s # T(w) => target'[s] = target[s]
    BY <1>16 DEF MarkPublished
  <2>2. QED BY <1>16, <2>1 DEF MarkPublished
<1>17. ASSUME NEW w \in Workers, MarkFailed(w) PROVE G
  BY <1>17 DEF MarkFailed
<1>18. ASSUME NEW w \in Workers, MarkTargetFailed(w) PROVE G
  BY <1>18 DEF MarkTargetFailed
<1>19. ASSUME NEW w \in Workers, SendRetry(w) PROVE G
  BY <1>19 DEF SendRetry
<1>20. ASSUME NEW w \in Workers, OnFailure(w) PROVE G
  BY <1>20 DEF OnFailure
<1>21. ASSUME NEW w \in Workers, RowGone(w) PROVE G
  BY <1>21 DEF RowGone
<1>22. ASSUME NEW w \in Workers, Ack(w) PROVE G
  BY <1>22 DEF Ack
<1>23. ASSUME NEW w \in Workers, Error(w) PROVE G
  BY <1>23 DEF Error
<1>24. ASSUME NEW w \in Workers, Crash(w) PROVE G
  BY <1>24 DEF Crash
<1>25. ASSUME NEW w \in Workers, Redeliver(w) PROVE G
  BY <1>25 DEF Redeliver
<1>26. CASE UNCHANGED vars
  BY <1>26 DEF vars
<1>27. QED
  BY <1>1, <1>2, <1>3, <1>4, <1>5, <1>6, <1>7, <1>8, <1>9, <1>10, <1>11, <1>12, <1>13,
     <1>14, <1>15, <1>16, <1>17, <1>18, <1>19, <1>20, <1>21, <1>22, <1>23, <1>24, <1>25,
     <1>26 DEF Next, Step, Fault

\* Nobody is left who could post it or mark it published.
LEMMA OverStill ==
  ASSUME TypeOK, PhaseInv, [Next]_vars, NEW t \in Targets, Over(t)
  PROVE  /\ delivered'[t] = delivered[t]
         /\ target'[t] = "PUBLISHED" => target[t] = "PUBLISHED"
<1>1. ASSUME NEW w \in Workers, CallPublish(w) \/ MarkPublished(w), T(w) = t PROVE FALSE
  BY <1>1 DEF CallPublish, MarkPublished, PhaseInv, Attempting, Claiming, Over
<1>2. QED BY <1>1, OutcomeFrame

\* A target whose attempts are over stays so for good, whatever fails and
\* whoever makes it SCHEDULED again: rescheduling it from the admin sends
\* messages, and never another post.
THEOREM TriedForGood == Spec => OverForGood
<1>1. TypeOK /\ PhaseInv /\ [Next]_vars
        => [\A t \in Targets : Over(t) /\ target'[t] # "GONE" =>
              /\ Over(t)'
              /\ delivered'[t] = delivered[t]
              /\ target'[t] = "PUBLISHED" => target[t] = "PUBLISHED"]_vars
  BY OverStep, OverStill
<1>2. DeliveryInv => TypeOK /\ PhaseInv
  BY DEF DeliveryInv
<1>3. QED BY <1>1, <1>2, DeliveryInvariant, PTL DEF Spec, OverForGood

=============================================================================
