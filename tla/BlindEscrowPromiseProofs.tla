---------------------- MODULE BlindEscrowPromiseProofs ----------------------
(***************************************************************************)
(* Who may settle a task, on what grounds and when, and that the contract  *)
(* keeps the promise of TaskPromise: for any number of tasks, accounts,    *)
(* windows and pauses, and although the admin, the verifier and the fee    *)
(* may change while a task is in flight.                                   *)
(*                                                                         *)
(* The calls are first reduced to what each does to the one task it names  *)
(* (WorkerCallEffect, OpenCallEffect, CreateEffect); the invariants follow *)
(* from those effects alone.                                               *)
(***************************************************************************)
EXTENDS BlindEscrowMoneyProofs

-----------------------------------------------------------------------------
(* What a call does to the task it names *)

\* Written when the task is created and never again.
Kept(id) ==
  /\ tasks'[id].agent = tasks[id].agent /\ tasks'[id].amount = tasks[id].amount
  /\ tasks'[id].createdAt = tasks[id].createdAt /\ tasks'[id].deadline = tasks[id].deadline
  /\ hTask'[id].created = hTask[id].created /\ hTask'[id].legacy = hTask[id].legacy
  /\ taskVerifier'[id] = taskVerifier[id]

OpenKept(id) ==
  /\ openTasks'[id] = openTasks[id]
  /\ submissionCount'[id] = submissionCount[id] /\ submissionOf'[id] = submissionOf[id]

Unpaid(id) == rating'[id] = rating[id] /\ hPayout'[id] = hPayout[id]

\* Nothing of the task moves.
Still(id) ==
  /\ tasks'[id] = tasks[id] /\ hTask'[id] = hTask[id]
  /\ taskVerifier'[id] = taskVerifier[id]
  /\ failedVerdictAt'[id] = failedVerdictAt[id]
  /\ unjudgedEscalation'[id] = unjudgedEscalation[id]
  /\ OpenKept(id) /\ Unpaid(id)

Assigned(id) ==
  /\ ~openTasks[id].open /\ tasks[id].status = "Funded" /\ tasks'[id].status = "Assigned"
  /\ tasks'[id].disputedAt = tasks[id].disputedAt /\ hTask'[id] = hTask[id]
  /\ unjudgedEscalation'[id] = unjudgedEscalation[id] /\ Unpaid(id)

Delivered(id) ==
  /\ tasks[id].status \in {"Assigned", "Verified"} /\ tasks'[id].status = "Submitted"
  /\ ~hTask'[id].judged /\ unjudgedEscalation'[id] = unjudgedEscalation[id] /\ Unpaid(id)

Failed(id) ==
  /\ tasks[id].status = "Submitted" /\ tasks'[id].status = "Verified"
  /\ failedVerdictAt'[id] = now /\ hTask'[id].failed = activeTime
  /\ unjudgedEscalation'[id] = unjudgedEscalation[id] /\ Unpaid(id)

Challenged(id) ==
  /\ tasks[id].status \in {"Submitted", "Verified"} /\ tasks'[id].status = "Disputed"
  /\ tasks'[id].disputedAt = now /\ hTask'[id].disputed = activeTime
  /\ hTask'[id].judged = hTask[id].judged
  /\ \/ unjudgedEscalation'[id] = unjudgedEscalation[id]
     \/ tasks[id].status = "Submitted" /\ unjudgedEscalation'[id]
  /\ Unpaid(id)

\* c's call ends the task, and leaves the record of how it came there.
Settles(c, id) ==
  /\ hTask'[id].settledBy = c /\ hTask'[id].settled = activeTime
  /\ hTask'[id].judged = hTask[id].judged /\ hTask'[id].disputed = hTask[id].disputed
  /\ tasks'[id].disputedAt = tasks[id].disputedAt
  /\ unjudgedEscalation'[id] = unjudgedEscalation[id]

Pays(c, id, score) ==
  /\ Settles(c, id)
  /\ tasks'[id].status = "Completed"
  /\ rating'[id] \in {rating[id], score}
  /\ score = 0 => rating'[id] = rating[id]
  /\ hPayout'[id].fee = hPayout[id].fee + PlatformFee(tasks[id].amount)

Refunds(c, id) ==
  /\ Settles(c, id)
  /\ tasks'[id].status = "Cancelled" /\ tasks'[id].worker = tasks[id].worker
  /\ rating'[id] = rating[id]

\* The settling calls, with the grounds the code asks for.
PaidByVerdict(c, id) ==
  /\ tasks[id].status = "Submitted" /\ c = VerdictAuthority(id) /\ c # tasks[id].worker
  /\ tasks'[id].worker = tasks[id].worker /\ Pays(c, id, PassScore(id))

Withdrawn(c, id) ==
  tasks[id].status = "Funded" /\ submissionCount[id] = 0 /\ Refunds(c, id)

TimedOut(c, id) ==
  /\ now >= EffectiveDeadline(id)
  /\ \/ tasks[id].status = "Assigned"
     \/ tasks[id].status = "Verified" /\ AppealWindowElapsed(id)
     \/ /\ tasks[id].status = "Disputed" /\ ~unjudgedEscalation[id]
        /\ tasks[id].disputedAt # 0 /\ DisputeWindowElapsed(id)
  /\ Refunds(c, id)

Ruled(c, id) ==
  /\ c = admin /\ tasks[id].status = "Disputed"
  /\ \/ tasks'[id].worker = tasks[id].worker /\ Pays(c, id, 3)
     \/ Refunds(c, id)

Collected(c, id) ==
  /\ tasks[id].status = "Disputed" /\ unjudgedEscalation[id] /\ DisputeWindowElapsed(id)
  /\ tasks'[id].worker = tasks[id].worker /\ Pays(c, id, 0)

LEMMA PayWorkerEffect ==
  ASSUME TypeOK, NEW c, NEW id \in TaskId, NEW t \in Task, NEW score,
         t.amount = tasks[id].amount, t.disputedAt = tasks[id].disputedAt,
         unjudgedEscalation'[id] = unjudgedEscalation[id], PayWorker(c, id, t, score)
  PROVE  /\ Pays(c, id, score)
         /\ tasks'[id].worker = t.worker /\ tasks'[id].evidenceHash = t.evidenceHash
<1>1. /\ tasks' = [tasks EXCEPT ![id] = [t EXCEPT !.status = "Completed"]]
      /\ hTask' = [hTask EXCEPT ![id] = [@ EXCEPT !.settledBy = c, !.settled = activeTime]]
      /\ hPayout' = [hPayout EXCEPT ![id] =
            [@ EXCEPT !.worker = hPayout[id].worker + (t.amount - PlatformFee(t.amount)),
                      !.fee = hPayout[id].fee + PlatformFee(t.amount)]]
      /\ Rate(id, score)
  BY DEF PayWorker
<1>2. /\ tasks \in [TaskId -> Task] /\ hTask \in [TaskId -> TaskHistory]
      /\ hPayout \in [TaskId -> Payout] /\ rating \in [TaskId -> 0..5]
  BY DEF TypeOK
<1>3. /\ tasks'[id].status = "Completed" /\ tasks'[id].disputedAt = tasks[id].disputedAt
      /\ tasks'[id].worker = t.worker /\ tasks'[id].evidenceHash = t.evidenceHash
  BY <1>1, <1>2 DEF Task
<1>4. Settles(c, id)
  BY <1>1, <1>2, <1>3 DEF Settles, TaskHistory
<1>5. rating'[id] \in {rating[id], score} /\ (score = 0 => rating'[id] = rating[id])
  BY <1>1, <1>2 DEF Rate
<1>6. hPayout'[id].fee = hPayout[id].fee + PlatformFee(t.amount)
  BY <1>1, <1>2 DEF Payout
<1>. QED
  BY <1>3, <1>4, <1>5, <1>6 DEF Pays

LEMMA RefundEffect ==
  ASSUME TypeOK, NEW c, NEW id \in TaskId, rating'[id] = rating[id],
         unjudgedEscalation'[id] = unjudgedEscalation[id], Refund(c, id)
  PROVE  Refunds(c, id)
<1>1. /\ tasks' = [tasks EXCEPT ![id] = [@ EXCEPT !.status = "Cancelled"]]
      /\ hTask' = [hTask EXCEPT ![id] = [@ EXCEPT !.settledBy = c, !.settled = activeTime]]
  BY DEF Refund
<1>2. tasks \in [TaskId -> Task] /\ hTask \in [TaskId -> TaskHistory]
  BY DEF TypeOK
<1>. QED
  BY <1>1, <1>2 DEF Refunds, Settles, Task, TaskHistory

LEMMA WorkerCallKeeps ==
  ASSUME TypeOK, NEW c \in Address, NEW id \in TaskId, WorkerLifecycleCall(c, id)
  PROVE  /\ UNCHANGED openVars
         /\ \A i \in TaskId \ {id} : Still(i)
         /\ \A i \in TaskId : Kept(i)
<1>. USE DEF openVars, verdictVars, moneyVars, reputationVars
<1>1. UNCHANGED openVars
  BY DEF WorkerLifecycleCall, AssignWorker, MarketplaceAssign, Assign, SubmitEvidence,
     CompleteVerificationWithTEE, CompleteVerification, CancelTask, ClaimTimeout,
     EscalateUnjudged, RefundTimeout, RaiseDispute, ResolveDispute, ReleaseUnjudgedWork
<1>2. \A i \in TaskId : Kept(i)
  BY WorkerLifecycleTerms DEF Kept, SameTerms, createVars
<1>3. ASSUME NEW i \in TaskId, i # id PROVE Still(i)
  <2>. DEFINE Goal == /\ hTask'[i] = hTask[i] /\ rating'[i] = rating[i]
                      /\ failedVerdictAt'[i] = failedVerdictAt[i]
                      /\ unjudgedEscalation'[i] = unjudgedEscalation[i]
  <2>1. ASSUME NEW t, NEW score, PayWorker(c, id, t, score)
        PROVE  hTask'[i] = hTask[i] /\ rating'[i] = rating[i]
    BY <1>3, <2>1 DEF PayWorker, Rate, TypeOK
  <2>2. Refund(c, id) => hTask'[i] = hTask[i]
    BY <1>3 DEF Refund, TypeOK
  <2>3. RecordDispute(id) => rating' = rating
    BY DEF RecordDispute
  <2>4. ASSUME NEW worker, Assign(id, worker) PROVE Goal
    BY <2>4 DEF Assign
  <2>5. ASSUME NEW hash, SubmitEvidence(c, id, hash) PROVE Goal
    BY <1>3, <2>5 DEF SubmitEvidence, TypeOK
  <2>6. ASSUME NEW passed \in BOOLEAN, CompleteVerification(c, id, passed) PROVE Goal
    <3>1. CASE passed
      BY <2>1, <2>6, <3>1 DEF CompleteVerification
    <3>2. CASE ~passed
      BY <1>3, <2>3, <2>6, <3>2 DEF CompleteVerification, TypeOK
    <3>. QED
      BY <3>1, <3>2
  <2>7. ASSUME CancelTask(c, id) \/ RefundTimeout(c, id) PROVE Goal
    BY <2>2, <2>7 DEF CancelTask, RefundTimeout
  <2>8. ASSUME EscalateUnjudged(c, id) \/ RaiseDispute(c, id) PROVE Goal
    BY <1>3, <2>8 DEF EscalateUnjudged, RaiseDispute, TypeOK
  <2>9. ASSUME NEW workerFavored \in BOOLEAN, ResolveDispute(c, id, workerFavored) PROVE Goal
    BY <2>1, <2>2, <2>3, <2>9 DEF ResolveDispute
  <2>10. ASSUME ReleaseUnjudgedWork(c, id) PROVE Goal
    BY <2>1, <2>10 DEF ReleaseUnjudgedWork
  <2>11. Goal
    BY <2>4, <2>5, <2>6, <2>7, <2>8, <2>9, <2>10
       DEF WorkerLifecycleCall, AssignWorker, MarketplaceAssign,
           CompleteVerificationWithTEE, ClaimTimeout
  <2>12. Untouched(i)
    BY <1>3, WorkerCallTouches
  <2>. QED
    BY <1>1, <1>2, <2>11, <2>12 DEF Still, OpenKept, Unpaid, Untouched, Kept
<1>. QED
  BY <1>1, <1>2, <1>3

LEMMA WorkerCallEffect ==
  ASSUME TypeOK, NEW c \in Address, NEW id \in TaskId, WorkerLifecycleCall(c, id)
  PROVE  \/ Assigned(id) \/ Delivered(id) \/ Failed(id) \/ Challenged(id)
         \/ PaidByVerdict(c, id) \/ Withdrawn(c, id) \/ TimedOut(c, id)
         \/ Ruled(c, id) \/ Collected(c, id)
<1>. USE DEF verdictVars, moneyVars, reputationVars
<1>1. /\ tasks \in [TaskId -> Task] /\ hTask \in [TaskId -> TaskHistory]
      /\ tasks[id] \in Task /\ failedVerdictAt \in [TaskId -> Nat]
      /\ unjudgedEscalation \in [TaskId -> BOOLEAN]
  BY DEF TypeOK
<1>2. ASSUME NEW worker, Assign(id, worker) PROVE Assigned(id)
  BY <1>1, <1>2 DEF Assign, Assigned, Unpaid, Task
<1>3. ASSUME NEW hash, SubmitEvidence(c, id, hash) PROVE Delivered(id)
  <2>1. /\ tasks' = [tasks EXCEPT ![id] = [@ EXCEPT
             !.evidenceHash = hash, !.status = "Submitted",
             !.submissionAttempts = tasks[id].submissionAttempts + 1]]
        /\ hTask' = [hTask EXCEPT ![id] = [@ EXCEPT !.judged = FALSE]]
        /\ tasks[id].status \in {"Assigned", "Verified"}
        /\ UNCHANGED <<unjudgedEscalation, rating, hPayout>>
    BY <1>3 DEF SubmitEvidence
  <2>2. tasks'[id].status = "Submitted" /\ ~hTask'[id].judged
    BY <1>1, <2>1 DEF Task, TaskHistory
  <2>. QED
    BY <2>1, <2>2 DEF Delivered, Unpaid
<1>4. ASSUME NEW passed \in BOOLEAN, CompleteVerification(c, id, passed)
      PROVE  Failed(id) \/ PaidByVerdict(c, id)
  <2>1. CASE passed
    BY <1>1, <1>4, <2>1, PayWorkerEffect DEF CompleteVerification, PaidByVerdict
  <2>2. CASE ~passed
    <3>1. /\ tasks' = [tasks EXCEPT ![id] = [@ EXCEPT !.status = "Verified"]]
          /\ failedVerdictAt' = [failedVerdictAt EXCEPT ![id] = now]
          /\ hTask' = [hTask EXCEPT ![id] = [@ EXCEPT !.failed = activeTime, !.judged = TRUE]]
          /\ UNCHANGED <<unjudgedEscalation, rating, hPayout>>
          /\ tasks[id].status = "Submitted"
      BY <1>4, <2>2 DEF CompleteVerification, RecordDispute
    <3>. QED
      BY <1>1, <3>1 DEF Failed, Unpaid, Task, TaskHistory
  <2>. QED
    BY <2>1, <2>2
<1>5. CASE CancelTask(c, id)
  BY <1>5, RefundEffect DEF CancelTask, Withdrawn
<1>6. CASE EscalateUnjudged(c, id) \/ RaiseDispute(c, id)
  <2>1. /\ tasks' = [tasks EXCEPT ![id] = [@ EXCEPT !.status = "Disputed", !.disputedAt = now]]
        /\ hTask' = [hTask EXCEPT ![id] = [@ EXCEPT !.disputed = activeTime]]
        /\ tasks[id].status \in {"Submitted", "Verified"}
        /\ UNCHANGED <<rating, hPayout>>
        /\ \/ unjudgedEscalation' = unjudgedEscalation
           \/ /\ tasks[id].status = "Submitted"
              /\ unjudgedEscalation' = [unjudgedEscalation EXCEPT ![id] = TRUE]
    BY <1>6 DEF EscalateUnjudged, RaiseDispute
  <2>. QED
    BY <1>1, <2>1 DEF Challenged, Unpaid, Task, TaskHistory
<1>7. CASE RefundTimeout(c, id)
  BY <1>7, RefundEffect DEF RefundTimeout, TimedOut
<1>8. ASSUME NEW workerFavored \in BOOLEAN, ResolveDispute(c, id, workerFavored)
      PROVE  Ruled(c, id)
  BY <1>1, <1>8, PayWorkerEffect, RefundEffect DEF ResolveDispute, RecordDispute, Ruled
<1>9. CASE ReleaseUnjudgedWork(c, id)
  BY <1>1, <1>9, PayWorkerEffect DEF ReleaseUnjudgedWork, Collected
<1>. QED
  BY <1>2, <1>3, <1>4, <1>5, <1>6, <1>7, <1>8, <1>9
     DEF WorkerLifecycleCall, AssignWorker, MarketplaceAssign,
         CompleteVerificationWithTEE, ClaimTimeout

Entered(c, id) ==
  /\ openTasks[id].open /\ tasks[id].status = "Funded"
  /\ c \notin {tasks[id].agent, taskVerifier[id]}
  /\ tasks'[id] = tasks[id] /\ hTask'[id] = hTask[id]
  /\ openTasks'[id] = openTasks[id]
  /\ submissionCount'[id] = submissionCount[id] + 1
  /\ \A a \in Address \ {c} : submissionOf'[id][a] = submissionOf[id][a]
  /\ Unpaid(id)

ClosedBy(id, judge) ==
  /\ openTasks[id].open /\ tasks[id].status = "Funded"
  /\ openTasks'[id].open /\ openTasks'[id].closedBy = judge
  /\ openTasks'[id].creatorWindow = openTasks[id].creatorWindow
  /\ submissionCount'[id] = submissionCount[id] /\ submissionOf'[id] = submissionOf[id]

HasTurn(id, judge) ==
  \/ judge = "Creator" /\ OpenPhase(id) = "CreatorPick"
  \/ judge = "TaskVerifier" /\ OpenPhase(id) = "VerifierPick"
  \/ judge = "Backup" /\ OpenPhase(id) = "BackupPick"
  \/ judge = "Admin" /\ OpenPhase(id) = "AdminResolve"

Picked(c, id, winner, judge) ==
  /\ ClosedBy(id, judge) /\ HasTurn(id, judge)
  /\ submissionOf[id][winner] # NoHash /\ winner # c
  /\ tasks'[id].worker = winner /\ tasks'[id].evidenceHash = submissionOf[id][winner]
  /\ \/ Pays(c, id, 0)
     \/ /\ Pays(c, id, 5) /\ judge \in {"Backup", "Admin"}
        /\ PlatformFee(tasks[id].amount) > 0

Voided(c, id, judge) ==
  /\ ClosedBy(id, judge)
  /\ \/ /\ judge = "Creator" /\ submissionCount[id] = 0
        /\ OpenPhase(id) \notin {"NotOpen", "Submissions", "Closed"}
     \/ judge \in {"Backup", "Admin"} /\ HasTurn(id, judge)
  /\ Refunds(c, id)

LEMMA OpenCallKeeps ==
  ASSUME TypeOK, NEW c \in Address, NEW id \in TaskId, OpenSubmissionCall(c, id)
  PROVE  /\ \A i \in TaskId \ {id} : Still(i)
         /\ \A i \in TaskId : Kept(i)
         /\ unjudgedEscalation' = unjudgedEscalation
<1>. USE DEF openVars, verdictVars, moneyVars, reputationVars
<1>1. \A i \in TaskId : Kept(i)
  BY OpenSubmissionTerms DEF Kept, SameTerms, createVars
<1>2. UNCHANGED verdictVars
  BY DEF OpenSubmissionCall, SubmitOpen, SelectWinner, SelectWinnerByVerifier,
     SelectWinnerByBackup, VoidOpenTask, ResolveOpenTask, PickWinner, CloseWithoutWinner
<1>3. ASSUME NEW i \in TaskId, i # id PROVE Still(i)
  <2>. DEFINE Goal == /\ hTask'[i] = hTask[i] /\ rating'[i] = rating[i]
                      /\ submissionOf'[i] = submissionOf[i]
  <2>1. ASSUME NEW hash, SubmitOpen(c, id, hash) PROVE Goal
    BY <1>3, <2>1 DEF SubmitOpen, TypeOK
  <2>2. ASSUME NEW winner, NEW judge, PickWinner(c, id, winner, judge) PROVE Goal
    <3>1. PICK t, score : PayWorker(c, id, t, score)
      BY <2>2 DEF PickWinner
    <3>2. hTask'[i] = hTask[i] /\ rating'[i] = rating[i]
      BY <1>3, <3>1 DEF PayWorker, Rate, TypeOK
    <3>. QED
      BY <2>2, <3>2 DEF PickWinner
  <2>3. ASSUME NEW judge, CloseWithoutWinner(c, id, judge) PROVE Goal
    BY <1>3, <2>3 DEF CloseWithoutWinner, Refund, TypeOK
  <2>4. Goal
    BY <2>1, <2>2, <2>3 DEF OpenSubmissionCall, SelectWinner, SelectWinnerByVerifier,
       SelectWinnerByBackup, VoidOpenTask, ResolveOpenTask
  <2>5. Untouched(i)
    BY <1>3, OpenCallTouches
  <2>. QED
    BY <1>1, <1>2, <2>4, <2>5 DEF Still, OpenKept, Unpaid, Untouched, Kept
<1>. QED
  BY <1>1, <1>2, <1>3

LEMMA OpenCallEffect ==
  ASSUME TypeOK, NEW c \in Address, NEW id \in TaskId, OpenSubmissionCall(c, id)
  PROVE  \/ Entered(c, id)
         \/ \E winner \in Address, judge \in Judge \ {"None"} : Picked(c, id, winner, judge)
         \/ \E judge \in Judge \ {"None"} : Voided(c, id, judge)
<1>. USE DEF verdictVars, moneyVars, reputationVars
<1>1. /\ tasks[id] \in Task /\ openTasks \in [TaskId -> OpenTask]
      /\ submissionOf \in [TaskId -> [Address -> Hash \cup {NoHash}]]
      /\ submissionCount \in [TaskId -> Nat]
  BY DEF TypeOK
<1>2. openTasks[id].open /\ tasks[id].status = "Funded"
  BY OpenCallNeedsFunded
<1>3. ASSUME NEW hash, SubmitOpen(c, id, hash) PROVE Entered(c, id)
  BY <1>1, <1>3 DEF SubmitOpen, Entered, Unpaid
<1>4. ASSUME NEW winner \in Address, NEW judge \in Judge \ {"None"}, HasTurn(id, judge),
             PickWinner(c, id, winner, judge)
      PROVE  Picked(c, id, winner, judge)
  <2>. DEFINE t == [tasks[id] EXCEPT !.worker = winner, !.evidenceHash = submissionOf[id][winner]]
              score == IF EarnsRating(t, PlatformFee(t.amount), judge \in {"Creator", "TaskVerifier"})
                       THEN 5 ELSE 0
  <2>1. /\ t \in Task /\ t.amount = tasks[id].amount /\ t.disputedAt = tasks[id].disputedAt
        /\ t.worker = winner /\ t.evidenceHash = submissionOf[id][winner]
    <3>1. submissionOf[id][winner] \in Hash \cup {NoHash} /\ winner \in Account
      BY <1>1 DEF Account
    <3>. QED
      BY <1>1, <3>1 DEF Task
  <2>2. PayWorker(c, id, t, score) /\ UNCHANGED verdictVars
    BY <1>4 DEF PickWinner
  <2>3. \/ score = 0
        \/ score = 5 /\ judge \in {"Backup", "Admin"} /\ PlatformFee(t.amount) > 0
    BY DEF EarnsRating, Judge
  <2>4. ClosedBy(id, judge) /\ submissionOf[id][winner] # NoHash /\ winner # c
    BY <1>1, <1>2, <1>4 DEF PickWinner, ClosedBy, OpenTask
  <2>. HIDE DEF t, score
  <2>5. /\ Pays(c, id, score)
        /\ tasks'[id].worker = winner /\ tasks'[id].evidenceHash = submissionOf[id][winner]
    BY <2>1, <2>2, PayWorkerEffect
  <2>. QED
    BY <1>4, <2>1, <2>3, <2>4, <2>5 DEF Picked
<1>5. ASSUME NEW judge, CloseWithoutWinner(c, id, judge)
      PROVE  ClosedBy(id, judge) /\ Refunds(c, id)
  <2>1. Refund(c, id) /\ UNCHANGED <<unjudgedEscalation, rating>>
    BY <1>5 DEF CloseWithoutWinner
  <2>2. Refunds(c, id)
    BY <2>1, RefundEffect
  <2>. QED
    BY <1>1, <1>2, <1>5, <2>2 DEF CloseWithoutWinner, ClosedBy, OpenTask
<1>6. CASE VoidOpenTask(c, id)
  BY <1>5, <1>6 DEF VoidOpenTask, Voided, HasTurn, Judge
<1>7. ASSUME NEW winner \in Account, ResolveOpenTask(c, id, winner)
      PROVE  \/ \E w \in Address, judge \in Judge \ {"None"} : Picked(c, id, w, judge)
             \/ \E judge \in Judge \ {"None"} : Voided(c, id, judge)
  <2>1. HasTurn(id, "Admin") /\ "Admin" \in Judge \ {"None"}
    BY <1>7 DEF ResolveOpenTask, HasTurn, Judge
  <2>2. CASE winner = NoAddr
    BY <1>5, <1>7, <2>1, <2>2 DEF ResolveOpenTask, Voided
  <2>3. CASE winner # NoAddr
    BY <1>4, <1>7, <2>1, <2>3 DEF ResolveOpenTask, Account
  <2>. QED
    BY <2>2, <2>3
<1>8. ASSUME NEW winner \in Address,
             \/ SelectWinner(c, id, winner) \/ SelectWinnerByVerifier(c, id, winner)
             \/ SelectWinnerByBackup(c, id, winner)
      PROVE  \E judge \in Judge \ {"None"} : Picked(c, id, winner, judge)
  BY <1>4, <1>8
     DEF SelectWinner, SelectWinnerByVerifier, SelectWinnerByBackup, HasTurn, Judge
<1>. QED
  BY <1>3, <1>6, <1>7, <1>8 DEF OpenSubmissionCall

\* A task that has just been recorded: nothing has happened to it.
New(id) ==
  /\ id >= nextTaskId
  /\ tasks'[id].agent # NoAddr /\ tasks'[id].amount > 0
  /\ tasks'[id].status = "Funded" /\ tasks'[id].worker = NoAddr /\ ~hTask'[id].legacy
  /\ openTasks'[id].closedBy = "None"
  /\ submissionCount'[id] = submissionCount[id] /\ submissionOf'[id] = submissionOf[id]
  /\ unjudgedEscalation'[id] = unjudgedEscalation[id] /\ Unpaid(id)

LEMMA CreateEffect ==
  ASSUME TypeOK, NEW c \in Posters, PosterCall(c)
  PROVE  \A i \in TaskId : New(i) \/ Still(i)
<1>. USE DEF verdictVars, reputationVars
<1>1. PICK token \in Token, inputs \in Seq(TaskInput), open \in OpenTask :
        open.closedBy = "None" /\ RecordTasks(c, token, inputs, open)
  BY PosterCallRecords
<1>. DEFINE ids == nextTaskId..(nextTaskId + Len(inputs) - 1)
            in(id) == inputs[id - nextTaskId + 1]
<1>2. /\ UNCHANGED <<failedVerdictAt, unjudgedEscalation, submissionCount, submissionOf,
                     hPayout, rating>>
  BY <1>1 DEF RecordTasks
<1>3. ASSUME NEW i \in TaskId, i \notin ids PROVE Still(i)
  BY <1>1, <1>2, <1>3 DEF RecordTasks, Still, OpenKept, Unpaid
<1>4. ASSUME NEW i \in TaskId, i \in ids PROVE New(i)
  <2>1. /\ tasks'[i] = [ZeroTask EXCEPT !.agent = c, !.token = token, !.amount = in(i).amount,
                          !.createdAt = now, !.deadline = now + in(i).duration]
        /\ openTasks'[i] = open
        /\ hTask'[i] = [NoHistory EXCEPT !.created = activeTime]
        /\ in(i).amount # 0
    BY <1>1, <1>4 DEF RecordTasks, Recordable
  <2>2. in(i).amount \in Nat
    <3>1. nextTaskId \in Nat
      BY NumberAssumption DEF TypeOK
    <3>2. in(i) \in TaskInput
      BY <1>4, <3>1
    <3>. QED
      BY <3>2, NumberAssumption DEF TaskInput
  <2>3. c # NoAddr /\ i >= nextTaskId
    BY <1>4, AddressAssumption
  <2>. HIDE DEF in, ids
  <2>. QED
    BY <1>1, <1>2, <2>1, <2>2, <2>3 DEF New, Unpaid, ZeroTask, NoHistory
<1>. QED
  BY <1>3, <1>4

-----------------------------------------------------------------------------
(* Every step, seen from one task *)

WorkerMove(c, id) ==
  /\ Kept(id) /\ OpenKept(id)
  /\ \/ Assigned(id) \/ Delivered(id) \/ Failed(id) \/ Challenged(id)
     \/ PaidByVerdict(c, id) \/ Withdrawn(c, id) \/ TimedOut(c, id)
     \/ Ruled(c, id) \/ Collected(c, id)

OpenMove(c, id) ==
  /\ Kept(id) /\ unjudgedEscalation'[id] = unjudgedEscalation[id]
  /\ \/ Entered(c, id)
     \/ \E winner \in Address, judge \in Judge \ {"None"} : Picked(c, id, winner, judge)
     \/ \E judge \in Judge \ {"None"} : Voided(c, id, judge)

\* A step records new tasks, moves one task that exists, or moves none.
LEMMA StepMoves ==
  ASSUME TypeOK, PauseInv, NoPhantomTask, [Next]_vars
  PROVE  \/ \A i \in TaskId : New(i) \/ Still(i)
         \/ \E c \in Address, id \in TaskId :
              /\ id < nextTaskId
              /\ \A i \in TaskId \ {id} : Still(i)
              /\ WorkerMove(c, id) \/ OpenMove(c, id)
<1>1. ASSUME NEW c \in Posters, PosterCall(c) PROVE \A i \in TaskId : New(i) \/ Still(i)
  BY <1>1, CreateEffect
<1>2. ASSUME NEW c \in Address, NEW id \in TaskId, WorkerLifecycleCall(c, id)
      PROVE  id < nextTaskId /\ (\A i \in TaskId \ {id} : Still(i)) /\ WorkerMove(c, id)
  <2>1. OpenKept(id) /\ Kept(id) /\ \A i \in TaskId \ {id} : Still(i)
    BY <1>2, WorkerCallKeeps DEF OpenKept, openVars
  <2>. QED
    BY <1>2, <2>1, WorkerCallEffect, CallNeedsTask DEF WorkerMove
<1>3. ASSUME NEW c \in Address, NEW id \in TaskId, OpenSubmissionCall(c, id)
      PROVE  id < nextTaskId /\ (\A i \in TaskId \ {id} : Still(i)) /\ OpenMove(c, id)
  BY <1>3, OpenCallKeeps, OpenCallEffect, CallNeedsTask DEF OpenMove
<1>4. CASE (\E c \in Address : AdminCall(c)) \/ Tick \/ ExternalFault \/ UNCHANGED vars
  <2>1. UNCHANGED <<tasks, hTask, taskVerifier, failedVerdictAt, unjudgedEscalation,
                    openTasks, submissionCount, submissionOf, rating, hPayout>>
    BY <1>4 DEF AdminCall, Configure, Pause, Unpause, RecordPauseStart, Tick, ExternalFault,
       vars, taskStateVars, createVars, verdictVars, openVars, moneyVars, reputationVars
  <2>. QED
    BY <2>1 DEF Still, OpenKept, Unpaid
<1>. QED
  BY <1>1, <1>2, <1>3, <1>4 DEF Next

LEMMA StepEffect ==
  ASSUME TypeOK, PauseInv, NoPhantomTask, [Next]_vars, NEW id \in TaskId
  PROVE  New(id) \/ Still(id) \/ \E c \in Address : WorkerMove(c, id) \/ OpenMove(c, id)
  BY StepMoves

-----------------------------------------------------------------------------
(* The grounds: what a status tells of how the task came to it *)

GroundsOf(id) ==
  LET t == tasks[id]
      h == hTask[id]
  IN
  /\ t.status = "Submitted" => ~h.judged
  /\ t.status = "Verified" /\ ~h.legacy =>
       h.failed - h.created <= failedVerdictAt[id] - t.createdAt
  /\ t.status = "Disputed" /\ ~h.legacy =>
       t.disputedAt # 0 /\ h.disputed - h.created <= t.disputedAt - t.createdAt
  /\ unjudgedEscalation[id] =>
       /\ t.status \in {"Disputed", "Completed", "Cancelled"}
       /\ t.disputedAt # 0 /\ ~h.judged
  /\ openTasks[id].open => ~h.legacy
  /\ openTasks[id].closedBy # "None" => t.status \in {"Completed", "Cancelled"}
  /\ submissionCount[id] > 0 => openTasks[id].open
  /\ \A a \in Address : submissionOf[id][a] # NoHash =>
       /\ submissionCount[id] > 0
       /\ a # t.agent /\ a # taskVerifier[id]

Grounds == \A id \in TaskId : GroundsOf(id)

\* The unpaused time of a task is the time since its creation less the pauses,
\* and a pause never gives time back.
LEMMA UnpausedTime ==
  ASSUME TypeOK, PauseInv, NoPhantomTask, NEW id \in TaskId, ~hTask[id].legacy,
         tasks[id].status # "Funded" \/ openTasks[id].open
  PROVE  /\ activeTime - hTask[id].created = now - PauseExtension(id) - tasks[id].createdAt
         /\ PauseExtension(id) \in Nat
<1>1. Created(id)
  <2>1. id < nextTaskId
    <3>1. nextTaskId \in Int /\ id \in Int
      BY NumberAssumption DEF TypeOK, TaskId
    <3>. QED
      BY <3>1 DEF NoPhantomTask, ZeroTask, ClosedToOpen
  <2>. QED
    BY <2>1, AddressAssumption DEF NoPhantomTask, Created
<1>2. PauseExtension(id) \in Nat
  <2>1. /\ now \in Nat /\ pausedTotal \in Nat /\ pausedSince \in 0..now
        /\ pausedTotalAtCreate[id] \in Nat /\ pausedTotalAtCreate[id] <= pausedTotal
    BY DEF TypeOK, PauseInv, PauseAccounting
  <2>. QED
    BY <2>1 DEF PauseExtension, PausedSeconds
<1>. QED
  BY <1>1, <1>2 DEF PauseInv, PauseNeutral

\* A task that is about to be recorded has no past.
LEMMA NewHasNoPast ==
  ASSUME TypeOK, NoPhantomTask, Grounds, NEW id \in TaskId, New(id)
  PROVE  /\ tasks[id].status = "Funded" /\ ~openTasks[id].open
         /\ submissionCount'[id] = 0 /\ ~unjudgedEscalation'[id]
         /\ \A a \in Address : submissionOf'[id][a] = NoHash
<1>1. /\ tasks[id] = ZeroTask /\ openTasks[id] = ClosedToOpen /\ submissionCount[id] = 0
  BY DEF New, NoPhantomTask
<1>2. tasks[id].status = "Funded" /\ ~openTasks[id].open
  BY <1>1 DEF ZeroTask, ClosedToOpen
<1>3. ~unjudgedEscalation[id] /\ \A a \in Address : submissionOf[id][a] = NoHash
  BY <1>1, <1>2 DEF Grounds, GroundsOf
<1>. QED
  BY <1>1, <1>2, <1>3 DEF New

LEMMA StepGrounds == TypeOK /\ PauseInv /\ NoPhantomTask /\ Grounds /\ [Next]_vars => Grounds'
<1>. SUFFICES ASSUME TypeOK, PauseInv, NoPhantomTask, Grounds, [Next]_vars, NEW id \in TaskId
              PROVE  GroundsOf(id)'
  BY DEF Grounds
<1>. DEFINE t == tasks[id]
            h == hTask[id]
<1>1. /\ GroundsOf(id) /\ now \in Nat \ {0} /\ activeTime \in Nat
      /\ t.createdAt \in Nat /\ h.created \in Nat /\ submissionCount[id] \in Nat
  BY DEF Grounds, TypeOK, Task, TaskHistory
<1>2. CASE New(id)
  BY <1>2, NewHasNoPast DEF New, GroundsOf
<1>3. CASE Still(id)
  BY <1>1, <1>3 DEF Still, OpenKept, GroundsOf
<1>4. ASSUME t.status # "Funded", ~h.legacy
      PROVE  activeTime - h.created <= now - t.createdAt
  BY <1>1, <1>4, UnpausedTime
<1>5. ASSUME Kept(id), OpenKept(id), Assigned(id) \/ Delivered(id) PROVE GroundsOf(id)'
  BY <1>1, <1>5 DEF Kept, OpenKept, Assigned, Delivered, GroundsOf
<1>6. ASSUME Kept(id), OpenKept(id), Failed(id) PROVE GroundsOf(id)'
  BY <1>1, <1>4, <1>6 DEF Kept, OpenKept, Failed, GroundsOf
<1>7. ASSUME Kept(id), OpenKept(id), Challenged(id) PROVE GroundsOf(id)'
  BY <1>1, <1>4, <1>7 DEF Kept, OpenKept, Challenged, GroundsOf
<1>8. ASSUME NEW c, Kept(id), OpenKept(id), Settles(c, id),
             t.status \in {"Funded", "Submitted", "Assigned", "Verified", "Disputed"},
             tasks'[id].status \in {"Completed", "Cancelled"}
      PROVE  GroundsOf(id)'
  BY <1>1, <1>8 DEF Kept, OpenKept, Settles, GroundsOf
<1>9. ASSUME NEW c \in Address, Kept(id), Entered(c, id),
             unjudgedEscalation'[id] = unjudgedEscalation[id]
      PROVE  GroundsOf(id)'
  BY <1>1, <1>9 DEF Kept, Entered, GroundsOf
<1>10. ASSUME NEW c, NEW judge, Kept(id), ClosedBy(id, judge), Settles(c, id),
              tasks'[id].status \in {"Completed", "Cancelled"}
       PROVE  GroundsOf(id)'
  BY <1>1, <1>10 DEF Kept, ClosedBy, Settles, GroundsOf
<1>. QED
  <2>1. ASSUME NEW c \in Address, WorkerMove(c, id) PROVE GroundsOf(id)'
    <3>1. \/ Assigned(id) \/ Delivered(id) \/ Failed(id) \/ Challenged(id)
          \/ /\ Settles(c, id) /\ tasks'[id].status \in {"Completed", "Cancelled"}
             /\ t.status \in {"Funded", "Submitted", "Assigned", "Verified", "Disputed"}
      BY <2>1 DEF WorkerMove, PaidByVerdict, Withdrawn, TimedOut, Ruled, Collected, Pays, Refunds
    <3>2. Kept(id) /\ OpenKept(id)
      BY <2>1 DEF WorkerMove
    <3>. QED
      BY <1>5, <1>6, <1>7, <1>8, <3>1, <3>2
  <2>2. ASSUME NEW c \in Address, OpenMove(c, id) PROVE GroundsOf(id)'
    <3>1. \/ Entered(c, id)
          \/ /\ Settles(c, id) /\ tasks'[id].status \in {"Completed", "Cancelled"}
             /\ \E judge : ClosedBy(id, judge)
      BY <2>2 DEF OpenMove, Picked, Voided, Pays, Refunds
    <3>. QED
      BY <1>9, <1>10, <2>2, <3>1 DEF OpenMove
  <2>. QED
    BY <1>2, <1>3, <2>1, <2>2, StepEffect

-----------------------------------------------------------------------------
(* Open submission and the judges *)

LEMMA StepOpenOutcome ==
  ASSUME TypeOK, PauseInv, NoPhantomTask, Grounds, OpenLifecycle, [Next]_vars
  PROVE  OpenLifecycle'
<1>. SUFFICES ASSUME NEW id \in TaskId PROVE OpenOutcome(id)'
  BY DEF OpenLifecycle
<1>1. OpenOutcome(id) /\ GroundsOf(id)
  BY DEF OpenLifecycle, Grounds
<1>2. CASE New(id)
  BY <1>2 DEF New, OpenOutcome
<1>3. CASE Still(id)
  BY <1>1, <1>3 DEF Still, OpenKept, OpenOutcome
<1>4. ASSUME NEW c \in Address, WorkerMove(c, id) PROVE OpenOutcome(id)'
  <2>1. CASE ~openTasks[id].open
    BY <1>4, <2>1 DEF WorkerMove, OpenKept, OpenOutcome
  <2>2. CASE openTasks[id].open
    <3>1. Withdrawn(c, id)
      BY <1>1, <1>4, <2>2 DEF WorkerMove, OpenOutcome, Assigned, Delivered, Failed, Challenged,
         PaidByVerdict, TimedOut, Ruled, Collected
    <3>. QED
      BY <1>1, <2>2, <3>1 DEF Withdrawn, Refunds, OpenOutcome
  <2>. QED
    BY <2>1, <2>2
<1>5. ASSUME NEW c \in Address, OpenMove(c, id) PROVE OpenOutcome(id)'
  <2>1. CASE Entered(c, id)
    BY <1>1, <2>1 DEF Entered, OpenOutcome
  <2>2. ASSUME NEW winner \in Address, NEW judge, Picked(c, id, winner, judge)
        PROVE  OpenOutcome(id)'
    BY <1>1, <1>5, <2>2
       DEF Picked, ClosedBy, Pays, Settles, OpenMove, Kept, OpenOutcome, GroundsOf
  <2>3. ASSUME NEW judge, Voided(c, id, judge) PROVE OpenOutcome(id)'
    BY <1>1, <2>3 DEF Voided, ClosedBy, Refunds, OpenOutcome
  <2>. QED
    BY <1>5, <2>1, <2>2, <2>3 DEF OpenMove
<1>. QED
  BY <1>2, <1>3, <1>4, <1>5, StepEffect

LEMMA StepVerdict ==
  ASSUME TypeOK, PauseInv, NoPhantomTask, Grounds, VerdictIndependent, [Next]_vars
  PROVE  VerdictIndependent'
<1>. SUFFICES ASSUME NEW id \in TaskId PROVE JudgedByOther(id)'
  BY DEF VerdictIndependent
<1>1. JudgedByOther(id) /\ GroundsOf(id)
  BY DEF VerdictIndependent, Grounds
<1>2. CASE New(id)
  BY <1>2 DEF New, JudgedByOther
<1>3. CASE Still(id)
  BY <1>1, <1>3 DEF Still, OpenKept, JudgedByOther
<1>4. ASSUME NEW c \in Address, WorkerMove(c, id) PROVE JudgedByOther(id)'
  <2>1. CASE PaidByVerdict(c, id)
    BY <1>4, <2>1 DEF PaidByVerdict, VerdictAuthority, Pays, Settles, WorkerMove, Kept, JudgedByOther
  <2>2. CASE Ruled(c, id) \/ Collected(c, id)
    <3>1. hTask'[id].legacy \/ tasks'[id].disputedAt # 0
      BY <1>1, <1>4, <2>2 DEF Ruled, Collected, Pays, Refunds, Settles, WorkerMove, Kept, GroundsOf
    <3>. QED
      BY <3>1 DEF JudgedByOther
  <2>3. ASSUME \/ Assigned(id) \/ Delivered(id) \/ Failed(id) \/ Challenged(id)
               \/ Withdrawn(c, id) \/ TimedOut(c, id)
        PROVE  JudgedByOther(id)'
    BY <2>3 DEF Assigned, Delivered, Failed, Challenged, Withdrawn, TimedOut, Refunds, JudgedByOther
  <2>. QED
    BY <1>4, <2>1, <2>2, <2>3 DEF WorkerMove
<1>5. ASSUME NEW c \in Address, OpenMove(c, id) PROVE JudgedByOther(id)'
  BY <1>5 DEF OpenMove, Entered, Picked, Voided, ClosedBy, JudgedByOther
<1>. QED
  BY <1>2, <1>3, <1>4, <1>5, StepEffect

LEMMA StepSubmittedWork ==
  ASSUME TypeOK, PauseInv, NoPhantomTask, Grounds, OpenLifecycle, SubmittedOpenWorkKept, [Next]_vars
  PROVE  SubmittedOpenWorkKept'
<1>. SUFFICES ASSUME NEW id \in TaskId PROVE SubmittedWorkKept(id)'
  BY DEF SubmittedOpenWorkKept
<1>1. SubmittedWorkKept(id) /\ OpenOutcome(id) /\ submissionCount[id] \in Nat
  BY DEF SubmittedOpenWorkKept, OpenLifecycle, TypeOK
<1>2. CASE New(id)
  BY <1>2 DEF New, SubmittedWorkKept
<1>3. CASE Still(id)
  BY <1>1, <1>3 DEF Still, OpenKept, SubmittedWorkKept
<1>4. ASSUME NEW c \in Address, WorkerMove(c, id) PROVE SubmittedWorkKept(id)'
  <2>1. CASE ~openTasks[id].open
    BY <1>4, <2>1 DEF WorkerMove, OpenKept, SubmittedWorkKept
  <2>2. CASE openTasks[id].open
    <3>1. Withdrawn(c, id)
      BY <1>1, <1>4, <2>2 DEF WorkerMove, OpenOutcome, Assigned, Delivered, Failed, Challenged,
         PaidByVerdict, TimedOut, Ruled, Collected
    <3>. QED
      BY <1>4, <3>1 DEF Withdrawn, WorkerMove, OpenKept, SubmittedWorkKept
  <2>. QED
    BY <2>1, <2>2
<1>5. ASSUME NEW c \in Address, OpenMove(c, id) PROVE SubmittedWorkKept(id)'
  <2>1. CASE Entered(c, id)
    BY <2>1 DEF Entered, SubmittedWorkKept
  <2>2. ASSUME NEW winner, NEW judge, Picked(c, id, winner, judge) PROVE SubmittedWorkKept(id)'
    BY <2>2 DEF Picked, Pays, SubmittedWorkKept
  <2>3. ASSUME NEW judge, Voided(c, id, judge) PROVE SubmittedWorkKept(id)'
    BY <1>1, <2>3 DEF Voided, ClosedBy, SubmittedWorkKept
  <2>. QED
    BY <1>5, <2>1, <2>2, <2>3 DEF OpenMove
<1>. QED
  BY <1>2, <1>3, <1>4, <1>5, StepEffect

LEMMA StepRating ==
  ASSUME TypeOK, PauseInv, NoPhantomTask, Grounds, OpenLifecycle, RatingImpartial, [Next]_vars
  PROVE  RatingImpartial'
<1>. SUFFICES ASSUME NEW id \in TaskId PROVE RatingEarned(id)'
  BY DEF RatingImpartial
<1>1. /\ RatingEarned(id) /\ OpenOutcome(id) /\ GroundsOf(id)
      /\ hPayout[id].fee \in Nat /\ PlatformFee(tasks[id].amount) \in Nat
  <2>1. tasks[id].amount \in Nat /\ feeBps \in 0..MAX_FEE_BPS
    BY DEF TypeOK, Task
  <2>2. PlatformFee(tasks[id].amount) \in 0..tasks[id].amount
    BY <2>1, FeeBound
  <2>. QED
    BY <2>1, <2>2 DEF RatingImpartial, OpenLifecycle, Grounds, TypeOK, Payout
<1>2. tasks[id].status # "Completed" => rating[id] = 0
  BY <1>1 DEF RatingEarned
<1>3. CASE New(id)
  BY <1>2, <1>3, NewHasNoPast DEF New, Unpaid, RatingEarned
<1>4. CASE Still(id)
  BY <1>1, <1>4 DEF Still, OpenKept, Unpaid, RatingEarned
<1>5. ASSUME NEW c \in Address, WorkerMove(c, id) PROVE RatingEarned(id)'
  <2>1. ASSUME Assigned(id) \/ Delivered(id) \/ Failed(id) \/ Challenged(id)
        PROVE  RatingEarned(id)'
    BY <1>2, <2>1 DEF Assigned, Delivered, Failed, Challenged, Unpaid, RatingEarned
  <2>2. ASSUME Withdrawn(c, id) \/ TimedOut(c, id) PROVE RatingEarned(id)'
    BY <1>2, <2>2 DEF Withdrawn, TimedOut, Refunds, RatingEarned
  <2>3. CASE PaidByVerdict(c, id)
    <3>1. PassScore(id) \in {0, 5}
          /\ (PassScore(id) = 5 => PlatformFee(tasks[id].amount) > 0 /\ taskVerifier[id] = NoAddr)
      BY DEF PassScore, EarnsRating
    <3>2. /\ rating[id] = 0 /\ ~openTasks[id].open /\ ~unjudgedEscalation[id]
          /\ Pays(c, id, PassScore(id))
      BY <1>1, <1>2, <2>3 DEF PaidByVerdict, OpenOutcome, GroundsOf
    <3>3. Kept(id) /\ OpenKept(id)
      BY <1>5 DEF WorkerMove
    <3>. QED
      BY <1>1, <3>1, <3>2, <3>3 DEF Pays, Settles, Kept, OpenKept, RatingEarned
  <2>4. CASE Ruled(c, id)
    <3>1. rating[id] = 0 /\ (hTask'[id].legacy \/ tasks'[id].disputedAt # 0)
      BY <1>1, <1>2, <1>5, <2>4
         DEF Ruled, Pays, Refunds, Settles, WorkerMove, Kept, GroundsOf
    <3>. QED
      BY <2>4, <3>1 DEF Ruled, Pays, Refunds, RatingEarned
  <2>5. CASE Collected(c, id)
    BY <1>2, <2>5 DEF Collected, Pays, RatingEarned
  <2>. QED
    BY <1>5, <2>1, <2>2, <2>3, <2>4, <2>5 DEF WorkerMove
<1>6. ASSUME NEW c \in Address, OpenMove(c, id) PROVE RatingEarned(id)'
  <2>1. CASE Entered(c, id)
    BY <1>2, <2>1 DEF Entered, Unpaid, RatingEarned
  <2>2. ASSUME NEW winner, NEW judge, Picked(c, id, winner, judge) PROVE RatingEarned(id)'
    <3>1. rating[id] = 0 /\ ~unjudgedEscalation'[id]
      BY <1>1, <1>2, <1>6, <2>2 DEF Picked, ClosedBy, OpenMove, GroundsOf
    <3>. QED
      BY <1>1, <2>2, <3>1 DEF Picked, ClosedBy, Pays, RatingEarned
  <2>3. ASSUME NEW judge, Voided(c, id, judge) PROVE RatingEarned(id)'
    BY <1>2, <2>3 DEF Voided, ClosedBy, Refunds, RatingEarned
  <2>. QED
    BY <1>6, <2>1, <2>2, <2>3 DEF OpenMove
<1>. QED
  BY <1>3, <1>4, <1>5, <1>6, StepEffect

\* The phases of an open task, in unpaused time from its deadline.
LEMMA PhaseTimes ==
  ASSUME TypeOK, PauseInv, NoPhantomTask, Grounds, NEW id \in TaskId,
         openTasks[id].open, tasks[id].status = "Funded",
         NEW waited, waited = activeTime - hTask[id].created - Duration0(id),
         NEW o, o = openTasks[id],
         NEW verifierEnd, verifierEnd = o.creatorWindow + VERIFIER_PICK_WINDOW
  PROVE  /\ OpenPhase(id) = "CreatorPick" => waited \in 0..(o.creatorWindow - 1)
         /\ OpenPhase(id) = "VerifierPick" => waited \in o.creatorWindow..(verifierEnd - 1)
         /\ OpenPhase(id) = "BackupPick" =>
              waited \in verifierEnd..(verifierEnd + BACKUP_PICK_WINDOW - 1)
         /\ OpenPhase(id) = "AdminResolve" => waited >= verifierEnd + BACKUP_PICK_WINDOW
         /\ OpenPhase(id) # "Submissions" => waited >= 0
<1>. DEFINE picks == EffectiveDeadline(id)
<1>1. /\ now \in Nat /\ activeTime \in Nat /\ hTask[id].created \in Nat
      /\ tasks[id].createdAt \in Nat /\ tasks[id].deadline \in Nat
      /\ o.creatorWindow \in Nat
      /\ VERIFIER_PICK_WINDOW \in Nat /\ BACKUP_PICK_WINDOW \in Nat
  BY NumberAssumption DEF TypeOK, Task, TaskHistory, OpenTask
<1>2. ~hTask[id].legacy
  BY DEF Grounds, GroundsOf
<1>3. waited = now - picks /\ picks \in Int
  BY <1>1, <1>2, UnpausedTime DEF EffectiveDeadline, Duration0
<1>4. OpenPhase(id) = IF now < picks THEN "Submissions"
                      ELSE IF now < picks + o.creatorWindow THEN "CreatorPick"
                      ELSE IF now < picks + o.creatorWindow + VERIFIER_PICK_WINDOW
                           THEN "VerifierPick"
                      ELSE IF now < picks + o.creatorWindow + VERIFIER_PICK_WINDOW
                                    + BACKUP_PICK_WINDOW THEN "BackupPick"
                      ELSE "AdminResolve"
  BY DEF OpenPhase
<1>. HIDE DEF picks
<1>. QED
  BY <1>1, <1>3, <1>4

LEMMA StepTurns ==
  ASSUME TypeOK, PauseInv, NoPhantomTask, Grounds, JudgeTurns, [Next]_vars
  PROVE  JudgeTurns'
<1>. SUFFICES ASSUME NEW id \in TaskId PROVE ClosedInTurn(id)'
  BY DEF JudgeTurns
<1>1. ClosedInTurn(id) /\ GroundsOf(id)
  BY DEF JudgeTurns, Grounds
<1>2. CASE New(id)
  BY <1>2 DEF New, ClosedInTurn
<1>3. CASE Still(id)
  <2>1. /\ openTasks'[id] = openTasks[id] /\ submissionCount'[id] = submissionCount[id]
        /\ tasks'[id].status = tasks[id].status
        /\ hTask'[id].settled - hTask'[id].created - Duration0(id)'
             = hTask[id].settled - hTask[id].created - Duration0(id)
    BY <1>3 DEF Still, OpenKept, Duration0
  <2>. QED
    BY <1>1, <2>1 DEF ClosedInTurn
<1>4. ASSUME NEW c \in Address, WorkerMove(c, id) \/ Entered(c, id) PROVE ClosedInTurn(id)'
  <2>1. tasks[id].status \notin {"Completed", "Cancelled"} /\ openTasks'[id] = openTasks[id]
    BY <1>4 DEF WorkerMove, OpenKept, Assigned, Delivered, Failed, Challenged, PaidByVerdict,
       Withdrawn, TimedOut, Ruled, Collected, Entered
  <2>. QED
    BY <1>1, <2>1 DEF GroundsOf, ClosedInTurn
<1>5. ASSUME NEW c \in Address, NEW judge \in Judge \ {"None"}, Kept(id), ClosedBy(id, judge),
             Settles(c, id),
             \/ HasTurn(id, judge) /\ (judge = "Creator" => tasks'[id].status = "Completed")
             \/ /\ judge = "Creator" /\ tasks'[id].status = "Cancelled"
                /\ submissionCount[id] = 0
                /\ OpenPhase(id) \notin {"NotOpen", "Submissions", "Closed"}
      PROVE  ClosedInTurn(id)'
  <2>. DEFINE o == openTasks[id]
              waited == activeTime - hTask[id].created - Duration0(id)
              verifierEnd == o.creatorWindow + VERIFIER_PICK_WINDOW
  <2>1. /\ openTasks'[id].closedBy = judge
        /\ openTasks'[id].creatorWindow = o.creatorWindow
        /\ submissionCount'[id] = submissionCount[id]
        /\ hTask'[id].settled - hTask'[id].created - Duration0(id)' = waited
    BY <1>5 DEF ClosedBy, Settles, Kept, Duration0
  <2>2. /\ OpenPhase(id) = "CreatorPick" => waited \in 0..(o.creatorWindow - 1)
        /\ OpenPhase(id) = "VerifierPick" => waited \in o.creatorWindow..(verifierEnd - 1)
        /\ OpenPhase(id) = "BackupPick" =>
             waited \in verifierEnd..(verifierEnd + BACKUP_PICK_WINDOW - 1)
        /\ OpenPhase(id) = "AdminResolve" => waited >= verifierEnd + BACKUP_PICK_WINDOW
        /\ OpenPhase(id) # "Submissions" => waited >= 0
    BY <1>5, PhaseTimes DEF ClosedBy
  <2>. HIDE DEF waited
  <2>. QED
    BY <1>5, <2>1, <2>2 DEF HasTurn, Judge, ClosedInTurn
<1>6. ASSUME NEW c \in Address, OpenMove(c, id) PROVE ClosedInTurn(id)'
  BY <1>4, <1>5, <1>6 DEF OpenMove, Picked, Voided, Pays, Refunds, HasTurn
<1>. QED
  BY <1>2, <1>3, <1>4, <1>6, StepEffect

-----------------------------------------------------------------------------
(* Every behaviour *)

Conduct ==
  /\ Grounds /\ OpenLifecycle /\ VerdictIndependent /\ SubmittedOpenWorkKept
  /\ RatingImpartial /\ JudgeTurns

\* Every task of an initial state is unsettled, and one found past its delivery
\* is marked as found.
LEMMA InitFound ==
  ASSUME Init, NEW id \in TaskId
  PROVE  /\ tasks[id].status \notin {"Completed", "Cancelled"}
         /\ tasks[id].status \in {"Verified", "Disputed"} => hTask[id].legacy
         /\ tasks[id].status = "Submitted" => ~hTask[id].judged
<1>1. CASE Initialized
  BY <1>1 DEF Initialized, ZeroTask
<1>2. CASE Upgraded
  <2>1. PICK agent \in Posters, worker \in Workers, token \in Token, amount \in Amount \ {0},
             hash \in Hash, duration \in Duration \cap MIN_DEADLINE..MAX_DEADLINE,
             status \in LegacyStatus :
           UpgradedWith(LegacyTask(agent, worker, token, amount, hash, duration, status))
    BY <1>2 DEF Upgraded
  <2>. DEFINE t == LegacyTask(agent, worker, token, amount, hash, duration, status)
  <2>2. t.status = status /\ status \notin {"Completed", "Cancelled"}
    BY AddressAssumption DEF LegacyTask
  <2>. HIDE DEF t
  <2>3. /\ tasks[id] = IF id = 1 THEN t ELSE ZeroTask
        /\ hTask[id] = IF id = 1 THEN [NoHistory EXCEPT !.created = 1, !.legacy = TRUE,
                                                         !.judged = t.status = "Verified"]
                       ELSE NoHistory
    BY <2>1 DEF UpgradedWith, t
  <2>4. CASE id = 1
    <3>1. hTask[id].legacy /\ (hTask[id].judged <=> t.status = "Verified")
      BY <2>3, <2>4 DEF NoHistory
    <3>. QED
      BY <2>2, <2>3, <2>4, <3>1
  <2>5. CASE id # 1
    BY <2>3, <2>5 DEF ZeroTask
  <2>. QED
    BY <2>4, <2>5
<1>. QED
  BY <1>1, <1>2 DEF Init

LEMMA InitConduct == Init => Conduct
<1>. SUFFICES ASSUME Init PROVE Conduct
  OBVIOUS
<1>1. /\ unjudgedEscalation = [id \in TaskId |-> FALSE]
      /\ openTasks = [id \in TaskId |-> ClosedToOpen]
      /\ submissionCount = [id \in TaskId |-> 0]
      /\ submissionOf = [id \in TaskId |-> [a \in Address |-> NoHash]]
      /\ rating = [id \in TaskId |-> 0]
  BY DEF Init, Initialized, Upgraded, InitCommon
<1>3. Grounds
  BY <1>1, InitFound DEF Grounds, GroundsOf, ClosedToOpen
<1>4. OpenLifecycle /\ SubmittedOpenWorkKept /\ JudgeTurns
  BY <1>1 DEF OpenLifecycle, OpenOutcome, SubmittedOpenWorkKept, SubmittedWorkKept,
     JudgeTurns, ClosedInTurn, ClosedToOpen
<1>5. VerdictIndependent /\ RatingImpartial
  BY <1>1, InitFound DEF VerdictIndependent, JudgedByOther, RatingImpartial, RatingEarned
<1>. QED
  BY <1>3, <1>4, <1>5 DEF Conduct

LEMMA StepConduct == TypeOK /\ PauseInv /\ NoPhantomTask /\ Conduct /\ [Next]_vars => Conduct'
  BY StepGrounds, StepOpenOutcome, StepVerdict, StepSubmittedWork, StepRating, StepTurns
     DEF Conduct

IInv == TypeOK /\ PauseInv /\ NoPhantomTask /\ PaidOnce /\ Conduct

LEMMA Always == Spec => []IInv
<1>1. Init => IInv
  BY InitType, InitClock, InitPhantoms, InitPaid, InitConduct DEF IInv
<1>2. IInv /\ [Next]_vars => IInv'
  BY StepType, StepClock, StepPhantoms, StepPaid, StepConduct DEF IInv
<1>. QED
  BY <1>1, <1>2, PTL DEF Spec

\* Nobody is judged by the account the verdict pays, and a task's own verifier
\* cannot be overridden: whoever the platform's verifier is or becomes.
THEOREM VerdictIsIndependent == Spec => []VerdictIndependent
<1>1. IInv => VerdictIndependent
  BY DEF IInv, Conduct
<1>. QED
  BY <1>1, Always, PTL

\* An open task stays outside the single-worker lifecycle, and the winner a pick
\* pays is an independent submitter paid for its own evidence.
THEOREM OpenStaysOpen == Spec => []OpenLifecycle
<1>1. IInv => OpenLifecycle
  BY DEF IInv, Conduct
<1>. QED
  BY <1>1, Always, PTL

\* Once anyone has submitted, neither the poster nor its verifier can take an
\* open task's payment back.
THEOREM SubmittedWorkIsKept == Spec => []SubmittedOpenWorkKept
<1>1. IInv => SubmittedOpenWorkKept
  BY DEF IInv, Conduct
<1>. QED
  BY <1>1, Always, PTL

\* A judge closes an open task in its own turn alone, to the second, whatever
\* pauses fall before, inside or between the turns.
THEOREM TurnsAreKept == Spec => []JudgeTurns
<1>1. IInv => JudgeTurns
  BY DEF IInv, Conduct
<1>. QED
  BY <1>1, Always, PTL

\* No sequence of calls earns a full rating for free or from a judge the poster
\* chose, whatever the fee and the rated minimum are set to on the way.
THEOREM RatingIsImpartial == Spec => []RatingImpartial
<1>1. IInv => RatingImpartial
  BY DEF IInv, Conduct
<1>. QED
  BY <1>1, Always, PTL

-----------------------------------------------------------------------------
(* Steps: what a settlement may not do *)

\* A window that has elapsed on the chain's clock, pauses added, has elapsed in
\* the task's unpaused time.
LEMMA UnpausedWindow ==
  ASSUME TypeOK, PauseInv, NoPhantomTask, NEW id \in TaskId, ~hTask[id].legacy,
         tasks[id].status # "Funded", NEW start \in Nat, NEW hStart \in Nat, NEW window \in Nat,
         hStart - hTask[id].created <= start - tasks[id].createdAt,
         now >= start + window + PauseExtension(id)
  PROVE  activeTime - hStart >= window
<1>1. /\ now \in Nat /\ activeTime \in Nat /\ hTask[id].created \in Nat
      /\ tasks[id].createdAt \in Nat
  BY DEF TypeOK, Task, TaskHistory
<1>. QED
  BY <1>1, UnpausedTime

\* In a call that settles a dispute or failed work by the clock, the worker or
\* the poster has waited the window out.
LEMMA WindowsWaited ==
  ASSUME TypeOK, PauseInv, NoPhantomTask, Grounds, NEW id \in TaskId, ~hTask[id].legacy
  PROVE  /\ tasks[id].status = "Disputed" /\ DisputeWindowElapsed(id) =>
              activeTime - hTask[id].disputed >= DISPUTE_WINDOW
         /\ tasks[id].status = "Verified" /\ AppealWindowElapsed(id) =>
              activeTime - hTask[id].failed >= APPEAL_WINDOW
<1>1. GroundsOf(id)
  BY DEF Grounds
<1>2. /\ tasks[id].disputedAt \in Nat /\ failedVerdictAt[id] \in Nat
      /\ hTask[id].disputed \in Nat /\ hTask[id].failed \in Nat
      /\ DISPUTE_WINDOW \in Nat /\ APPEAL_WINDOW \in Nat
  BY NumberAssumption DEF TypeOK, Task, TaskHistory
<1>3. CASE tasks[id].status = "Disputed" /\ DisputeWindowElapsed(id)
  BY <1>1, <1>2, <1>3, UnpausedWindow DEF GroundsOf, DisputeWindowElapsed
<1>4. CASE tasks[id].status = "Verified" /\ AppealWindowElapsed(id)
  BY <1>1, <1>2, <1>4, UnpausedWindow DEF GroundsOf, AppealWindowElapsed
<1>. QED
  BY <1>3, <1>4

LEMMA StepRefundWaits ==
  ASSUME IInv, [Next]_vars, NEW id \in TaskId
  PROVE  RefundWaited(id)
<1>. SUFFICES ASSUME tasks[id].status \in {"Assigned", "Submitted", "Verified", "Disputed"},
                     tasks'[id].status = "Cancelled", hTask'[id].settledBy # admin,
                     ~hTask[id].legacy
              PROVE  /\ activeTime - hTask[id].created >= Duration0(id)
                     /\ tasks[id].status # "Submitted"
                     /\ tasks[id].status = "Verified" =>
                          activeTime - hTask[id].failed >= APPEAL_WINDOW
                     /\ tasks[id].status = "Disputed" =>
                          /\ ~unjudgedEscalation[id]
                          /\ activeTime - hTask[id].disputed >= DISPUTE_WINDOW
  BY DEF RefundWaited
<1>. USE DEF IInv, Conduct
<1>1. PICK c \in Address : WorkerMove(c, id)
  BY StepEffect
     DEF New, Still, OpenMove, Entered, Picked, Voided, ClosedBy
<1>2. TimedOut(c, id)
  BY <1>1 DEF WorkerMove, Assigned, Delivered, Failed, Challenged, PaidByVerdict, Withdrawn,
     Ruled, Collected, Pays, Refunds, Settles
<1>3. activeTime - hTask[id].created >= Duration0(id)
  <2>1. /\ activeTime - hTask[id].created = now - PauseExtension(id) - tasks[id].createdAt
        /\ PauseExtension(id) \in Nat
    BY UnpausedTime
  <2>2. now >= tasks[id].deadline + PauseExtension(id)
    BY <1>2 DEF TimedOut, EffectiveDeadline
  <2>3. now \in Nat /\ tasks[id].deadline \in Nat /\ tasks[id].createdAt \in Nat
    BY DEF TypeOK, Task
  <2>. QED
    BY <2>1, <2>2, <2>3 DEF Duration0
<1>. QED
  BY <1>2, <1>3, WindowsWaited DEF TimedOut

LEMMA StepSelfRelease ==
  ASSUME IInv, [Next]_vars, NEW id \in TaskId
  PROVE  SelfRelease(id)
<1>. SUFFICES ASSUME tasks[id].status # "Completed", tasks'[id].status = "Completed",
                     hTask'[id].settledBy = tasks'[id].worker,
                     hTask'[id].settledBy # admin, ~hTask[id].legacy
              PROVE  /\ unjudgedEscalation[id] /\ ~hTask[id].judged
                     /\ activeTime - hTask[id].disputed >= DISPUTE_WINDOW
                     /\ rating'[id] = 0
  BY DEF SelfRelease
<1>. USE DEF IInv, Conduct
<1>1. ASSUME NEW c \in Address, OpenMove(c, id) PROVE FALSE
  BY <1>1 DEF OpenMove, Entered, Picked, Voided, Pays, Refunds, Settles
<1>2. PICK c \in Address : WorkerMove(c, id)
  BY <1>1, StepEffect DEF New, Still
<1>3. Collected(c, id)
  BY <1>2 DEF WorkerMove, Assigned, Delivered, Failed, Challenged, PaidByVerdict, Withdrawn,
     TimedOut, Ruled, Pays, Refunds, Settles
<1>4. rating[id] = 0 /\ ~hTask[id].judged
  BY <1>3 DEF Collected, RatingImpartial, RatingEarned, Grounds, GroundsOf
<1>. QED
  BY <1>3, <1>4, WindowsWaited DEF Collected, Pays

LEMMA StepLegacyRuled ==
  ASSUME IInv, [Next]_vars, NEW id \in TaskId
  PROVE  LegacyRuled(id)
<1>. SUFFICES ASSUME tasks[id].status = "Disputed", tasks[id].disputedAt = 0,
                     tasks'[id] # tasks[id]
              PROVE  hTask'[id].settledBy = admin /\ Settled(id)'
  BY DEF LegacyRuled
<1>. USE DEF IInv, Conduct
<1>1. ~unjudgedEscalation[id]
  BY DEF Grounds, GroundsOf
<1>2. ASSUME New(id) PROVE FALSE
  BY <1>2, NewHasNoPast
<1>3. PICK c \in Address : WorkerMove(c, id)
  BY <1>2, StepEffect
     DEF Still, OpenMove, Entered, Picked, Voided, ClosedBy
<1>4. Ruled(c, id)
  BY <1>1, <1>3 DEF WorkerMove, Assigned, Delivered, Failed, Challenged, PaidByVerdict,
     Withdrawn, TimedOut, Collected
<1>. QED
  BY <1>4 DEF Ruled, Pays, Refunds, Settles, Settled

\* The poster's refund of assigned work has waited, in unpaused time, for the
\* duration and for the window of the failure or dispute it follows.
THEOREM PosterRefundHasWaited == Spec => PosterRefundWaits
<1>1. IInv /\ [Next]_vars => [\A id \in TaskId : RefundWaited(id)]_vars
  BY StepRefundWaits
<1>. QED
  BY <1>1, Always, PTL DEF Spec, PosterRefundWaits

\* A worker's own call pays it only for work escalated unjudged and left
\* unruled for the whole window, and earns no rating.
THEOREM SelfReleaseIsUnjudged == Spec => SelfReleaseOnlyUnjudged
<1>1. IInv /\ [Next]_vars => [\A id \in TaskId : SelfRelease(id)]_vars
  BY StepSelfRelease
<1>. QED
  BY <1>1, Always, PTL DEF Spec, SelfReleaseOnlyUnjudged

\* A dispute found by the upgrade, without a start, waits for the admin.
THEOREM LegacyDisputeIsRuled == Spec => LegacyDisputeNeedsRuling
<1>1. IInv /\ [Next]_vars => [\A id \in TaskId : LegacyRuled(id)]_vars
  BY StepLegacyRuled
<1>. QED
  BY <1>1, Always, PTL DEF Spec, LegacyDisputeNeedsRuling

-----------------------------------------------------------------------------
(* The contract keeps its promise *)

stageNow == [id \in TaskId |-> StageOf(id)]
amountNow == [id \in TaskId |-> tasks[id].amount]

\* What the promise sees of a step that moves one task.
OnlyMoves(id) ==
  /\ stageNow[id] # "none"
  /\ stageNow' = [stageNow EXCEPT ![id] = stageNow'[id]]
  /\ amountNow' = amountNow
  /\ hPayout' = [hPayout EXCEPT ![id] = hPayout'[id]]

LEMMA MoveSeen ==
  ASSUME TypeOK, TypeOK', NoPhantomTask, NEW id \in TaskId, id < nextTaskId,
         Kept(id), \A i \in TaskId \ {id} : Still(i)
  PROVE  /\ tasks[id].agent # NoAddr /\ tasks'[id].agent # NoAddr
         /\ OnlyMoves(id)
<1>1. tasks[id].agent \in Address
  BY DEF NoPhantomTask
<1>2. tasks[id].agent # NoAddr /\ tasks'[id].agent # NoAddr
  BY <1>1, AddressAssumption DEF Kept
<1>3. stageNow[id] # "none"
  BY <1>2 DEF stageNow, StageOf
<1>4. ASSUME NEW i \in TaskId, i # id PROVE stageNow'[i] = stageNow[i]
  BY <1>4 DEF Still, OpenKept, stageNow, StageOf
<1>5. stageNow' = [stageNow EXCEPT ![id] = stageNow'[id]]
  <2>1. DOMAIN stageNow' = TaskId /\ DOMAIN stageNow = TaskId
    BY DEF stageNow
  <2>2. stageNow = [i \in TaskId |-> stageNow[i]] /\ stageNow' = [i \in TaskId |-> stageNow'[i]]
    BY DEF stageNow
  <2>. QED
    BY <1>4, <2>1, <2>2
<1>6. amountNow' = amountNow
  BY DEF amountNow, Still, Kept
<1>7. hPayout' = [hPayout EXCEPT ![id] = hPayout'[id]]
  <2>1. hPayout \in [TaskId -> Payout] /\ hPayout' \in [TaskId -> Payout]
    BY DEF TypeOK
  <2>2. \A i \in TaskId \ {id} : hPayout'[i] = hPayout[i]
    BY DEF Still, Unpaid
  <2>. QED
    BY <2>1, <2>2
<1>. QED
  BY <1>2, <1>3, <1>5, <1>6, <1>7 DEF OnlyMoves

LEMMA Paying ==
  ASSUME TypeOK, PaidOnce', NEW id \in TaskId, OnlyMoves(id), stageNow'[id] = "paid",
         stageNow[id] = "delivered", TypeOK', tasks'[id].status = "Completed"
  PROVE  Promise!Pay(id)
<1>. DEFINE fee == hPayout'[id].fee
<1>1. amountNow' = amountNow /\ tasks[id].amount = tasks'[id].amount
  <2>1. amountNow' = amountNow /\ amountNow[id] = tasks[id].amount
        /\ amountNow'[id] = tasks'[id].amount
    BY DEF OnlyMoves, amountNow
  <2>. QED
    BY <2>1
<1>2. PaidRight(tasks'[id], hPayout'[id])
  BY DEF PaidOnce
<1>3. /\ hPayout'[id].worker + fee = tasks[id].amount
      /\ fee * Bps <= tasks[id].amount * MAX_FEE_BPS /\ hPayout'[id].refund = 0
  BY <1>1, <1>2 DEF PaidRight
<1>4. hPayout'[id] \in Payout /\ tasks[id].amount \in Nat
  BY DEF TypeOK, Task
<1>5. fee \in 0..tasks[id].amount /\ hPayout'[id].worker = tasks[id].amount - fee
  BY <1>3, <1>4 DEF Payout
<1>6. hPayout'[id] = [worker |-> tasks[id].amount - fee, fee |-> fee, refund |-> 0]
  BY <1>3, <1>4, <1>5 DEF Payout
<1>. HIDE DEF fee
<1>. QED
  BY <1>3, <1>5, <1>6 DEF OnlyMoves, stageNow, amountNow, Promise!Pay

LEMMA Refunding ==
  ASSUME TypeOK, PaidOnce', NEW id \in TaskId, OnlyMoves(id), stageNow'[id] = "refunded",
         stageNow[id] \in {"offered", "committed", "delivered"}, tasks'[id].status = "Cancelled"
  PROVE  Promise!Refund(id)
<1>1. tasks[id].amount = tasks'[id].amount
  <2>1. amountNow' = amountNow /\ amountNow[id] = tasks[id].amount
        /\ amountNow'[id] = tasks'[id].amount
    BY DEF OnlyMoves, amountNow
  <2>. QED
    BY <2>1
<1>2. hPayout'[id] = [NoPayout EXCEPT !.refund = tasks[id].amount]
  BY <1>1 DEF PaidOnce, PaidRight
<1>. QED
  BY <1>2 DEF OnlyMoves, stageNow, amountNow, NoPayout, Promise!Refund, Promise!Nothing

PromiseStep == Promise!Next \/ UNCHANGED Promise!promiseVars

LEMMA NothingSeen ==
  ASSUME TypeOK, NEW id \in TaskId, OnlyMoves(id), stageNow'[id] = stageNow[id], hPayout'[id] = hPayout[id]
  PROVE  PromiseStep
<1>1. stageNow' = stageNow
  <2>1. stageNow = [i \in TaskId |-> stageNow[i]] /\ stageNow' = [i \in TaskId |-> stageNow'[i]]
    BY DEF stageNow
  <2>2. \A i \in TaskId : stageNow'[i] = stageNow[i]
    BY <2>1 DEF OnlyMoves
  <2>. QED
    BY <2>1, <2>2
<1>2. amountNow' = amountNow /\ hPayout' = hPayout
  BY DEF OnlyMoves, TypeOK
<1>. QED
  BY <1>1, <1>2 DEF PromiseStep, Promise!promiseVars, stageNow, amountNow

LEMMA WorkerKeepsPromise ==
  ASSUME IInv, IInv', NEW c \in Address, NEW id \in TaskId, id < nextTaskId,
         WorkerMove(c, id), \A i \in TaskId \ {id} : Still(i)
  PROVE  PromiseStep
<1>. USE DEF IInv, Conduct
<1>1. /\ tasks[id].agent # NoAddr /\ tasks'[id].agent # NoAddr
      /\ OnlyMoves(id)
  BY MoveSeen DEF WorkerMove
<1>2. /\ submissionCount[id] \in Nat /\ submissionCount'[id] = submissionCount[id]
      /\ ~openTasks[id].open => submissionCount[id] = 0
  BY DEF TypeOK, WorkerMove, OpenKept, Grounds, GroundsOf
<1>3. CASE Assigned(id)
  <2>1. stageNow[id] = "offered" /\ stageNow'[id] = "committed"
    BY <1>1, <1>2, <1>3 DEF Assigned, stageNow, StageOf
  <2>2. hPayout' = hPayout
    BY <1>1, <1>3 DEF OnlyMoves, Assigned, Unpaid, TypeOK
  <2>3. Promise!Commit(id)
    BY <1>1, <1>2, <2>1, <2>2 DEF OnlyMoves, stageNow, amountNow, Promise!Commit
  <2>. QED
    BY <2>3 DEF PromiseStep, Promise!Next
<1>4. CASE Delivered(id)
  <2>1. stageNow'[id] = "delivered" /\ stageNow[id] \in {"committed", "delivered"}
    BY <1>1, <1>4 DEF Delivered, stageNow, StageOf
  <2>2. hPayout' = hPayout
    BY <1>1, <1>4 DEF OnlyMoves, Delivered, Unpaid, TypeOK
  <2>3. CASE stageNow[id] = "committed"
    <3>1. Promise!Deliver(id)
      BY <1>1, <1>2, <2>1, <2>2, <2>3 DEF OnlyMoves, stageNow, amountNow, Promise!Deliver
    <3>. QED
      BY <3>1 DEF PromiseStep, Promise!Next
  <2>4. CASE stageNow[id] = "delivered"
    BY <1>1, <1>2, <2>1, <2>2, <2>4, NothingSeen
  <2>. QED
    BY <2>1, <2>3, <2>4
<1>5. CASE Failed(id) \/ Challenged(id)
  <2>1. stageNow'[id] = "delivered" /\ stageNow[id] = "delivered" /\ hPayout'[id] = hPayout[id]
    BY <1>1, <1>5 DEF Failed, Challenged, Unpaid, stageNow, StageOf
  <2>. QED
    BY <1>1, <1>2, <2>1, NothingSeen
<1>6. ASSUME tasks'[id].status = "Completed", tasks[id].status \in {"Submitted", "Disputed"}
      PROVE  PromiseStep
  <2>1. stageNow'[id] = "paid" /\ stageNow[id] = "delivered"
    BY <1>1, <1>6 DEF stageNow, StageOf
  <2>2. Promise!Pay(id)
    BY <1>1, <1>2, <1>6, <2>1, Paying
  <2>. QED
    BY <2>2 DEF PromiseStep, Promise!Next
<1>7. ASSUME tasks'[id].status = "Cancelled", tasks[id].status \notin {"Completed", "Cancelled"}
      PROVE  PromiseStep
  <2>1. stageNow'[id] = "refunded" /\ stageNow[id] \in {"offered", "committed", "delivered"}
    BY <1>1, <1>7 DEF stageNow, StageOf
  <2>2. Promise!Refund(id)
    BY <1>1, <1>2, <1>7, <2>1, Refunding
  <2>. QED
    BY <2>2 DEF PromiseStep, Promise!Next
<1>. QED
  BY <1>3, <1>4, <1>5, <1>6, <1>7
     DEF WorkerMove, PaidByVerdict, Withdrawn, TimedOut, Ruled, Collected, Pays, Refunds

LEMMA OpenKeepsPromise ==
  ASSUME IInv, IInv', NEW c \in Address, NEW id \in TaskId, id < nextTaskId,
         OpenMove(c, id), \A i \in TaskId \ {id} : Still(i)
  PROVE  PromiseStep
<1>. USE DEF IInv, Conduct
<1>1. /\ tasks[id].agent # NoAddr /\ tasks'[id].agent # NoAddr
      /\ OnlyMoves(id)
  BY MoveSeen DEF OpenMove
<1>2. /\ submissionCount[id] \in Nat
      /\ tasks[id].status = "Funded"
      /\ stageNow[id] = IF submissionCount[id] > 0 THEN "delivered" ELSE "offered"
  <2>1. tasks[id].status = "Funded"
    BY DEF OpenMove, Entered, Picked, Voided, ClosedBy
  <2>. QED
    BY <1>1, <2>1 DEF TypeOK, stageNow, StageOf
<1>3. CASE Entered(c, id)
  <2>1. stageNow'[id] = "delivered" /\ hPayout'[id] = hPayout[id]
    BY <1>1, <1>2, <1>3 DEF Entered, Unpaid, stageNow, StageOf
  <2>2. CASE stageNow[id] = "delivered"
    BY <1>1, <1>2, <2>1, <2>2, NothingSeen
  <2>3. CASE stageNow[id] = "offered"
    <3>1. hPayout' = hPayout
      BY <1>1, <2>1 DEF OnlyMoves, TypeOK
    <3>2. Promise!Deliver(id)
      BY <1>1, <1>2, <2>1, <2>3, <3>1 DEF OnlyMoves, stageNow, amountNow, Promise!Deliver
    <3>. QED
      BY <3>2 DEF PromiseStep, Promise!Next
  <2>. QED
    BY <1>2, <2>2, <2>3
<1>4. ASSUME NEW winner \in Address, NEW judge, Picked(c, id, winner, judge) PROVE PromiseStep
  <2>1. submissionCount[id] > 0
    BY <1>4 DEF Picked, Grounds, GroundsOf
  <2>2. tasks'[id].status = "Completed" /\ stageNow'[id] = "paid" /\ stageNow[id] = "delivered"
    BY <1>1, <1>2, <1>4, <2>1 DEF Picked, Pays, stageNow, StageOf
  <2>3. Promise!Pay(id)
    BY <1>1, <1>2, <2>2, Paying
  <2>. QED
    BY <2>3 DEF PromiseStep, Promise!Next
<1>5. ASSUME NEW judge, Voided(c, id, judge) PROVE PromiseStep
  <2>1. tasks'[id].status = "Cancelled" /\ stageNow'[id] = "refunded"
    BY <1>1, <1>5 DEF Voided, Refunds, stageNow, StageOf
  <2>2. Promise!Refund(id)
    BY <1>1, <1>2, <2>1, Refunding
  <2>. QED
    BY <2>2 DEF PromiseStep, Promise!Next
<1>. QED
  BY <1>3, <1>4, <1>5 DEF OpenMove

LEMMA CreationKeepsPromise ==
  ASSUME IInv, IInv', \A i \in TaskId : New(i) \/ Still(i)
  PROVE  PromiseStep
<1>. DEFINE ids == {i \in TaskId : New(i)}
<1>. USE DEF IInv, Conduct
<1>1. hPayout' = hPayout
  <2>1. \A i \in TaskId : hPayout'[i] = hPayout[i]
    BY DEF New, Still, Unpaid
  <2>. QED
    BY <2>1 DEF TypeOK
<1>2. ASSUME NEW i \in TaskId, New(i)
      PROVE  stageNow[i] = "none" /\ stageNow'[i] = "offered" /\ amountNow'[i] > 0
  <2>1. tasks[i].agent = NoAddr
    BY <1>2 DEF New, NoPhantomTask, ZeroTask
  <2>2. tasks'[i].agent # NoAddr /\ tasks'[i].status = "Funded" /\ submissionCount'[i] = 0
        /\ tasks'[i].amount > 0
    BY <1>2, NewHasNoPast DEF New
  <2>. QED
    BY <2>1, <2>2 DEF stageNow, amountNow, StageOf
<1>3. ASSUME NEW i \in TaskId, Still(i)
      PROVE  stageNow'[i] = stageNow[i] /\ amountNow'[i] = amountNow[i]
  BY <1>3 DEF Still, OpenKept, stageNow, amountNow, StageOf
<1>4. stageNow' = [i \in TaskId |-> IF i \in ids THEN "offered" ELSE stageNow[i]]
  BY <1>2, <1>3 DEF stageNow
<1>5. amountNow' \in [TaskId -> Nat]
  BY DEF amountNow, TypeOK, Task
<1>6. \A i \in TaskId : IF i \in ids THEN amountNow'[i] > 0 ELSE amountNow'[i] = amountNow[i]
  BY <1>2, <1>3
<1>7. CASE ids = {}
  <2>1. stageNow' = stageNow /\ amountNow' = amountNow
    BY <1>3, <1>7 DEF stageNow, amountNow
  <2>. QED
    BY <1>1, <2>1 DEF PromiseStep, Promise!promiseVars, stageNow, amountNow
<1>8. CASE ids # {}
  <2>1. PICK S \in SUBSET TaskId : S = ids
    OBVIOUS
  <2>2. /\ S # {} /\ \A i \in S : stageNow[i] = "none"
        /\ stageNow' = [i \in TaskId |-> IF i \in S THEN "offered" ELSE stageNow[i]]
        /\ \A i \in TaskId : IF i \in S THEN amountNow'[i] > 0 ELSE amountNow'[i] = amountNow[i]
    BY <1>2, <1>4, <1>6, <1>8, <2>1
  <2>3. Promise!Offer(S)
    BY <1>1, <1>5, <2>2 DEF stageNow, amountNow, Promise!Offer
  <2>. QED
    BY <2>3 DEF PromiseStep, Promise!Next
<1>. QED
  BY <1>7, <1>8

LEMMA InitPromise == Init => Promise!Init
<1>. SUFFICES ASSUME Init PROVE Promise!Init
  OBVIOUS
<1>1. TypeOK /\ NoPhantomTask
  BY InitType, InitPhantoms
<1>2. hPayout = [id \in TaskId |-> NoPayout]
  BY DEF Init, Initialized, Upgraded, InitCommon
<1>4. ASSUME NEW id \in TaskId
      PROVE  /\ stageNow[id] \in Promise!Stage \ {"paid", "refunded"}
             /\ amountNow[id] \in Nat
             /\ amountNow[id] = 0 <=> stageNow[id] = "none"
  <2>1. id >= nextTaskId => tasks[id] = ZeroTask
    BY <1>1 DEF NoPhantomTask
  <2>2. id < nextTaskId => tasks[id].agent # NoAddr /\ tasks[id].amount > 0
    BY <1>1, AddressAssumption DEF NoPhantomTask
  <2>3. tasks[id].amount \in Nat /\ nextTaskId \in Int /\ id \in Int
    BY <1>1, NumberAssumption DEF TypeOK, Task, TaskId
  <2>4. tasks[id].amount = 0 <=> tasks[id].agent = NoAddr
    BY <2>1, <2>2, <2>3 DEF ZeroTask
  <2>5. StageOf(id) = "none" <=> tasks[id].agent = NoAddr
    BY DEF StageOf
  <2>6. StageOf(id) \in {"none", "offered", "committed", "delivered"}
    BY InitFound DEF StageOf
  <2>. QED
    BY <2>3, <2>4, <2>5, <2>6 DEF stageNow, amountNow, Promise!Stage
<1>. QED
  BY <1>2, <1>4 DEF Promise!Init, Promise!Nothing, NoPayout, stageNow, amountNow

\* The contract implements TaskPromise: whatever happens around it, a payment is
\* offered, perhaps committed, delivered, and ends once, paid for delivered work
\* or refunded in full.
THEOREM PromiseIsKept == Spec => KeepsPromise
<1>1. IInv /\ IInv' /\ [Next]_vars => [Promise!Next]_(Promise!promiseVars)
  <2>. SUFFICES ASSUME IInv, IInv', [Next]_vars PROVE PromiseStep
    BY DEF PromiseStep
  <2>. QED
    BY StepMoves, WorkerKeepsPromise, OpenKeepsPromise, CreationKeepsPromise DEF IInv
<1>. QED
  BY <1>1, InitPromise, Always, PTL DEF Spec, KeepsPromise, Promise!Spec

=============================================================================
