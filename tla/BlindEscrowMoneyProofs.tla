----------------------- MODULE BlindEscrowMoneyProofs -----------------------
(***************************************************************************)
(* The payment of a task: an id nobody created is out of every caller's    *)
(* reach (NoPhantomTask), a payment leaves the escrow once and whole       *)
(* (PaidOnce), and the escrow holds what its unsettled tasks record        *)
(* (Solvent), for any number of tasks, accounts, fees and amounts.         *)
(***************************************************************************)
EXTENDS BlindEscrowProofs, WellFoundedInduction

Untouched(id) ==
  /\ tasks'[id] = tasks[id] /\ openTasks'[id] = openTasks[id]
  /\ submissionCount'[id] = submissionCount[id] /\ listing'[id] = listing[id]
  /\ hPayout'[id] = hPayout[id] /\ disputeRecords'[id] = disputeRecords[id]

-----------------------------------------------------------------------------
(* A call names a task that exists, and touches no other *)

LEMMA OpenCallNeedsFunded ==
  ASSUME NEW c, NEW id \in TaskId, OpenSubmissionCall(c, id)
  PROVE  openTasks[id].open /\ tasks[id].status = "Funded"
<1>1. OpenPhase(id) \notin {"NotOpen", "Closed"} =>
        openTasks[id].open /\ tasks[id].status = "Funded"
  BY DEF OpenPhase
<1>2. CASE \E hash \in Hash : SubmitOpen(c, id, hash)
  BY <1>2 DEF SubmitOpen
<1>3. CASE \E winner \in Account : \/ SelectWinner(c, id, winner)
                                   \/ SelectWinnerByVerifier(c, id, winner)
                                   \/ SelectWinnerByBackup(c, id, winner)
                                   \/ ResolveOpenTask(c, id, winner)
  BY <1>1, <1>3 DEF SelectWinner, SelectWinnerByVerifier, SelectWinnerByBackup, ResolveOpenTask
<1>4. CASE VoidOpenTask(c, id)
  BY <1>1, <1>4 DEF VoidOpenTask
<1>. QED
  BY <1>2, <1>3, <1>4 DEF OpenSubmissionCall, Account

LEMMA CallNeedsTask ==
  ASSUME TypeOK, PauseInv, NoPhantomTask, NEW c \in Address, NEW id \in TaskId,
         WorkerLifecycleCall(c, id) \/ OpenSubmissionCall(c, id)
  PROVE  id < nextTaskId
<1>. SUFFICES ASSUME id >= nextTaskId PROVE FALSE
  BY DEF TypeOK, TaskId
<1>1. tasks[id] = ZeroTask /\ openTasks[id] = ClosedToOpen
  BY DEF NoPhantomTask
<1>2. /\ tasks[id].agent = NoAddr /\ tasks[id].worker = NoAddr
      /\ tasks[id].status = "Funded" /\ tasks[id].deadline = 0
      /\ ~openTasks[id].open
  BY <1>1 DEF ZeroTask, ClosedToOpen
<1>3. ~OpenSubmissionCall(c, id)
  BY <1>2, OpenCallNeedsFunded
<1>4. c # NoAddr
  BY AddressAssumption
<1>5. EffectiveDeadline(id) <= now
  <2>1. /\ now \in Nat /\ PausedSeconds < now /\ PausedSeconds \in Int
        /\ pausedTotalAtCreate[id] \in Nat
    BY DEF TypeOK, PauseInv, PauseAccounting, PausedSeconds
  <2>. QED
    BY <1>2, <2>1 DEF EffectiveDeadline, PauseExtension
<1>6. \A worker : ~Assign(id, worker)
  <2>1. now \in Nat /\ EffectiveDeadline(id) \in Int
    BY <1>2 DEF TypeOK, EffectiveDeadline, PauseExtension, PausedSeconds
  <2>. QED
    BY <1>5, <2>1 DEF Assign
<1>. QED
  BY <1>2, <1>3, <1>4, <1>6
     DEF WorkerLifecycleCall, AssignWorker, MarketplaceAssign, SubmitEvidence,
         CompleteVerification, CompleteVerificationWithTEE, CancelTask, ClaimTimeout,
         EscalateUnjudged, RefundTimeout, RaiseDispute, ResolveDispute, ReleaseUnjudgedWork

LEMMA WorkerCallTouches ==
  ASSUME TypeOK, NEW c \in Address, NEW id \in TaskId, WorkerLifecycleCall(c, id)
  PROVE  \A i \in TaskId \ {id} : Untouched(i)
<1>. SUFFICES ASSUME NEW i \in TaskId, i # id PROVE Untouched(i)
  OBVIOUS
<1>. USE DEF openVars, moneyVars, registryVars, reputationVars
<1>1. ASSUME NEW t, NEW score, PayWorker(c, id, t, score)
      PROVE  /\ tasks'[i] = tasks[i] /\ hPayout'[i] = hPayout[i]
             /\ disputeRecords' = disputeRecords
  BY <1>1 DEF PayWorker, Rate, TypeOK
<1>2. Refund(c, id) => tasks'[i] = tasks[i] /\ hPayout'[i] = hPayout[i]
  BY DEF Refund, TypeOK
<1>3. CloseListing(id) => listing'[i] = listing[i]
  BY DEF CloseListing, TypeOK
<1>4. RecordDispute(id) => disputeRecords'[i] = disputeRecords[i]
  BY DEF RecordDispute, TypeOK
<1>5. ASSUME NEW worker, Assign(id, worker) PROVE Untouched(i)
  BY <1>3, <1>5 DEF Assign, Untouched, TypeOK
<1>6. ASSUME NEW hash, SubmitEvidence(c, id, hash) PROVE Untouched(i)
  BY <1>6 DEF SubmitEvidence, Untouched, TypeOK
<1>7. ASSUME NEW passed \in BOOLEAN, CompleteVerification(c, id, passed) PROVE Untouched(i)
  <2>1. CASE passed
    BY <1>1, <1>7, <2>1 DEF CompleteVerification, Untouched
  <2>2. CASE ~passed
    BY <1>4, <1>7, <2>2 DEF CompleteVerification, Untouched, TypeOK
  <2>. QED
    BY <2>1, <2>2
<1>8. CASE CancelTask(c, id)
  BY <1>2, <1>3, <1>8 DEF CancelTask, Untouched
<1>9. CASE EscalateUnjudged(c, id) \/ RaiseDispute(c, id)
  BY <1>9 DEF EscalateUnjudged, RaiseDispute, Untouched, TypeOK
<1>10. CASE RefundTimeout(c, id)
  BY <1>2, <1>10 DEF RefundTimeout, Untouched
<1>11. ASSUME NEW workerFavored \in BOOLEAN, ResolveDispute(c, id, workerFavored)
       PROVE  Untouched(i)
  BY <1>1, <1>2, <1>4, <1>11 DEF ResolveDispute, Untouched
<1>12. CASE ReleaseUnjudgedWork(c, id)
  BY <1>1, <1>12 DEF ReleaseUnjudgedWork, Untouched
<1>. QED
  BY <1>5, <1>6, <1>7, <1>8, <1>9, <1>10, <1>11, <1>12
     DEF WorkerLifecycleCall, AssignWorker, MarketplaceAssign,
         CompleteVerificationWithTEE, ClaimTimeout

LEMMA OpenCallTouches ==
  ASSUME TypeOK, NEW c \in Address, NEW id \in TaskId, OpenSubmissionCall(c, id)
  PROVE  \A i \in TaskId \ {id} : Untouched(i)
<1>. SUFFICES ASSUME NEW i \in TaskId, i # id PROVE Untouched(i)
  OBVIOUS
<1>. USE DEF openVars, moneyVars, registryVars, reputationVars
<1>1. CloseListing(id) => listing'[i] = listing[i]
  BY DEF CloseListing, TypeOK
<1>2. ASSUME NEW hash, SubmitOpen(c, id, hash) PROVE Untouched(i)
  BY <1>2 DEF SubmitOpen, Untouched, TypeOK
<1>3. ASSUME NEW winner \in Address, NEW judge, PickWinner(c, id, winner, judge)
      PROVE  Untouched(i)
  <2>1. PICK t, score : PayWorker(c, id, t, score)
    BY <1>3 DEF PickWinner
  <2>2. /\ tasks'[i] = tasks[i] /\ hPayout'[i] = hPayout[i]
        /\ disputeRecords' = disputeRecords
    BY <2>1 DEF PayWorker, Rate, TypeOK
  <2>3. openTasks'[i] = openTasks[i] /\ UNCHANGED submissionCount /\ CloseListing(id)
    BY <1>3 DEF PickWinner, TypeOK
  <2>. QED
    BY <1>1, <2>2, <2>3 DEF Untouched
<1>4. ASSUME NEW judge, CloseWithoutWinner(c, id, judge) PROVE Untouched(i)
  <2>1. tasks'[i] = tasks[i] /\ hPayout'[i] = hPayout[i]
    BY <1>4 DEF CloseWithoutWinner, Refund, TypeOK
  <2>2. /\ openTasks'[i] = openTasks[i] /\ CloseListing(id)
        /\ UNCHANGED <<submissionCount, disputeRecords>>
    BY <1>4 DEF CloseWithoutWinner, TypeOK
  <2>. QED
    BY <1>1, <2>1, <2>2 DEF Untouched
<1>. QED
  BY <1>2, <1>3, <1>4
     DEF OpenSubmissionCall, SelectWinner, SelectWinnerByVerifier, SelectWinnerByBackup,
         VoidOpenTask, ResolveOpenTask, Account

-----------------------------------------------------------------------------
(* Ids nobody created *)

LEMMA CallKeepsPhantoms ==
  ASSUME TypeOK, PauseInv, NoPhantomTask, NEW c \in Address, NEW id \in TaskId,
         WorkerLifecycleCall(c, id) \/ OpenSubmissionCall(c, id)
  PROVE  NoPhantomTask'
<1>1. id < nextTaskId
  BY CallNeedsTask
<1>2. nextTaskId' = nextTaskId /\ SameTerms
  BY WorkerLifecycleTerms, OpenSubmissionTerms DEF createVars
<1>3. \A i \in TaskId \ {id} : Untouched(i)
  BY WorkerCallTouches, OpenCallTouches
<1>4. ASSUME NEW i \in TaskId, i >= nextTaskId PROVE i # id
  BY <1>1, <1>4 DEF TypeOK, TaskId
<1>5. ASSUME NEW i \in TaskId, i >= nextTaskId
      PROVE  /\ tasks'[i] = ZeroTask /\ openTasks'[i] = ClosedToOpen
             /\ submissionCount'[i] = 0 /\ listing'[i] = "none"
  BY <1>3, <1>4, <1>5 DEF NoPhantomTask, Untouched
<1>6. ASSUME NEW i \in TaskId, i < nextTaskId
      PROVE  tasks'[i].agent \in Address /\ tasks'[i].amount > 0
  BY <1>2, <1>6 DEF NoPhantomTask, SameTerms
<1>. QED
  BY <1>2, <1>5, <1>6 DEF NoPhantomTask

LEMMA CreateKeepsPhantoms ==
  ASSUME TypeOK, NoPhantomTask, NEW c \in Address, NEW token \in Token,
         NEW inputs \in Seq(TaskInput), NEW open \in OpenTask,
         RecordTasks(c, token, inputs, open)
  PROVE  NoPhantomTask'
<1>. DEFINE ids == nextTaskId..(nextTaskId + Len(inputs) - 1)
            in(id) == inputs[id - nextTaskId + 1]
<1>1. nextTaskId \in Nat /\ Len(inputs) \in Nat /\ nextTaskId' = nextTaskId + Len(inputs)
  <2>1. nextTaskId' = nextTaskId + Len(inputs)
    BY DEF RecordTasks
  <2>2. nextTaskId \in Nat
    BY NumberAssumption DEF TypeOK
  <2>. QED
    BY <2>1, <2>2
<1>2. ASSUME NEW i \in TaskId, i \in ids
      PROVE  tasks'[i].agent \in Address /\ tasks'[i].amount > 0
  <2>1. in(i) \in TaskInput
    BY <1>1, <1>2
  <2>2. in(i).amount > 0
    <3>1. in(i).amount \in Nat
      BY <2>1, NumberAssumption DEF TaskInput
    <3>2. in(i).amount # 0
      BY <1>2 DEF RecordTasks, Recordable
    <3>. QED
      BY <3>1, <3>2
  <2>3. tasks'[i] = [ZeroTask EXCEPT !.agent = c, !.token = token, !.amount = in(i).amount,
                       !.createdAt = now, !.deadline = now + in(i).duration]
    BY <1>2 DEF RecordTasks
  <2>. HIDE DEF in
  <2>. QED
    BY <2>2, <2>3 DEF ZeroTask
<1>3. ASSUME NEW i \in TaskId, i \notin ids
      PROVE  /\ tasks'[i] = tasks[i] /\ openTasks'[i] = openTasks[i]
             /\ submissionCount'[i] = submissionCount[i] /\ listing'[i] = listing[i]
  BY <1>3 DEF RecordTasks, AnnounceTasks
<1>4. \A i \in TaskId : /\ i >= nextTaskId' => i \notin ids /\ i >= nextTaskId
                        /\ i < nextTaskId' => i \in ids \/ i < nextTaskId
                        /\ i < nextTaskId => i \notin ids
  BY <1>1 DEF TaskId
<1>. HIDE DEF ids
<1>. QED
  BY <1>2, <1>3, <1>4 DEF NoPhantomTask

LEMMA InitPhantoms == Init => NoPhantomTask
<1>. SUFFICES ASSUME Init PROVE NoPhantomTask
  OBVIOUS
<1>0. /\ openTasks = [id \in TaskId |-> ClosedToOpen]
      /\ submissionCount = [id \in TaskId |-> 0] /\ listing = [id \in TaskId |-> "none"]
  BY DEF Init, Initialized, Upgraded, InitCommon
<1>1. CASE Initialized
  BY <1>0, <1>1 DEF Initialized, NoPhantomTask, TaskId
<1>2. CASE Upgraded
  <2>1. PICK agent \in Posters, worker \in Workers, token \in Token, amount \in Amount \ {0},
             hash \in Hash, duration \in Duration \cap MIN_DEADLINE..MAX_DEADLINE,
             status \in LegacyStatus :
           UpgradedWith(LegacyTask(agent, worker, token, amount, hash, duration, status))
    BY <1>2 DEF Upgraded
  <2>. DEFINE t == LegacyTask(agent, worker, token, amount, hash, duration, status)
  <2>2. t.agent = agent /\ t.amount = amount
    BY DEF LegacyTask
  <2>3. agent \in Address /\ amount > 0
    BY AddressAssumption, NumberAssumption
  <2>. HIDE DEF t
  <2>4. tasks = [id \in TaskId |-> IF id = 1 THEN t ELSE ZeroTask] /\ nextTaskId = 2
    BY <1>2, <2>1 DEF UpgradedWith, Upgraded, t
  <2>5. \A id \in TaskId : (id < 2 <=> id = 1)
    BY DEF TaskId
  <2>. QED
    BY <1>0, <2>2, <2>3, <2>4, <2>5 DEF NoPhantomTask, TaskId
<1>. QED
  BY <1>1, <1>2 DEF Init

LEMMA StepPhantoms == TypeOK /\ PauseInv /\ NoPhantomTask /\ [Next]_vars => NoPhantomTask'
<1>. SUFFICES ASSUME TypeOK, PauseInv, NoPhantomTask, [Next]_vars PROVE NoPhantomTask'
  OBVIOUS
<1>1. ASSUME NEW c \in Posters, PosterCall(c) PROVE NoPhantomTask'
  BY <1>1, PosterCallRecords, CreateKeepsPhantoms, AddressAssumption
<1>2. ASSUME NEW c \in Address, NEW id \in TaskId,
             WorkerLifecycleCall(c, id) \/ OpenSubmissionCall(c, id) PROVE NoPhantomTask'
  BY <1>2, CallKeepsPhantoms
<1>3. CASE (\E c \in Address : AdminCall(c)) \/ Tick \/ ExternalFault \/ UNCHANGED vars
  <2>1. UNCHANGED <<nextTaskId, tasks, openTasks, submissionCount, listing>>
    BY <1>3 DEF AdminCall, Configure, Pause, Unpause, RecordPauseStart, Tick, ExternalFault,
       vars, taskStateVars, createVars, openVars, registryVars
  <2>. QED
    BY <2>1 DEF NoPhantomTask
<1>. QED
  BY <1>1, <1>2, <1>3 DEF Next

\* No call reaches a task id before it is created, although its storage reads as
\* a Funded task: for every id count, pause history and caller.
THEOREM NoPhantomTaskHolds == Spec => []NoPhantomTask
  BY InitType, StepType, InitClock, StepClock, InitPhantoms, StepPhantoms, PTL DEF Spec

-----------------------------------------------------------------------------
(* Payouts *)

LEMMA PayWorkerPays ==
  ASSUME TypeOK, PaidOnce, NEW c, NEW id \in TaskId, NEW t \in Task, NEW score,
         t.amount = tasks[id].amount, tasks[id].status \notin {"Completed", "Cancelled"},
         PayWorker(c, id, t, score)
  PROVE  PaidRight(tasks'[id], hPayout'[id])
<1>. DEFINE fee == PlatformFee(t.amount)
<1>1. /\ t.amount \in Nat /\ fee \in 0..t.amount /\ fee * Bps <= t.amount * MAX_FEE_BPS
  BY FeeBound DEF TypeOK, Task
<1>2. hPayout[id] = NoPayout
  BY DEF PaidOnce, PaidRight
<1>3. /\ tasks' = [tasks EXCEPT ![id] = [t EXCEPT !.status = "Completed"]]
      /\ hPayout' = [hPayout EXCEPT ![id] =
                        [@ EXCEPT !.worker = hPayout[id].worker + (t.amount - fee),
                                  !.fee = hPayout[id].fee + fee]]
  BY DEF PayWorker
<1>. HIDE DEF fee
<1>4. tasks \in [TaskId -> Task] /\ hPayout \in [TaskId -> Payout]
  BY DEF TypeOK
<1>5. tasks'[id].status = "Completed" /\ tasks'[id].amount = t.amount
  BY <1>3, <1>4 DEF Task
<1>6. hPayout'[id].worker = t.amount - fee /\ hPayout'[id].fee = fee /\ hPayout'[id].refund = 0
  BY <1>1, <1>2, <1>3, <1>4 DEF NoPayout, Payout
<1>. HIDE DEF Bps
<1>7. hPayout'[id].worker + hPayout'[id].fee = tasks'[id].amount
  BY <1>1, <1>5, <1>6
<1>. QED
  BY <1>1, <1>5, <1>6, <1>7 DEF PaidRight

LEMMA RefundPays ==
  ASSUME TypeOK, PaidOnce, NEW c, NEW id \in TaskId,
         tasks[id].status \notin {"Completed", "Cancelled"}, Refund(c, id)
  PROVE  PaidRight(tasks'[id], hPayout'[id])
<1>1. hPayout[id] = NoPayout
  BY DEF PaidOnce, PaidRight
<1>2. /\ tasks' = [tasks EXCEPT ![id] = [@ EXCEPT !.status = "Cancelled"]]
      /\ hPayout' = [hPayout EXCEPT ![id] =
                        [@ EXCEPT !.refund = hPayout[id].refund + tasks[id].amount]]
  BY DEF Refund
<1>3. /\ tasks \in [TaskId -> Task] /\ hPayout \in [TaskId -> Payout]
      /\ tasks[id].amount \in Nat
  BY DEF TypeOK, Task
<1>4. tasks'[id].status = "Cancelled" /\ tasks'[id].amount = tasks[id].amount
  BY <1>2, <1>3 DEF Task
<1>5. hPayout'[id] = [NoPayout EXCEPT !.refund = tasks[id].amount]
  BY <1>1, <1>2, <1>3 DEF NoPayout, Payout
<1>. QED
  BY <1>4, <1>5 DEF PaidRight

\* A call that settles nothing pays nothing.
LEMMA OtherwiseUnpaid ==
  ASSUME PaidOnce, NEW id \in TaskId, hPayout'[id] = hPayout[id],
         tasks[id].status \notin {"Completed", "Cancelled"},
         tasks'[id].status \notin {"Completed", "Cancelled"}
  PROVE  PaidRight(tasks'[id], hPayout'[id])
  BY DEF PaidOnce, PaidRight

LEMMA WorkerCallPays ==
  ASSUME TypeOK, PaidOnce, NEW c \in Address, NEW id \in TaskId, WorkerLifecycleCall(c, id)
  PROVE  PaidRight(tasks'[id], hPayout'[id])
<1>. DEFINE Goal == PaidRight(tasks'[id], hPayout'[id])
            Live(status) == status \notin {"Completed", "Cancelled"}
<1>1. tasks \in [TaskId -> Task] /\ tasks[id] \in Task
  BY DEF TypeOK
<1>2. ASSUME NEW worker, Assign(id, worker) PROVE Goal
  <2>1. Live(tasks[id].status) /\ Live(tasks'[id].status) /\ hPayout' = hPayout
    BY <1>1, <1>2 DEF Assign, Task, moneyVars
  <2>. QED
    BY <2>1, OtherwiseUnpaid
<1>3. ASSUME NEW hash, SubmitEvidence(c, id, hash) PROVE Goal
  <2>1. Live(tasks[id].status) /\ Live(tasks'[id].status) /\ hPayout' = hPayout
    BY <1>1, <1>3 DEF SubmitEvidence, Task, moneyVars
  <2>. QED
    BY <2>1, OtherwiseUnpaid
<1>4. ASSUME NEW passed \in BOOLEAN, CompleteVerification(c, id, passed) PROVE Goal
  <2>1. Live(tasks[id].status)
    BY <1>4 DEF CompleteVerification
  <2>2. CASE passed
    BY <1>1, <1>4, <2>1, <2>2, PayWorkerPays DEF CompleteVerification
  <2>3. CASE ~passed
    <3>1. Live(tasks'[id].status) /\ hPayout' = hPayout
      BY <1>1, <1>4, <2>3 DEF CompleteVerification, Task, moneyVars
    <3>. QED
      BY <2>1, <3>1, OtherwiseUnpaid
  <2>. QED
    BY <2>2, <2>3
<1>5. CASE CancelTask(c, id)
  BY <1>5, RefundPays DEF CancelTask
<1>6. CASE EscalateUnjudged(c, id) \/ RaiseDispute(c, id)
  <2>1. Live(tasks[id].status) /\ Live(tasks'[id].status) /\ hPayout' = hPayout
    BY ZenonT(60), <1>1, <1>6 DEF EscalateUnjudged, RaiseDispute, Task, moneyVars
  <2>. QED
    BY <2>1, OtherwiseUnpaid
<1>7. CASE RefundTimeout(c, id)
  BY <1>7, RefundPays DEF RefundTimeout
<1>8. ASSUME NEW workerFavored \in BOOLEAN, ResolveDispute(c, id, workerFavored) PROVE Goal
  BY <1>1, <1>8, PayWorkerPays, RefundPays DEF ResolveDispute
<1>9. CASE ReleaseUnjudgedWork(c, id)
  BY <1>1, <1>9, PayWorkerPays DEF ReleaseUnjudgedWork
<1>. QED
  BY <1>2, <1>3, <1>4, <1>5, <1>6, <1>7, <1>8, <1>9
     DEF WorkerLifecycleCall, AssignWorker, MarketplaceAssign,
         CompleteVerificationWithTEE, ClaimTimeout

LEMMA OpenCallPays ==
  ASSUME TypeOK, PaidOnce, NEW c \in Address, NEW id \in TaskId, OpenSubmissionCall(c, id)
  PROVE  PaidRight(tasks'[id], hPayout'[id])
<1>. DEFINE Goal == PaidRight(tasks'[id], hPayout'[id])
<1>1. tasks[id].status = "Funded"
  BY OpenCallNeedsFunded
<1>2. ASSUME NEW hash, SubmitOpen(c, id, hash) PROVE Goal
  BY <1>1, <1>2, OtherwiseUnpaid DEF SubmitOpen, moneyVars
<1>3. ASSUME NEW winner \in Address, NEW judge, PickWinner(c, id, winner, judge) PROVE Goal
  <2>. DEFINE t == [tasks[id] EXCEPT !.worker = winner, !.evidenceHash = submissionOf[id][winner]]
  <2>1. t \in Task /\ t.amount = tasks[id].amount
    <3>1. tasks[id] \in Task /\ submissionOf[id][winner] \in Hash \cup {NoHash} /\ winner \in Account
      BY DEF TypeOK, Account
    <3>. QED
      BY <3>1 DEF Task
  <2>2. PICK score : PayWorker(c, id, t, score)
    BY <1>3 DEF PickWinner
  <2>. HIDE DEF t
  <2>. QED
    BY <1>1, <2>1, <2>2, PayWorkerPays
<1>4. ASSUME NEW judge, CloseWithoutWinner(c, id, judge) PROVE Goal
  BY <1>1, <1>4, RefundPays DEF CloseWithoutWinner
<1>. QED
  BY <1>2, <1>3, <1>4
     DEF OpenSubmissionCall, SelectWinner, SelectWinnerByVerifier, SelectWinnerByBackup,
         VoidOpenTask, ResolveOpenTask, Account

LEMMA CreatePays ==
  ASSUME TypeOK, NoPhantomTask, PaidOnce, NEW c, NEW token, NEW inputs \in Seq(TaskInput),
         NEW open, RecordTasks(c, token, inputs, open)
  PROVE  PaidOnce'
<1>. DEFINE ids == nextTaskId..(nextTaskId + Len(inputs) - 1)
<1>1. hPayout' = hPayout
  BY DEF RecordTasks
<1>2. ASSUME NEW i \in TaskId, i \in ids
      PROVE  tasks[i].status = "Funded" /\ tasks'[i].status = "Funded"
  <2>1. tasks'[i].status = "Funded"
    BY <1>2 DEF RecordTasks, ZeroTask
  <2>2. i >= nextTaskId
    BY <1>2
  <2>. QED
    BY <2>1, <2>2 DEF NoPhantomTask, ZeroTask
<1>3. ASSUME NEW i \in TaskId, i \notin ids PROVE tasks'[i] = tasks[i]
  BY <1>3 DEF RecordTasks
<1>. HIDE DEF ids
<1>4. ASSUME NEW i \in TaskId PROVE PaidRight(tasks'[i], hPayout'[i])
  BY <1>1, <1>2, <1>3, OtherwiseUnpaid DEF PaidOnce
<1>. QED
  BY <1>4 DEF PaidOnce

LEMMA StepPaid == TypeOK /\ NoPhantomTask /\ PaidOnce /\ [Next]_vars => PaidOnce'
<1>. SUFFICES ASSUME TypeOK, NoPhantomTask, PaidOnce, [Next]_vars PROVE PaidOnce'
  OBVIOUS
<1>1. ASSUME NEW c \in Posters, PosterCall(c) PROVE PaidOnce'
  BY <1>1, PosterCallRecords, CreatePays
<1>2. ASSUME NEW c \in Address, NEW id \in TaskId,
             WorkerLifecycleCall(c, id) \/ OpenSubmissionCall(c, id) PROVE PaidOnce'
  <2>1. \A i \in TaskId \ {id} : tasks'[i] = tasks[i] /\ hPayout'[i] = hPayout[i]
    BY <1>2, WorkerCallTouches, OpenCallTouches DEF Untouched
  <2>2. PaidRight(tasks'[id], hPayout'[id])
    BY <1>2, WorkerCallPays, OpenCallPays
  <2>. QED
    BY <2>1, <2>2 DEF PaidOnce
<1>3. CASE (\E c \in Address : AdminCall(c)) \/ Tick \/ ExternalFault \/ UNCHANGED vars
  <2>1. UNCHANGED <<tasks, hPayout>>
    BY <1>3 DEF AdminCall, Configure, Pause, Unpause, RecordPauseStart, Tick, ExternalFault,
       vars, taskStateVars, moneyVars
  <2>. QED
    BY <2>1 DEF PaidOnce
<1>. QED
  BY <1>1, <1>2, <1>3 DEF Next

LEMMA InitPaid == Init => PaidOnce
<1>. SUFFICES ASSUME Init, NEW id \in TaskId PROVE PaidRight(tasks[id], hPayout[id])
  BY DEF PaidOnce
<1>1. hPayout[id] = NoPayout
  BY DEF Init, Initialized, Upgraded, InitCommon
<1>2. tasks[id].status \notin {"Completed", "Cancelled"}
  <2>1. CASE Initialized
    BY <2>1 DEF Initialized, ZeroTask
  <2>2. CASE Upgraded
    <3>1. PICK agent \in Posters, worker \in Workers, token \in Token, amount \in Amount \ {0},
               hash \in Hash, duration \in Duration \cap MIN_DEADLINE..MAX_DEADLINE,
               status \in LegacyStatus :
             UpgradedWith(LegacyTask(agent, worker, token, amount, hash, duration, status))
      BY <2>2 DEF Upgraded
    <3>2. LegacyTask(agent, worker, token, amount, hash, duration, status).status = status
      BY DEF LegacyTask
    <3>3. status \notin {"Completed", "Cancelled"}
      BY AddressAssumption
    <3>. QED
      BY <3>1, <3>2, <3>3 DEF UpgradedWith, ZeroTask
  <2>. QED
    BY <2>1, <2>2 DEF Init
<1>. QED
  BY <1>1, <1>2 DEF PaidRight

\* Whatever the sequence of calls, a payment is paid out once and whole: never
\* two settlements of one task, never a split that loses or invents money, never
\* a fee above the hard cap although the admin may change it in flight.
THEOREM PaidOnceHolds == Spec => []PaidOnce
  BY InitType, StepType, InitClock, StepClock, InitPhantoms, StepPhantoms,
     InitPaid, StepPaid, PTL DEF Spec

-----------------------------------------------------------------------------
(* Sums *)

\* Induction on the members of a set of numbers.
LEMMA SetInduction ==
  ASSUME NEW S, 0 \in S, \A n \in Nat : n \in S => n + 1 \in S
  PROVE  Nat \subseteq S
<1>. SUFFICES ASSUME Nat \ S # {} PROVE FALSE
  OBVIOUS
<1>. DEFINE Less == {p \in Nat \X Nat : p[1] < p[2]}
<1>1. IsWellFoundedOn(Less, Nat)
  BY NatLessThanWellFounded, Zenon DEF OpToRel
<1>2. PICK m \in Nat \ S : \A n \in Nat \ S : <<n, m>> \notin Less
  <2>1. Nat \ S \subseteq Nat
    OBVIOUS
  <2>. QED
    BY <1>1, <2>1, WFMin, Zenon
<1>3. m - 1 \in Nat
  OBVIOUS
<1>4. m - 1 < m /\ m \in Nat
  OBVIOUS
<1>5. <<m - 1, m>> \in Less
  BY <1>3, <1>4, Zenon
<1>. HIDE DEF Less
<1>6. m - 1 \in S
  BY <1>2, <1>3, <1>5
<1>. QED
  BY <1>3, <1>6

IsSum(sum, f, n) == sum = [k \in 0..n |-> IF k = 0 THEN 0 ELSE sum[k - 1] + f[k]]

LEMMA TotalIsSum ==
  ASSUME NEW f, NEW n
  PROVE Total(f, n) = (CHOOSE sum : IsSum(sum, f, n))[n]
BY Zenon DEF Total, IsSum

LEMMA SumExists ==
  ASSUME NEW f
  PROVE  \A n \in Nat : \E sum : IsSum(sum, f, n)
<1>. DEFINE S == {n \in Nat : \E sum : IsSum(sum, f, n)}
<1>1. 0 \in S
  <2>1. IsSum([k \in 0..0 |-> 0], f, 0)
    BY DEF IsSum
  <2>. QED
    BY <2>1
<1>2. ASSUME NEW n \in Nat, NEW sum, IsSum(sum, f, n)
      PROVE  \E s : IsSum(s, f, n + 1)
  <2>. DEFINE s == [k \in 0..(n + 1) |-> IF k = n + 1 THEN sum[n] + f[n + 1] ELSE sum[k]]
  <2>1. ASSUME NEW k \in 0..(n+1) PROVE s[k] = IF k = 0 THEN 0 ELSE s[k - 1] + f[k]
    <3>1. CASE k = n + 1
      BY <3>1
    <3>2. CASE k \in 0..n
      <4>1. sum[k] = IF k = 0 THEN 0 ELSE sum[k-1] + f[k]
        BY <1>2, <3>2 DEF IsSum
      <4>2. s[k] = sum[k]
        BY <3>2
      <4>3. k # 0 => s[k-1] = sum[k-1]
        BY <3>2
      <4>. QED
        BY <4>1, <4>2, <4>3
    <3>. QED
      BY <3>1, <3>2
  <2>2. s = [k \in 0..(n + 1) |-> IF k = 0 THEN 0 ELSE s[k - 1] + f[k]]
    <3>. HIDE DEF s
    <3>1. s = [k \in 0..(n + 1) |-> s[k]]
      BY DEF s
    <3>. QED
      BY <2>1, <3>1
  <2>. HIDE DEF s
  <2>. QED
    BY <2>2 DEF IsSum
<1>3. \A n \in Nat : n \in S => n + 1 \in S
  BY <1>2
<1>. HIDE DEF S
<1>4. Nat \subseteq S
  BY <1>1, <1>3, SetInduction
<1>. QED
  BY <1>4 DEF S

LEMMA SumIs ==
  ASSUME NEW f, NEW n \in Nat
  PROVE  \E sum : IsSum(sum, f, n) /\ Total(f, n) = sum[n]
<1>1. \E sum : IsSum(sum, f, n)
  BY SumExists
<1>2. IsSum(CHOOSE sum : IsSum(sum, f, n), f, n)
  BY <1>1, Zenon
<1>. QED
  BY <1>2, TotalIsSum, Zenon

LEMMA SumUnique ==
  ASSUME NEW f, NEW m \in Nat, NEW n \in Nat, NEW s, NEW t, IsSum(s, f, m), IsSum(t, f, n)
  PROVE  \A k \in Nat : k <= m /\ k <= n => s[k] = t[k]
<1>. DEFINE S == {k \in Nat : k <= m /\ k <= n => s[k] = t[k]}
<1>1. 0 \in S
  BY DEF IsSum
<1>2. ASSUME NEW k \in Nat, k \in S PROVE k + 1 \in S
  <2>1. SUFFICES ASSUME k + 1 <= m, k + 1 <= n PROVE s[k + 1] = t[k + 1]
    OBVIOUS
  <2>2. s[k] = t[k]
    BY <1>2, <2>1
  <2>3. s[k + 1] = s[k] + f[k + 1] /\ t[k + 1] = t[k] + f[k + 1]
    BY <2>1 DEF IsSum
  <2>. QED
    BY <2>2, <2>3
<1>. HIDE DEF S
<1>3. Nat \subseteq S
  BY <1>1, <1>2, SetInduction
<1>. QED
  BY <1>3 DEF S

LEMMA TotalZero == ASSUME NEW f PROVE Total(f, 0) = 0
  BY SumIs DEF IsSum

LEMMA TotalNext ==
  ASSUME NEW f, NEW n \in Nat
  PROVE  Total(f, n + 1) = Total(f, n) + f[n + 1]
<1>1. PICK s : IsSum(s, f, n) /\ Total(f, n) = s[n]
  BY SumIs
<1>2. PICK t : IsSum(t, f, n + 1) /\ Total(f, n + 1) = t[n + 1]
  BY SumIs
<1>3. s[n] = t[n]
  BY <1>1, <1>2, SumUnique
<1>4. t[n + 1] = t[n] + f[n + 1]
  BY <1>2 DEF IsSum
<1>. QED
  BY <1>1, <1>2, <1>3, <1>4

LEMMA TotalSame ==
  ASSUME NEW f, NEW g, NEW n \in Nat, \A k \in 1..n : f[k] = g[k] /\ g[k] \in Int
  PROVE  Total(g, n) = Total(f, n) /\ Total(g, n) \in Int
<1>. DEFINE S == {k \in Nat : k <= n => Total(g, k) = Total(f, k) /\ Total(g, k) \in Int}
<1>1. 0 \in S
  BY TotalZero
<1>2. ASSUME NEW k \in Nat, k \in S PROVE k + 1 \in S
  BY <1>2, TotalNext
<1>. HIDE DEF S
<1>3. Nat \subseteq S
  BY <1>1, <1>2, SetInduction
<1>. QED
  BY <1>3 DEF S

\* Zeros added to a sum add nothing.
LEMMA TotalOfRest ==
  ASSUME NEW f, NEW m \in Nat, NEW n \in Nat, m <= n,
         \A k \in 1..n : f[k] \in Int, \A k \in (m + 1)..n : f[k] = 0
  PROVE  Total(f, n) = Total(f, m)
<1>. DEFINE S == {k \in Nat : m <= k /\ k <= n => Total(f, k) = Total(f, m)}
<1>1. Total(f, m) \in Int
  BY TotalSame
<1>2. 0 \in S
  BY TotalZero
<1>3. ASSUME NEW k \in Nat, k \in S PROVE k + 1 \in S
  BY <1>1, <1>3, TotalNext
<1>. HIDE DEF S
<1>4. Nat \subseteq S
  BY <1>2, <1>3, SetInduction
<1>. QED
  BY <1>4 DEF S

\* Consecutive values add their own sum.
LEMMA TotalConcat ==
  ASSUME NEW f, NEW m \in Nat, NEW n \in Nat, \A k \in 1..(m + n) : f[k] \in Int
  PROVE  Total(f, m + n) = Total(f, m) + Total([k \in 1..n |-> f[m + k]], n)
<1>1. Total(f, m) \in Int
  BY TotalSame
<1>. DEFINE rest == [k \in 1..n |-> f[m + k]]
            S == {k \in Nat : k <= n => /\ Total(f, m + k) = Total(f, m) + Total(rest, k)
                                     /\ Total(rest, k) \in Int}
<1>2. \A k \in 1..n : rest[k] = f[m + k] /\ rest[k] \in Int
  OBVIOUS
<1>. HIDE DEF rest
<1>3. 0 \in S
  BY <1>1, TotalZero
<1>4. ASSUME NEW k \in Nat, k \in S PROVE k + 1 \in S
  <2>. SUFFICES ASSUME k + 1 <= n
                PROVE  /\ Total(f, m + (k + 1)) = Total(f, m) + Total(rest, k + 1)
                       /\ Total(rest, k + 1) \in Int
    OBVIOUS
  <2>1. Total(f, m + k) = Total(f, m) + Total(rest, k) /\ Total(rest, k) \in Int
    BY <1>4
  <2>2. /\ Total(f, (m + k) + 1) = Total(f, m + k) + f[(m + k) + 1]
        /\ Total(rest, k + 1) = Total(rest, k) + rest[k + 1]
    BY TotalNext
  <2>3. (m + k) + 1 = m + (k + 1) /\ k + 1 \in 1..n
    OBVIOUS
  <2>4. rest[k + 1] = f[(m + k) + 1] /\ rest[k + 1] \in Int
    BY <1>2, <2>3
  <2>. QED
    BY <1>1, <2>1, <2>2, <2>3, <2>4
<1>. HIDE DEF S
<1>5. Nat \subseteq S
  BY <1>3, <1>4, SetInduction
<1>. QED
  BY <1>5 DEF S, rest

\* One value changed changes the sum by as much.
LEMMA TotalUpdate ==
  ASSUME NEW f, NEW g, NEW n \in Nat, NEW i \in 1..n,
         \A k \in 1..n : f[k] \in Int /\ g[k] \in Int,
         \A k \in (1..n) \ {i} : g[k] = f[k]
  PROVE  Total(g, n) = Total(f, n) + (g[i] - f[i])
<1>. DEFINE S == {k \in Nat : k <= n =>
                    /\ Total(f, k) \in Int
                    /\ Total(g, k) = Total(f, k) + (IF i <= k THEN g[i] - f[i] ELSE 0)}
<1>1. 0 \in S
  BY TotalZero
<1>2. ASSUME NEW k \in Nat, k \in S PROVE k + 1 \in S
  <2>. SUFFICES ASSUME k + 1 <= n
                PROVE  /\ Total(f, k + 1) \in Int
                       /\ Total(g, k + 1) = Total(f, k + 1) + (IF i <= k + 1 THEN g[i] - f[i] ELSE 0)
    OBVIOUS
  <2>1. /\ Total(f, k) \in Int
        /\ Total(g, k) = Total(f, k) + (IF i <= k THEN g[i] - f[i] ELSE 0)
    BY <1>2
  <2>2. /\ Total(f, k + 1) = Total(f, k) + f[k + 1]
        /\ Total(g, k + 1) = Total(g, k) + g[k + 1]
    BY TotalNext
  <2>3. k + 1 \in 1..n /\ (i <= k + 1 <=> i <= k \/ i = k + 1)
    OBVIOUS
  <2>. QED
    BY <2>1, <2>2, <2>3
<1>. HIDE DEF S
<1>3. Nat \subseteq S
  BY <1>1, <1>2, SetInduction
<1>. QED
  BY <1>3 DEF S
-----------------------------------------------------------------------------
(* The balance *)

BalanceInv == escrowBalance \in [Token -> Int] /\ Solvent

\* A call settles its task, whose payment leaves the escrow, or moves no money.
PaysOut(id) ==
  /\ Holds(id) /\ ~Holds(id)'
  /\ escrowBalance' = [escrowBalance EXCEPT ![tasks[id].token] = @ - tasks[id].amount]
Idles(id) == escrowBalance' = escrowBalance /\ (Holds(id)' <=> Holds(id))

LEMMA HeldInt ==
  ASSUME NEW token, NEW i \in TaskId
  PROVE  /\ TypeOK => Held(token)[i] \in Int
         /\ TypeOK' => Held(token)'[i] \in Int
<1>1. TypeOK => tasks[i].amount \in Int
  BY DEF TypeOK, Task
<1>2. TypeOK' => tasks'[i].amount \in Int
  BY DEF TypeOK, Task
<1>3. Held(token)[i] = IF Holds(i) /\ tasks[i].token = token THEN tasks[i].amount ELSE 0
  BY DEF Held
<1>4. Held(token)'[i] = IF Holds(i)' /\ tasks'[i].token = token THEN tasks'[i].amount ELSE 0
  BY DEF Held
<1>. QED
  BY <1>1, <1>2, <1>3, <1>4

LEMMA PayWorkerPaysOut ==
  ASSUME TypeOK, escrowBalance \in [Token -> Int], NEW c, NEW id \in TaskId, NEW t \in Task,
         NEW score, Holds(id), t.amount = tasks[id].amount, t.token = tasks[id].token,
         PayWorker(c, id, t, score)
  PROVE  PaysOut(id)
<1>. DEFINE fee == PlatformFee(t.amount)
<1>1. t.amount \in Nat /\ fee \in 0..t.amount /\ t.token \in Token
  BY FeeBound DEF TypeOK, Task
<1>2. /\ tasks' = [tasks EXCEPT ![id] = [t EXCEPT !.status = "Completed"]]
      /\ escrowBalance' = [escrowBalance EXCEPT ![t.token] = @ - (t.amount - fee) - fee]
  BY DEF PayWorker
<1>. HIDE DEF fee
<1>3. escrowBalance[t.token] - (t.amount - fee) - fee = escrowBalance[t.token] - t.amount
  BY <1>1
<1>4. tasks'[id].status = "Completed"
  BY <1>2 DEF TypeOK, Task
<1>. QED
  BY <1>2, <1>3, <1>4 DEF PaysOut, Holds

LEMMA RefundPaysOut ==
  ASSUME TypeOK, NEW c, NEW id \in TaskId, Holds(id), Refund(c, id)
  PROVE  PaysOut(id)
<1>1. tasks'[id].status = "Cancelled"
  BY DEF Refund, TypeOK, Task
<1>. QED
  BY <1>1 DEF Refund, PaysOut, Holds

LEMMA CallMovesPayment ==
  ASSUME TypeOK, escrowBalance \in [Token -> Int], NEW c \in Address, NEW id \in TaskId,
         tasks[id].agent # NoAddr, tasks'[id].agent = tasks[id].agent,
         WorkerLifecycleCall(c, id) \/ OpenSubmissionCall(c, id)
  PROVE  PaysOut(id) \/ Idles(id)
<1>. DEFINE Live(status) == status \notin {"Completed", "Cancelled"}
            Goal == PaysOut(id) \/ Idles(id)
<1>1. tasks \in [TaskId -> Task] /\ tasks[id] \in Task
  BY DEF TypeOK
<1>2. Live(tasks[id].status) => Holds(id)
  BY DEF Holds
<1>3. ASSUME Live(tasks[id].status), Live(tasks'[id].status), escrowBalance' = escrowBalance
      PROVE  Goal
  BY <1>3 DEF Idles, Holds
<1>4. ASSUME NEW worker, Assign(id, worker) PROVE Goal
  BY <1>1, <1>3, <1>4 DEF Assign, Task, moneyVars
<1>5. ASSUME NEW hash, SubmitEvidence(c, id, hash) PROVE Goal
  BY <1>1, <1>3, <1>5 DEF SubmitEvidence, Task, moneyVars
<1>6. ASSUME NEW passed \in BOOLEAN, CompleteVerification(c, id, passed) PROVE Goal
  <2>1. CASE passed
    BY <1>1, <1>2, <1>6, <2>1, PayWorkerPaysOut DEF CompleteVerification
  <2>2. CASE ~passed
    BY <1>1, <1>3, <1>6, <2>2 DEF CompleteVerification, Task, moneyVars
  <2>. QED
    BY <2>1, <2>2
<1>7. CASE CancelTask(c, id)
  BY <1>2, <1>7, RefundPaysOut DEF CancelTask
<1>8. CASE EscalateUnjudged(c, id) \/ RaiseDispute(c, id)
  BY <1>1, <1>3, <1>8 DEF EscalateUnjudged, RaiseDispute, Task, moneyVars
<1>9. CASE RefundTimeout(c, id)
  BY <1>2, <1>9, RefundPaysOut DEF RefundTimeout
<1>10. ASSUME NEW workerFavored \in BOOLEAN, ResolveDispute(c, id, workerFavored) PROVE Goal
  BY <1>1, <1>2, <1>10, PayWorkerPaysOut, RefundPaysOut DEF ResolveDispute
<1>11. CASE ReleaseUnjudgedWork(c, id)
  BY <1>1, <1>2, <1>11, PayWorkerPaysOut DEF ReleaseUnjudgedWork
<1>12. OpenSubmissionCall(c, id) => Holds(id)
  BY <1>2, OpenCallNeedsFunded
<1>13. ASSUME Holds(id), NEW winner \in Address, NEW judge, PickWinner(c, id, winner, judge)
       PROVE  Goal
  <2>. DEFINE t == [tasks[id] EXCEPT !.worker = winner, !.evidenceHash = submissionOf[id][winner]]
  <2>1. t \in Task /\ t.amount = tasks[id].amount /\ t.token = tasks[id].token
    <3>1. submissionOf[id][winner] \in Hash \cup {NoHash} /\ winner \in Account
      BY DEF TypeOK, Account
    <3>. QED
      BY <1>1, <3>1 DEF Task
  <2>2. PICK score : PayWorker(c, id, t, score)
    BY <1>13 DEF PickWinner
  <2>. HIDE DEF t
  <2>. QED
    BY <1>13, <2>1, <2>2, PayWorkerPaysOut
<1>14. ASSUME Holds(id), NEW judge, CloseWithoutWinner(c, id, judge) PROVE Goal
  BY <1>14, RefundPaysOut DEF CloseWithoutWinner
<1>15. ASSUME NEW hash, SubmitOpen(c, id, hash) PROVE Goal
  BY <1>15 DEF SubmitOpen, Idles, Holds, moneyVars
<1>16. WorkerLifecycleCall(c, id) => Goal
  BY <1>4, <1>5, <1>6, <1>7, <1>8, <1>9, <1>10, <1>11
     DEF WorkerLifecycleCall, AssignWorker, MarketplaceAssign,
         CompleteVerificationWithTEE, ClaimTimeout
<1>17. OpenSubmissionCall(c, id) => Goal
  BY <1>12, <1>13, <1>14, <1>15
     DEF OpenSubmissionCall, SelectWinner, SelectWinnerByVerifier, SelectWinnerByBackup,
         VoidOpenTask, ResolveOpenTask, Account
<1>. QED
  BY <1>16, <1>17

LEMMA CallKeepsBalance ==
  ASSUME TypeOK, TypeOK', PauseInv, NoPhantomTask, BalanceInv, NEW c \in Address,
         NEW id \in TaskId, WorkerLifecycleCall(c, id) \/ OpenSubmissionCall(c, id)
  PROVE  BalanceInv'
<1>1. tasks[id].agent # NoAddr
  BY CallNeedsTask, AddressAssumption DEF NoPhantomTask
<1>2. SameTerms
  BY WorkerLifecycleTerms, OpenSubmissionTerms
<1>3. PaysOut(id) \/ Idles(id)
  BY <1>1, <1>2, CallMovesPayment DEF BalanceInv, SameTerms
<1>4. \A i \in TaskId \ {id} : tasks'[i] = tasks[i]
  BY WorkerCallTouches, OpenCallTouches DEF Untouched
<1>5. tasks[id].token \in Token /\ tasks[id].amount \in Int
  BY DEF TypeOK, Task
<1>6. escrowBalance' \in [Token -> Int]
  BY <1>3, <1>5 DEF PaysOut, Idles, BalanceInv
<1>7. ASSUME NEW token \in Token PROVE escrowBalance'[token] = Total(Held(token)', MaxTasks)
  <2>. DEFINE f == Held(token)
              g == Held(token)'
  <2>1. \A i \in 1..MaxTasks : f[i] \in Int /\ g[i] \in Int
    BY HeldInt DEF TaskId
  <2>2. \A i \in (1..MaxTasks) \ {id} : g[i] = f[i]
    BY <1>4 DEF Held, Holds, TaskId
  <2>3. escrowBalance'[token] = escrowBalance[token] + (g[id] - f[id])
    <3>1. f[id] = IF Holds(id) /\ tasks[id].token = token THEN tasks[id].amount ELSE 0
      BY DEF Held
    <3>2. g[id] = IF Holds(id)' /\ tasks[id].token = token THEN tasks[id].amount ELSE 0
      BY <1>2 DEF Held, SameTerms
    <3>3. CASE PaysOut(id)
      BY <1>5, <3>1, <3>2, <3>3 DEF PaysOut, BalanceInv
    <3>4. CASE Idles(id)
      BY <1>5, <3>1, <3>2, <3>4 DEF Idles, BalanceInv
    <3>. QED
      BY <1>3, <3>3, <3>4
  <2>4. escrowBalance[token] = Total(f, MaxTasks)
    BY DEF BalanceInv, Solvent
  <2>. HIDE DEF f, g
  <2>5. Total(g, MaxTasks) = Total(f, MaxTasks) + (g[id] - f[id])
    BY <2>1, <2>2, TotalUpdate, NumberAssumption DEF TaskId
  <2>. QED
    BY <2>3, <2>4, <2>5 DEF g
<1>. QED
  BY <1>6, <1>7 DEF BalanceInv, Solvent

LEMMA CreateKeepsBalance ==
  ASSUME TypeOK, TypeOK', NoPhantomTask, BalanceInv, NEW c \in Address, NEW token \in Token,
         NEW inputs \in Seq(TaskInput), NEW open, RecordTasks(c, token, inputs, open)
  PROVE  BalanceInv'
<1>. DEFINE ids == nextTaskId..(nextTaskId + Len(inputs) - 1)
            in(id) == inputs[id - nextTaskId + 1]
            amounts == [i \in 1..Len(inputs) |-> inputs[i].amount]
            old == nextTaskId - 1
            count == Len(inputs)
<1>1. /\ ids \subseteq TaskId
      /\ tasks' = [id \in TaskId |->
                     IF id \in ids
                     THEN [ZeroTask EXCEPT !.agent = c, !.token = token,
                             !.amount = in(id).amount, !.createdAt = now,
                             !.deadline = now + in(id).duration]
                     ELSE tasks[id]]
  BY DEF RecordTasks
<1>0. escrowBalance' = [escrowBalance EXCEPT ![token] = @ + Total(amounts, count)]
  BY DEF RecordTasks, TotalAmount
<1>2. /\ old \in Nat /\ count \in Nat /\ old <= MaxTasks /\ MaxTasks \in Nat
      /\ nextTaskId \in Nat
  BY NumberAssumption DEF TypeOK
<1>3. \A i \in 1..count : amounts[i] = inputs[i].amount /\ amounts[i] \in Int
  <2>1. \A i \in 1..count : inputs[i] \in TaskInput
    OBVIOUS
  <2>2. ASSUME NEW input \in TaskInput PROVE input.amount \in Int
    <3>1. input.amount \in Amount
      BY DEF TaskInput
    <3>2. Amount \subseteq Int
      BY NumberAssumption
    <3>. QED
      BY <3>1, <3>2
  <2>. QED
    BY <2>1, <2>2
<1>. HIDE DEF amounts
<1>4. Total(amounts, count) \in Int
  BY <1>2, <1>3, TotalSame
<1>5. escrowBalance' \in [Token -> Int]
  <2>1. escrowBalance \in [Token -> Int]
    BY DEF BalanceInv
  <2>. QED
    BY <1>0, <1>4, <2>1
<1>6. \A i \in 1..MaxTasks : Held(token)[i] \in Int /\ Held(token)'[i] \in Int
  BY HeldInt DEF TaskId
<1>7. ASSUME NEW i \in TaskId, i \notin ids PROVE tasks'[i] = tasks[i]
  BY <1>1, <1>7
<1>8. ASSUME NEW i \in TaskId, i >= nextTaskId PROVE ~Holds(i)
  BY <1>8 DEF NoPhantomTask, Holds, ZeroTask
<1>9. ASSUME NEW i \in TaskId, i \in ids
      PROVE  /\ tasks'[i].token = token /\ tasks'[i].amount = in(i).amount
             /\ Holds(i)'
  <2>1. c # NoAddr
    BY AddressAssumption
  <2>. HIDE DEF in, ids
  <2>. QED
    BY <1>1, <1>9, <2>1 DEF ZeroTask, Holds
<1>10. ASSUME NEW tok \in Token PROVE escrowBalance'[tok] = Total(Held(tok)', MaxTasks)
  <2>1. CASE tok # token
    <3>1. ASSUME NEW i \in TaskId PROVE Held(tok)'[i] = Held(tok)[i]
      <4>1. CASE i \in ids
        BY <1>8, <1>9, <2>1, <4>1 DEF Held
      <4>2. CASE i \notin ids
        BY <1>7, <4>2 DEF Held, Holds
      <4>. QED
        BY <4>1, <4>2
    <3>2. escrowBalance'[tok] = escrowBalance[tok]
      BY <1>0, <2>1 DEF BalanceInv
    <3>3. \A i \in 1..MaxTasks : Held(tok)[i] = Held(tok)'[i] /\ Held(tok)'[i] \in Int
      BY <3>1, HeldInt DEF TaskId
    <3>4. Total(Held(tok)', MaxTasks) = Total(Held(tok), MaxTasks)
      BY <1>2, <3>3, TotalSame
    <3>. QED
      BY <3>2, <3>4 DEF BalanceInv, Solvent
  <2>2. CASE tok = token
    <3>. DEFINE held == Held(token)
                next == Held(token)'
    <3>1. \A i \in 1..old : held[i] = next[i]
      <4>1. \A i \in 1..old : i \in TaskId /\ i \notin ids
        BY <1>2 DEF TaskId
      <4>. QED
        BY <1>7, <4>1 DEF Held, Holds
    <3>2. \A i \in 1..count : next[old + i] = amounts[i]
      <4>1. \A i \in 1..count : old + i \in ids /\ (old + i) - nextTaskId + 1 = i
        BY <1>2
      <4>2. \A i \in TaskId : i \in ids => next[i] = in(i).amount
        BY <1>9 DEF Held
      <4>. HIDE DEF ids, old, count, next
      <4>. QED
        BY <1>1, <1>3, <4>1, <4>2
    <3>3. old + count \in Nat /\ old + count <= MaxTasks
      <4>1. count > 0 => old + count \in ids
        BY <1>2
      <4>2. count > 0 => old + count \in TaskId
        BY <1>1, <4>1
      <4>. HIDE DEF ids, count
      <4>. QED
        BY <1>2, <4>2 DEF TaskId
    <3>4. Total(next, old + count) = Total(held, old) + Total(amounts, count)
      <4>. DEFINE rest == [i \in 1..count |-> next[old + i]]
      <4>1. \A i \in 1..(old + count) : next[i] \in Int
        BY <1>2, <1>6, <3>3
      <4>2. \A i \in 1..old : next[i] \in Int
        BY <1>2, <4>1
      <4>3. \A i \in 1..count : rest[i] = amounts[i] /\ amounts[i] \in Int
        BY <1>3, <3>2
      <4>4. old \in Nat
        BY <1>2
      <4>5. count \in Nat
        BY <1>2
      <4>. HIDE DEF held, next, old, count
      <4>6. Total(next, old + count) = Total(next, old) + Total(rest, count)
        BY <4>1, <4>4, <4>5, TotalConcat
      <4>. HIDE DEF rest
      <4>7. Total(next, old) = Total(held, old)
        BY <3>1, <4>2, <4>4, TotalSame
      <4>8. Total(rest, count) = Total(amounts, count)
        BY <4>3, <4>5, TotalSame
      <4>. QED
        BY <4>6, <4>7, <4>8
    <3>5. Total(held, MaxTasks) = Total(held, old)
      <4>1. \A i \in (old + 1)..MaxTasks : i \in TaskId /\ i >= nextTaskId
        BY <1>2 DEF TaskId
      <4>2. \A i \in (old + 1)..MaxTasks : held[i] = 0
        BY <1>8, <4>1 DEF Held
      <4>. HIDE DEF held, old
      <4>. QED
        BY <1>2, <1>6, <4>2, TotalOfRest DEF held
    <3>6. Total(next, MaxTasks) = Total(next, old + count)
      <4>1. \A i \in (old + count + 1)..MaxTasks : i \in TaskId /\ i >= nextTaskId /\ i \notin ids
        BY <1>2 DEF TaskId
      <4>2. \A i \in (old + count + 1)..MaxTasks : next[i] = 0
        BY <1>7, <1>8, <4>1 DEF Held, Holds
      <4>. HIDE DEF next, old, count
      <4>. QED
        BY <1>2, <1>6, <3>3, <4>2, TotalOfRest DEF next
    <3>7. escrowBalance'[token] = escrowBalance[token] + Total(amounts, count)
      BY <1>0 DEF BalanceInv
    <3>8. Total(held, old) \in Int
      <4>1. \A i \in 1..old : held[i] \in Int
        BY <1>2, <1>6
      <4>. HIDE DEF held, old
      <4>. QED
        BY <1>2, <4>1, TotalSame
    <3>. HIDE DEF held, next
    <3>9. escrowBalance[token] = Total(held, MaxTasks)
      BY DEF BalanceInv, Solvent, held
    <3>. QED
      BY <1>4, <2>2, <3>4, <3>5, <3>6, <3>7, <3>8, <3>9 DEF next
  <2>. QED
    BY <2>1, <2>2
<1>. QED
  BY <1>5, <1>10 DEF BalanceInv, Solvent

LEMMA InitBalance == Init => BalanceInv
<1>. SUFFICES ASSUME Init PROVE BalanceInv
  OBVIOUS
<1>1. MaxTasks \in Nat \ {0}
  BY NumberAssumption
<1>2. CASE Initialized
  <2>1. escrowBalance = [token \in Token |-> 0] /\ tasks = [id \in TaskId |-> ZeroTask]
    BY <1>2 DEF Initialized
  <2>2. ASSUME NEW token \in Token PROVE Total(Held(token), MaxTasks) = 0
    <3>1. \A i \in 1..MaxTasks : Held(token)[i] = 0
      BY <2>1 DEF Held, Holds, ZeroTask, TaskId
    <3>2. Total(Held(token), MaxTasks) = Total(Held(token), 0)
      BY <1>1, <3>1, TotalOfRest
    <3>. QED
      BY <3>2, TotalZero
  <2>. QED
    BY <2>1, <2>2 DEF BalanceInv, Solvent
<1>3. CASE Upgraded
  <2>1. PICK t \in Task : /\ UpgradedWith(t) /\ t.agent # NoAddr
                          /\ t.status \notin {"Completed", "Cancelled"}
    <3>1. PICK agent \in Posters, worker \in Workers, token \in Token, amount \in Amount \ {0},
               hash \in Hash, duration \in Duration \cap MIN_DEADLINE..MAX_DEADLINE,
               status \in LegacyStatus :
             UpgradedWith(LegacyTask(agent, worker, token, amount, hash, duration, status))
      BY <1>3 DEF Upgraded
    <3>. DEFINE t == LegacyTask(agent, worker, token, amount, hash, duration, status)
    <3>2. t.agent = agent /\ t.status = status
      BY DEF LegacyTask
    <3>3. agent # NoAddr /\ status \notin {"Completed", "Cancelled"}
      BY AddressAssumption
    <3>. HIDE DEF t
    <3>4. tasks = [id \in TaskId |-> IF id = 1 THEN t ELSE ZeroTask]
      BY <3>1 DEF UpgradedWith, t
    <3>5. t \in Task
      <4>1. tasks \in [TaskId -> Task] /\ 1 \in TaskId
        BY <1>1, InitType DEF TypeOK, TaskId
      <4>. QED
        BY <3>4, <4>1
    <3>. QED
      BY <3>1, <3>2, <3>3, <3>5 DEF t
  <2>2. /\ tasks = [id \in TaskId |-> IF id = 1 THEN t ELSE ZeroTask]
        /\ escrowBalance = [token \in Token |-> IF token = t.token THEN t.amount ELSE 0]
    BY <2>1 DEF UpgradedWith
  <2>3. t.amount \in Int /\ escrowBalance \in [Token -> Int]
    BY <2>2 DEF Task
  <2>4. ASSUME NEW token \in Token
        PROVE  Total(Held(token), MaxTasks) = IF token = t.token THEN t.amount ELSE 0
    <3>. DEFINE f == Held(token)
    <3>1. f[1] = IF token = t.token THEN t.amount ELSE 0
      BY <1>1, <2>1, <2>2 DEF Held, Holds, TaskId
    <3>2. \A i \in 2..MaxTasks : f[i] = 0
      BY <2>2 DEF Held, Holds, ZeroTask, TaskId
    <3>. HIDE DEF f
    <3>3. \A i \in 1..MaxTasks : f[i] \in Int
      BY <2>3, <3>1, <3>2
    <3>4. Total(f, MaxTasks) = Total(f, 1)
      BY <1>1, <3>2, <3>3, TotalOfRest
    <3>5. Total(f, 0 + 1) = Total(f, 0) + f[0 + 1]
      BY TotalNext
    <3>. QED
      BY <2>3, <3>1, <3>4, <3>5, TotalZero DEF f
  <2>. QED
    BY <2>2, <2>3, <2>4 DEF BalanceInv, Solvent
<1>. QED
  BY <1>2, <1>3 DEF Init

LEMMA StepBalance ==
  TypeOK /\ PauseInv /\ NoPhantomTask /\ BalanceInv /\ [Next]_vars => BalanceInv'
<1>. SUFFICES ASSUME TypeOK, PauseInv, NoPhantomTask, BalanceInv, [Next]_vars
              PROVE  BalanceInv'
  OBVIOUS
<1>0. TypeOK'
  BY StepType
<1>1. ASSUME NEW c \in Posters, PosterCall(c) PROVE BalanceInv'
  BY <1>0, <1>1, PosterCallRecords, CreateKeepsBalance, AddressAssumption
<1>2. ASSUME NEW c \in Address, NEW id \in TaskId,
             WorkerLifecycleCall(c, id) \/ OpenSubmissionCall(c, id) PROVE BalanceInv'
  BY <1>0, <1>2, CallKeepsBalance
<1>3. CASE (\E c \in Address : AdminCall(c)) \/ Tick \/ ExternalFault \/ UNCHANGED vars
  <2>1. UNCHANGED <<tasks, escrowBalance>>
    BY <1>3 DEF AdminCall, Configure, Pause, Unpause, RecordPauseStart, Tick, ExternalFault,
       vars, taskStateVars, moneyVars
  <2>. QED
    BY <2>1 DEF BalanceInv, Solvent, Held, Holds
<1>. QED
  BY <1>1, <1>2, <1>3 DEF Next

\* Whatever the calls, batches and settlements, the escrow holds in each token
\* exactly what its unsettled tasks record, so every payout is covered: for any
\* number of tasks, tokens and amounts.
THEOREM SolventHolds == Spec => []Solvent
<1>1. BalanceInv => Solvent
  BY DEF BalanceInv
<1>. QED
  BY <1>1, InitType, StepType, InitClock, StepClock, InitPhantoms, StepPhantoms,
     InitBalance, StepBalance, PTL DEF Spec

=============================================================================
