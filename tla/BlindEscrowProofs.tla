------------------------- MODULE BlindEscrowProofs -------------------------
(***************************************************************************)
(* Type correctness of the escrow, and its pause clock: PauseAccounting    *)
(* and PauseNeutral hold for any number of pauses, of any length, around   *)
(* any calls.                                                              *)
(***************************************************************************)
EXTENDS BlindEscrow, TLAPS

LEMMA FeeBound ==
  ASSUME NEW amount \in Nat, feeBps \in 0..MAX_FEE_BPS
  PROVE  /\ PlatformFee(amount) \in 0..amount
         /\ PlatformFee(amount) * Bps <= amount * MAX_FEE_BPS
<1>. DEFINE x == amount * feeBps
            most == amount * MAX_FEE_BPS
            fee == x \div 10000
<1>1. x \in Nat /\ most \in Nat /\ x <= most /\ most <= amount * 10000
  BY NumberAssumption DEF Bps
<1>2. PlatformFee(amount) = fee /\ Bps = 10000
  BY DEF PlatformFee, Bps
<1>. HIDE DEF x, most
<1>3. fee \in Nat /\ fee * 10000 <= x
  BY <1>1
<1>. HIDE DEF fee
<1>4. fee * 10000 <= amount * 10000 /\ fee * 10000 <= most
  BY <1>1, <1>3
<1>5. fee <= amount
  BY <1>3, <1>4
<1>. QED
  BY <1>2, <1>3, <1>4, <1>5 DEF most

\* The variables a settlement writes stay well typed.
LEMMA PayWorkerType ==
  ASSUME TypeOK, NEW c \in Address, NEW id \in TaskId, NEW t \in Task,
         NEW score \in 0..5, PayWorker(c, id, t, score)
  PROVE  /\ tasks' \in [TaskId -> Task]
         /\ hPayout' \in [TaskId -> Payout]
         /\ hTask' \in [TaskId -> TaskHistory]
         /\ rating' \in [TaskId -> 0..5]
         /\ UNCHANGED <<reputationUp, disputeRecords>>
<1>1. PlatformFee(t.amount) \in 0..t.amount /\ t.amount \in Nat
  BY FeeBound DEF TypeOK, Task
<1>. DEFINE fee == PlatformFee(t.amount)
<1>. HIDE DEF fee
<1>2. fee \in Nat /\ t.amount - fee \in Nat
  BY <1>1 DEF fee
<1>3. tasks' \in [TaskId -> Task]
  BY DEF PayWorker, TypeOK, Task, Status
<1>4. hPayout' \in [TaskId -> Payout]
  <2>. DEFINE pay == t.amount - fee
  <2>1. hPayout' = [hPayout EXCEPT ![id] =
                      [@ EXCEPT !.worker = hPayout[id].worker + pay,
                                !.fee = hPayout[id].fee + fee]]
    BY DEF PayWorker, fee
  <2>2. hPayout \in [TaskId -> Payout] /\ pay \in Nat /\ fee \in Nat
    BY <1>2 DEF TypeOK
  <2>. HIDE DEF pay
  <2>3. /\ hPayout[id].worker + pay \in Nat
        /\ hPayout[id].fee + fee \in Nat
        /\ hPayout[id].refund \in Nat
    BY <2>2 DEF Payout
  <2>. QED
    BY <2>1, <2>2, <2>3 DEF Payout
<1>5. hTask' \in [TaskId -> TaskHistory]
  BY ZenonT(60) DEF PayWorker, TypeOK, TaskHistory, Account
<1>6. rating' \in [TaskId -> 0..5] /\ UNCHANGED <<reputationUp, disputeRecords>>
  BY DEF PayWorker, Rate, TypeOK
<1>. QED
  BY <1>3, <1>4, <1>5, <1>6

LEMMA RefundType ==
  ASSUME TypeOK, NEW c \in Address, NEW id \in TaskId, Refund(c, id)
  PROVE  /\ tasks' \in [TaskId -> Task]
         /\ hPayout' \in [TaskId -> Payout]
         /\ hTask' \in [TaskId -> TaskHistory]
<1>1. tasks \in [TaskId -> Task] /\ hPayout \in [TaskId -> Payout]
      /\ hTask \in [TaskId -> TaskHistory] /\ activeTime \in Nat
  BY DEF TypeOK
<1>2. tasks' \in [TaskId -> Task]
  BY <1>1 DEF Refund, Task, Status
<1>3. hPayout' \in [TaskId -> Payout]
  BY <1>1 DEF Refund, Task, Payout
<1>4. hTask' \in [TaskId -> TaskHistory]
  BY <1>1 DEF Refund, TaskHistory, Account
<1>. QED
  BY <1>2, <1>3, <1>4

LEMMA ListingType ==
  ASSUME TypeOK, NEW id \in TaskId
  PROVE  CloseListing(id) => /\ registryUp' \in BOOLEAN
                             /\ listing' \in [TaskId -> {"none", "open", "closed"}]
  BY DEF CloseListing, TypeOK

-----------------------------------------------------------------------------
(* Type correctness, one lemma per group of actions *)

LEMMA CreateType ==
  ASSUME TypeOK, NEW c \in Address, NEW token \in Token, NEW inputs \in Seq(TaskInput),
         NEW open \in OpenTask, RecordTasks(c, token, inputs, open)
  PROVE  TypeOK'
<1>. USE DEF clockVars, pauseVars, configVars, verdictVars, createVars, openVars,
            moneyVars, registryVars, reputationVars
<1>. DEFINE ids == nextTaskId..(nextTaskId + Len(inputs) - 1)
            in(id) == inputs[id - nextTaskId + 1]
<1>1. Len(inputs) \in Nat /\ nextTaskId \in Nat \ {0} /\ MaxTasks \in Nat
  BY NumberAssumption DEF TypeOK
<1>2. ids \subseteq TaskId /\ nextTaskId' = nextTaskId + Len(inputs)
  BY DEF RecordTasks
<1>3. nextTaskId' \in 1..(MaxTasks + 1)
  <2>1. CASE Len(inputs) = 0
    BY <1>1, <1>2, <2>1 DEF TypeOK
  <2>2. CASE Len(inputs) > 0
    <3>1. nextTaskId + Len(inputs) - 1 \in TaskId
      BY <1>1, <1>2, <2>2
    <3>2. nextTaskId + Len(inputs) - 1 <= MaxTasks
      BY <1>1, <3>1 DEF TaskId
    <3>. HIDE DEF ids
    <3>. QED
      BY <1>1, <1>2, <3>2
  <2>. QED
    BY <1>1, <2>1, <2>2
<1>4. \A id \in ids : in(id) \in TaskInput
  BY <1>1
<1>5. \A id \in ids : /\ in(id).amount \in Nat /\ in(id).duration \in Nat
                      /\ in(id).verifierAgent \in Account
  BY <1>4, NumberAssumption, AddressAssumption DEF TaskInput
<1>. HIDE DEF ids, in
<1>6. tasks' \in [TaskId -> Task]
  <2>. DEFINE new(id) == [ZeroTask EXCEPT !.agent = c, !.token = token,
                            !.amount = in(id).amount, !.createdAt = now,
                            !.deadline = now + in(id).duration]
  <2>1. ASSUME NEW id \in ids PROVE new(id) \in Task
    <3>1. /\ in(id).amount \in Nat /\ now \in Nat /\ now + in(id).duration \in Nat
          /\ c \in Account /\ NoAddr \in Account
      BY <1>5 DEF TypeOK, Account
    <3>. QED
      BY <3>1 DEF Task, ZeroTask, Status
  <2>. HIDE DEF new
  <2>2. tasks' = [id \in TaskId |-> IF id \in ids THEN new(id) ELSE tasks[id]]
    BY DEF RecordTasks, ids, in, new
  <2>. QED
    BY <2>1, <2>2 DEF TypeOK
<1>7. /\ pausedTotalAtCreate' \in [TaskId -> Nat]
      /\ openTasks' \in [TaskId -> OpenTask]
      /\ listing' \in [TaskId -> {"none", "open", "closed"}]
  BY DEF RecordTasks, AnnounceTasks, TypeOK
<1>8. taskVerifier' \in [TaskId -> Account]
  <2>1. taskVerifier' = [id \in TaskId |->
                           IF id \in ids THEN in(id).verifierAgent ELSE taskVerifier[id]]
    BY DEF RecordTasks, ids, in
  <2>. QED
    BY <1>5, <2>1 DEF TypeOK
<1>9. hTask' \in [TaskId -> TaskHistory]
  BY DEF RecordTasks, TypeOK, TaskHistory, NoHistory, Account
<1>10. UNCHANGED <<clockVars, pauseVars, configVars, verdictVars, submissionCount,
                   submissionOf, hPayout, reputationVars, registryUp>>
  BY DEF RecordTasks, AnnounceTasks
<1>. QED
  BY <1>3, <1>6, <1>7, <1>8, <1>9, <1>10 DEF TypeOK

\* The three creating calls record one task or a batch.
LEMMA PosterCallRecords ==
  ASSUME NEW c, PosterCall(c)
  PROVE  \E token \in Token, inputs \in Seq(TaskInput), open \in OpenTask :
           /\ Len(inputs) > 0 /\ open.closedBy = "None"
           /\ RecordTasks(c, token, inputs, open)
<1>. DEFINE Records(inputs, open) ==
       \E token \in Token : /\ inputs \in Seq(TaskInput) /\ open \in OpenTask
                            /\ Len(inputs) > 0 /\ open.closedBy = "None"
                            /\ RecordTasks(c, token, inputs, open)
<1>0. ClosedToOpen \in OpenTask /\ ClosedToOpen.closedBy = "None"
  BY DEF ClosedToOpen, OpenTask, PickMode, Judge
<1>1. ASSUME NEW in \in TaskInput PROVE <<in>> \in Seq(TaskInput) /\ Len(<<in>>) > 0
  OBVIOUS
<1>2. ASSUME NEW token \in Token, NEW in \in TaskInput, CreateTask(c, token, in)
      PROVE  Records(<<in>>, ClosedToOpen)
  BY <1>0, <1>1, <1>2 DEF CreateTask
<1>3. ASSUME NEW token \in Token, NEW n \in BatchSizes, NEW inputs \in [1..n -> TaskInput],
             CreateTasks(c, token, inputs)
      PROVE  Records(inputs, ClosedToOpen)
  <2>1. inputs \in Seq(TaskInput) /\ Len(inputs) = n
    BY NumberAssumption
  <2>2. Len(inputs) > 0
    BY <1>3, <2>1, NumberAssumption DEF CreateTasks
  <2>. QED
    BY <1>0, <1>3, <2>1, <2>2 DEF CreateTasks
<1>4. ASSUME NEW token \in Token, NEW in \in TaskInput, NEW mode \in PickMode,
             NEW window \in CreatorWindow, CreateTaskOpen(c, token, in, mode, window)
      PROVE  Records(<<in>>, [open |-> TRUE, mode |-> mode, creatorWindow |-> window,
                              closedBy |-> "None"])
  <2>1. [open |-> TRUE, mode |-> mode, creatorWindow |-> window, closedBy |-> "None"] \in OpenTask
    BY NumberAssumption DEF OpenTask, Judge
  <2>. QED
    BY <1>1, <1>4, <2>1 DEF CreateTaskOpen
<1>5. \E inputs, open : Records(inputs, open)
  <2>. HIDE DEF Records
  <2>. QED
    BY <1>2, <1>3, <1>4 DEF PosterCall
<1>. QED
  BY <1>5

LEMMA PosterCallType ==
  ASSUME TypeOK, NEW c \in Address, PosterCall(c)
  PROVE  TypeOK'
  BY PosterCallRecords, CreateType

\* A dispute changes a task's status and the moments it keeps, to values of
\* their types.
LEMMA DisputedTaskType ==
  ASSUME TypeOK, NEW id \in TaskId,
         tasks' = [tasks EXCEPT ![id] = [@ EXCEPT !.status = "Disputed", !.disputedAt = now]]
  PROVE  tasks' \in [TaskId -> Task]
<1>1. tasks \in [TaskId -> Task] /\ now \in Nat
  BY DEF TypeOK
<1>2. [tasks[id] EXCEPT !.status = "Disputed", !.disputedAt = now] \in Task
  <2>1. tasks[id] \in Task /\ "Disputed" \in Status
    BY <1>1 DEF Status
  <2>. QED
    BY <1>1, <2>1 DEF Task
<1>. QED
  BY <1>1, <1>2

LEMMA DisputedHistoryType ==
  ASSUME TypeOK, NEW id \in TaskId,
         hTask' = [hTask EXCEPT ![id] = [@ EXCEPT !.disputed = activeTime]]
  PROVE  hTask' \in [TaskId -> TaskHistory]
<1>1. hTask \in [TaskId -> TaskHistory] /\ activeTime \in Nat
  BY DEF TypeOK
<1>2. [hTask[id] EXCEPT !.disputed = activeTime] \in TaskHistory
  BY <1>1 DEF TaskHistory
<1>. QED
  BY <1>1, <1>2

LEMMA WorkerLifecycleType ==
  ASSUME TypeOK, NEW c \in Address, NEW id \in TaskId, WorkerLifecycleCall(c, id)
  PROVE  TypeOK'
<1>. USE DEF clockVars, pauseVars, configVars, verdictVars, createVars, openVars,
            moneyVars, registryVars, reputationVars
<1>1. /\ tasks \in [TaskId -> Task] /\ hTask \in [TaskId -> TaskHistory]
      /\ now \in Nat /\ activeTime \in Nat
  BY DEF TypeOK
<1>2. ASSUME NEW worker \in Address, Assign(id, worker)
      PROVE  TypeOK'
  <2>1. tasks' \in [TaskId -> Task]
    BY ZenonT(60), <1>1, <1>2 DEF Assign, Task, Account, Status
  <2>. QED
    BY <1>2, <2>1, ListingType DEF Assign, TypeOK
<1>3. ASSUME NEW hash \in Hash, SubmitEvidence(c, id, hash)
      PROVE  TypeOK'
  <2>1. tasks' \in [TaskId -> Task]
    <3>1. /\ tasks[id].submissionAttempts + 1 \in Nat
          /\ tasks' = [tasks EXCEPT ![id] = [@ EXCEPT
               !.evidenceHash = hash, !.status = "Submitted",
               !.submissionAttempts = tasks[id].submissionAttempts + 1]]
      BY <1>1, <1>3 DEF SubmitEvidence, Task
    <3>. QED
      BY ZenonT(60), <1>1, <3>1 DEF Task, Status
  <2>2. hTask' \in [TaskId -> TaskHistory]
    BY <1>1, <1>3 DEF SubmitEvidence, TaskHistory
  <2>. QED
    BY <1>3, <2>1, <2>2 DEF SubmitEvidence, TypeOK
<1>4. ASSUME NEW passed \in BOOLEAN, CompleteVerification(c, id, passed)
      PROVE  TypeOK'
  <2>1. CASE passed
    <3>1. PassScore(id) \in 0..5 /\ tasks[id] \in Task
      BY <1>1 DEF PassScore
    <3>2. PayWorker(c, id, tasks[id], PassScore(id)) /\ UNCHANGED verdictVars
      BY <1>4, <2>1 DEF CompleteVerification
    <3>. QED
      BY <1>4, <3>1, <3>2, PayWorkerType DEF CompleteVerification, TypeOK
  <2>2. CASE ~passed
    <3>1. tasks' \in [TaskId -> Task]
      BY <1>1, <1>4, <2>2 DEF CompleteVerification, Task, Status
    <3>2. hTask' \in [TaskId -> TaskHistory] /\ failedVerdictAt' \in [TaskId -> Nat]
      <4>1. /\ failedVerdictAt' = [failedVerdictAt EXCEPT ![id] = now]
            /\ hTask' = [hTask EXCEPT ![id] = [@ EXCEPT !.failed = activeTime, !.judged = TRUE]]
        BY <1>4, <2>2 DEF CompleteVerification
      <4>. QED
        BY ZenonT(60), <1>1, <4>1 DEF TaskHistory, TypeOK
    <3>3. disputeRecords' \in [TaskId -> Nat] /\ UNCHANGED <<reputationUp, rating>>
      BY <1>4, <2>2 DEF CompleteVerification, RecordDispute, TypeOK
    <3>. QED
      BY <1>4, <2>2, <3>1, <3>2, <3>3 DEF CompleteVerification, TypeOK
  <2>. QED
    BY <2>1, <2>2
<1>5. CASE CancelTask(c, id)
  BY <1>5, RefundType, ListingType DEF CancelTask, TypeOK
<1>6. CASE EscalateUnjudged(c, id)
  <2>1. tasks' \in [TaskId -> Task] /\ hTask' \in [TaskId -> TaskHistory]
    <3>1. /\ tasks' = [tasks EXCEPT ![id] = [@ EXCEPT !.status = "Disputed", !.disputedAt = now]]
          /\ hTask' = [hTask EXCEPT ![id] = [@ EXCEPT !.disputed = activeTime]]
      BY <1>6 DEF EscalateUnjudged
    <3>2. tasks' \in [TaskId -> Task]
      BY <3>1, DisputedTaskType
    <3>3. hTask' \in [TaskId -> TaskHistory]
      BY <3>1, DisputedHistoryType
    <3>. QED
      BY <3>2, <3>3
  <2>. QED
    BY <1>6, <2>1 DEF EscalateUnjudged, TypeOK
<1>7. CASE RefundTimeout(c, id)
  BY <1>7, RefundType DEF RefundTimeout, TypeOK
<1>8. CASE RaiseDispute(c, id)
  <2>1. tasks' \in [TaskId -> Task] /\ hTask' \in [TaskId -> TaskHistory]
    <3>1. /\ tasks' = [tasks EXCEPT ![id] = [@ EXCEPT !.status = "Disputed", !.disputedAt = now]]
          /\ hTask' = [hTask EXCEPT ![id] = [@ EXCEPT !.disputed = activeTime]]
      BY <1>8 DEF RaiseDispute
    <3>2. tasks' \in [TaskId -> Task]
      BY <3>1, DisputedTaskType
    <3>3. hTask' \in [TaskId -> TaskHistory]
      BY <3>1, DisputedHistoryType
    <3>. QED
      BY <3>2, <3>3
  <2>. QED
    BY <1>8, <2>1 DEF RaiseDispute, TypeOK
<1>9. ASSUME NEW workerFavored \in BOOLEAN, ResolveDispute(c, id, workerFavored)
      PROVE  TypeOK'
  <2>1. CASE workerFavored
    <3>1. PayWorker(c, id, tasks[id], 3) /\ tasks[id] \in Task
      BY <1>1, <1>9, <2>1 DEF ResolveDispute
    <3>. QED
      BY <1>9, <3>1, PayWorkerType DEF ResolveDispute, TypeOK
  <2>2. CASE ~workerFavored
    <3>1. Refund(c, id) /\ RecordDispute(id)
      BY <1>9, <2>2 DEF ResolveDispute
    <3>2. disputeRecords' \in [TaskId -> Nat] /\ UNCHANGED <<reputationUp, rating>>
      BY <3>1 DEF RecordDispute, TypeOK
    <3>. QED
      BY <1>9, <3>1, <3>2, RefundType DEF ResolveDispute, TypeOK
  <2>. QED
    BY <2>1, <2>2
<1>10. CASE ReleaseUnjudgedWork(c, id)
  <2>1. PayWorker(c, id, tasks[id], 0) /\ tasks[id] \in Task
    BY <1>1, <1>10 DEF ReleaseUnjudgedWork
  <2>. QED
    BY <1>10, <2>1, PayWorkerType DEF ReleaseUnjudgedWork, TypeOK
<1>. QED
  BY <1>2, <1>3, <1>4, <1>5, <1>6, <1>7, <1>8, <1>9, <1>10, AddressAssumption
     DEF WorkerLifecycleCall, AssignWorker, MarketplaceAssign,
         CompleteVerificationWithTEE, ClaimTimeout

LEMMA PickWinnerType ==
  ASSUME TypeOK, NEW c \in Address, NEW id \in TaskId, NEW winner \in Address,
         NEW judge \in Judge, PickWinner(c, id, winner, judge)
  PROVE  TypeOK'
<1>. USE DEF clockVars, pauseVars, configVars, verdictVars, createVars, openVars,
            moneyVars, registryVars, reputationVars
<1>. DEFINE t == [tasks[id] EXCEPT !.worker = winner, !.evidenceHash = submissionOf[id][winner]]
            score == IF EarnsRating(t, PlatformFee(t.amount), judge \in {"Creator", "TaskVerifier"})
                     THEN 5 ELSE 0
<1>1. t \in Task
  <2>1. tasks[id] \in Task /\ submissionOf[id][winner] \in Hash \cup {NoHash} /\ winner \in Account
    BY DEF TypeOK, Account
  <2>. QED
    BY <2>1 DEF Task
<1>2. score \in 0..5
  OBVIOUS
<1>3. PayWorker(c, id, t, score)
  BY DEF PickWinner
<1>4. openTasks' \in [TaskId -> OpenTask]
  BY ZenonT(60) DEF PickWinner, TypeOK, OpenTask
<1>. HIDE DEF t, score
<1>. QED
  BY <1>1, <1>2, <1>3, <1>4, PayWorkerType, ListingType DEF PickWinner, TypeOK

LEMMA CloseWithoutWinnerType ==
  ASSUME TypeOK, NEW c \in Address, NEW id \in TaskId, NEW judge \in Judge,
         CloseWithoutWinner(c, id, judge)
  PROVE  TypeOK'
<1>. USE DEF clockVars, pauseVars, configVars, verdictVars, createVars, openVars,
            moneyVars, registryVars, reputationVars
<1>1. openTasks' \in [TaskId -> OpenTask]
  BY ZenonT(60) DEF CloseWithoutWinner, TypeOK, OpenTask
<1>. QED
  BY <1>1, RefundType, ListingType DEF CloseWithoutWinner, TypeOK

LEMMA OpenSubmissionType ==
  ASSUME TypeOK, NEW c \in Address, NEW id \in TaskId, OpenSubmissionCall(c, id)
  PROVE  TypeOK'
<1>. USE DEF Judge
<1>1. ASSUME NEW hash \in Hash, SubmitOpen(c, id, hash)
      PROVE  TypeOK'
  <2>1. /\ submissionOf' = [submissionOf EXCEPT ![id] = [@ EXCEPT ![c] = hash]]
        /\ submissionCount' = [submissionCount EXCEPT ![id] = @ + 1]
    BY <1>1 DEF SubmitOpen
  <2>2. /\ submissionOf' \in [TaskId -> [Address -> Hash \cup {NoHash}]]
        /\ submissionCount' \in [TaskId -> Nat]
    BY <2>1 DEF TypeOK
  <2>. QED
    BY <1>1, <2>2 DEF SubmitOpen, TypeOK, clockVars, pauseVars, configVars, verdictVars,
       createVars, moneyVars, registryVars, reputationVars
<1>2. ASSUME NEW winner \in Address,
             \/ SelectWinner(c, id, winner)
             \/ SelectWinnerByVerifier(c, id, winner)
             \/ SelectWinnerByBackup(c, id, winner)
      PROVE  TypeOK'
  BY <1>2, PickWinnerType DEF SelectWinner, SelectWinnerByVerifier, SelectWinnerByBackup
<1>3. CASE VoidOpenTask(c, id)
  BY <1>3, CloseWithoutWinnerType DEF VoidOpenTask
<1>4. ASSUME NEW winner \in Account, ResolveOpenTask(c, id, winner)
      PROVE  TypeOK'
  BY <1>4, PickWinnerType, CloseWithoutWinnerType DEF ResolveOpenTask, Account
<1>. QED
  BY <1>1, <1>2, <1>3, <1>4 DEF OpenSubmissionCall

LEMMA AdminType ==
  ASSUME TypeOK, NEW c \in Address, AdminCall(c)
  PROVE  TypeOK'
<1>. USE DEF taskStateVars, clockVars, pauseVars, configVars, verdictVars, createVars,
            openVars, moneyVars, registryVars, reputationVars
<1>1. CASE Configure(c)
  <2>1. UNCHANGED <<clockVars, pauseVars, taskStateVars>>
    BY <1>1 DEF Configure
  <2>2. /\ admin' \in Address /\ pendingAdmin' \in Account
        /\ treasury' \in Address /\ verifier' \in Address /\ teeSigner' \in Account
        /\ feeBps' \in 0..MAX_FEE_BPS
        /\ allowedTokens' \in [Token -> BOOLEAN] /\ minRatedAmount' \in [Token -> Nat]
        /\ reputationContract' \in BOOLEAN /\ taskRegistry' \in BOOLEAN
    <3>. USE AddressAssumption, NumberAssumption DEF TypeOK
    <3>1. ASSUME NEW a \in Admins, ProposeAdmin(c, a) PROVE <2>2
      BY <3>1 DEF ProposeAdmin, Account
    <3>2. CASE AcceptAdmin(c)
      BY <3>2 DEF AcceptAdmin, Account
    <3>3. ASSUME NEW a \in Treasuries, SetTreasury(c, a) PROVE <2>2
      BY <3>3 DEF SetTreasury
    <3>4. ASSUME NEW a \in Verifiers, SetVerifier(c, a) PROVE <2>2
      BY <3>4 DEF SetVerifier
    <3>5. ASSUME NEW a \in TeeSigners, SetTeeSigner(c, a) PROVE <2>2
      BY <3>5 DEF SetTeeSigner
    <3>6. ASSUME NEW fee \in Fees, SetFeeBps(c, fee) PROVE <2>2
      BY <3>6 DEF SetFeeBps
    <3>7. ASSUME NEW token \in Token, NEW amount \in MinRatedAmounts,
                 SetMinRatedAmount(c, token, amount) PROVE <2>2
      BY <3>7 DEF SetMinRatedAmount
    <3>8. ASSUME NEW token \in Token, NEW allowed \in BOOLEAN,
                 SetTokenAllowed(c, token, allowed) PROVE <2>2
      BY <3>8 DEF SetTokenAllowed
    <3>9. ASSUME NEW on \in Switches, SetReputationContract(c, on) \/ SetTaskRegistry(c, on)
          PROVE <2>2
      BY <3>9 DEF SetReputationContract, SetTaskRegistry
    <3>. QED
      BY <1>1, <3>1, <3>2, <3>3, <3>4, <3>5, <3>6, <3>7, <3>8, <3>9 DEF Configure
  <2>. QED
    BY <2>1, <2>2 DEF TypeOK
<1>2. CASE Pause(c)
  BY <1>2 DEF Pause, TypeOK
<1>3. CASE Unpause(c)
  <2>1. PausedSeconds \in Nat
    <3>1. now \in Nat /\ pausedSince \in 0..now /\ pausedTotal \in Nat
      BY DEF TypeOK
    <3>. QED
      BY <3>1 DEF PausedSeconds
  <2>2. /\ paused' \in BOOLEAN /\ pausedSince' \in 0..now' /\ pausedTotal' \in Nat
        /\ UNCHANGED <<clockVars, configVars, taskStateVars>>
    <3>1. now \in Nat
      BY DEF TypeOK
    <3>2. /\ paused' = FALSE /\ pausedSince' = 0 /\ pausedTotal' = PausedSeconds
          /\ UNCHANGED <<clockVars, configVars, taskStateVars>>
      BY <1>3 DEF Unpause
    <3>3. now' = now
      BY <3>2
    <3>4. pausedSince' \in 0..now' /\ pausedTotal' \in Nat
      BY <2>1, <3>1, <3>2, <3>3
    <3>5. paused' \in BOOLEAN
      BY <3>2
    <3>. QED
      BY <3>2, <3>4, <3>5
  <2>. QED
    BY <2>2 DEF TypeOK
<1>4. ASSUME NEW pausedAt \in 1..now, RecordPauseStart(c, pausedAt)
      PROVE  TypeOK'
  BY <1>4 DEF RecordPauseStart, TypeOK
<1>. QED
  BY <1>1, <1>2, <1>3, <1>4 DEF AdminCall

LEMMA InitType == Init => TypeOK
<1>. SUFFICES ASSUME Init PROVE TypeOK
  OBVIOUS
<1>0. InitCommon
  BY DEF Init, Initialized, Upgraded
<1>1. /\ paused \in BOOLEAN /\ now \in Nat \ {0} /\ activeTime \in Nat
      /\ allowedTokens \in [Token -> BOOLEAN]
      /\ nextTaskId \in 1..(MaxTasks + 1)
  <2>1. CASE Initialized
    <3>1. MaxTasks \in Nat \ {0}
      BY NumberAssumption
    <3>2. /\ now = 1 /\ activeTime = 1 /\ paused = FALSE /\ nextTaskId = 1
          /\ allowedTokens = [token \in Token |-> FALSE]
      BY <2>1 DEF Initialized
    <3>3. now \in Nat \ {0} /\ activeTime \in Nat /\ nextTaskId \in 1..(MaxTasks + 1)
      BY <3>1, <3>2
    <3>4. paused \in BOOLEAN /\ allowedTokens \in [Token -> BOOLEAN]
      BY <3>2
    <3>. QED
      BY <3>3, <3>4
  <2>2. CASE Upgraded
    <3>1. 1 + MIN_DEADLINE \in Nat \ {0} /\ MaxTasks \in Nat \ {0}
      BY NumberAssumption
    <3>2. /\ now = 1 + MIN_DEADLINE /\ activeTime = 1 + MIN_DEADLINE /\ paused \in BOOLEAN
          /\ allowedTokens = [token \in Token |-> TRUE] /\ nextTaskId = 2
      BY <2>2 DEF Upgraded
    <3>. QED
      BY <3>1, <3>2
  <2>. QED
    BY <2>1, <2>2 DEF Init
<1>2. /\ pausedSince \in 0..now /\ pausedTotal \in Nat
      /\ admin \in Address /\ pendingAdmin \in Account
      /\ treasury \in Address /\ verifier \in Address /\ teeSigner \in Account
      /\ feeBps \in 0..MAX_FEE_BPS /\ minRatedAmount \in [Token -> Nat]
      /\ reputationContract \in BOOLEAN /\ taskRegistry \in BOOLEAN
  <2>1. 1000 \in 0..MAX_FEE_BPS
    BY NumberAssumption
  <2>2. /\ pausedSince = 0 /\ pausedTotal = 0
        /\ admin = Deployer /\ pendingAdmin = NoAddr
        /\ treasury = Treasury0 /\ verifier = Verifier0 /\ feeBps = 1000
        /\ minRatedAmount = [token \in Token |-> 0]
        /\ teeSigner = NoAddr /\ reputationContract = FALSE /\ taskRegistry = FALSE
    BY <1>0 DEF InitCommon
  <2>3. /\ Deployer \in Address /\ Treasury0 \in Address /\ Verifier0 \in Address
        /\ NoAddr \in Account
    BY AddressAssumption DEF Account
  <2>4. pausedSince \in 0..now /\ pausedTotal \in Nat /\ feeBps \in 0..MAX_FEE_BPS
    BY <1>1, <2>1, <2>2
  <2>. QED
    BY <2>2, <2>3, <2>4
<1>3. /\ taskVerifier \in [TaskId -> Account]
      /\ failedVerdictAt \in [TaskId -> Nat]
      /\ unjudgedEscalation \in [TaskId -> BOOLEAN]
      /\ pausedTotalAtCreate \in [TaskId -> Nat]
      /\ submissionCount \in [TaskId -> Nat]
      /\ submissionOf \in [TaskId -> [Address -> Hash \cup {NoHash}]]
      /\ registryUp \in BOOLEAN /\ listing \in [TaskId -> {"none", "open", "closed"}]
      /\ reputationUp \in BOOLEAN /\ rating \in [TaskId -> 0..5]
      /\ disputeRecords \in [TaskId -> Nat]
  BY <1>0 DEF InitCommon, Account
<1>4. openTasks \in [TaskId -> OpenTask] /\ hPayout \in [TaskId -> Payout]
  <2>1. ClosedToOpen \in OpenTask
    BY DEF ClosedToOpen, OpenTask, PickMode, Judge
  <2>2. NoPayout \in Payout
    BY DEF NoPayout, Payout
  <2>. QED
    BY <1>0, <2>1, <2>2 DEF InitCommon
<1>5. ZeroTask \in Task /\ NoHistory \in TaskHistory
  <2>1. NativeToken \in Token /\ NoAddr \in Account /\ "Funded" \in Status
    BY AddressAssumption DEF Account, Status
  <2>2. ZeroTask \in Task
    BY <2>1 DEF ZeroTask, Task
  <2>. QED
    BY <2>1, <2>2 DEF NoHistory, TaskHistory
<1>6. tasks \in [TaskId -> Task] /\ hTask \in [TaskId -> TaskHistory]
  <2>1. CASE Initialized
    BY <1>5, <2>1 DEF Initialized
  <2>2. CASE Upgraded
    <3>1. PICK agent \in Posters, worker \in Workers, token \in Token, amount \in Amount \ {0},
               hash \in Hash, duration \in Duration \cap MIN_DEADLINE..MAX_DEADLINE,
               status \in LegacyStatus :
             UpgradedWith(LegacyTask(agent, worker, token, amount, hash, duration, status))
      BY <2>2 DEF Upgraded
    <3>. DEFINE t == LegacyTask(agent, worker, token, amount, hash, duration, status)
    <3>2. t \in Task
      <4>. DEFINE aWorker == IF status = "Funded" THEN NoAddr ELSE worker
                  aHash == IF status \notin {"Funded", "Assigned"} THEN hash ELSE NoHash
                  attempts == IF status \notin {"Funded", "Assigned"} THEN 1 ELSE 0
      <4>1. /\ agent \in Account /\ aWorker \in Account /\ aHash \in Hash \cup {NoHash}
            /\ amount \in Nat /\ status \in Status /\ 1 + duration \in Nat /\ attempts \in Nat
        <5>1. agent \in Account /\ aWorker \in Account /\ aHash \in Hash \cup {NoHash}
          BY AddressAssumption DEF Account
        <5>2. amount \in Nat /\ 1 + duration \in Nat /\ attempts \in Nat
          BY NumberAssumption
        <5>3. status \in Status
          BY AddressAssumption
        <5>. QED
          BY <5>1, <5>2, <5>3
      <4>2. t = [agent |-> agent, worker |-> aWorker, token |-> token, amount |-> amount,
                 evidenceHash |-> aHash, status |-> status, createdAt |-> 1,
                 deadline |-> 1 + duration, submissionAttempts |-> attempts, disputedAt |-> 0]
        BY DEF LegacyTask
      <4>. HIDE DEF aWorker, aHash, attempts, t
      <4>. QED
        BY <4>1, <4>2 DEF Task
    <3>. HIDE DEF t
    <3>3. [NoHistory EXCEPT !.created = 1, !.legacy = TRUE,
                            !.judged = t.status = "Verified"] \in TaskHistory
      BY AddressAssumption DEF NoHistory, TaskHistory, Account
    <3>4. UpgradedWith(t)
      BY <3>1 DEF t
    <3>. QED
      BY <1>5, <3>2, <3>3, <3>4 DEF UpgradedWith
  <2>. QED
    BY <2>1, <2>2 DEF Init
<1>. QED
  BY <1>1, <1>2, <1>3, <1>4, <1>6 DEF TypeOK

LEMMA StepType == TypeOK /\ [Next]_vars => TypeOK'
<1>. SUFFICES ASSUME TypeOK, [Next]_vars PROVE TypeOK'
  OBVIOUS
<1>. USE DEF vars, taskStateVars, clockVars, pauseVars, configVars, verdictVars, createVars,
            openVars, moneyVars, registryVars, reputationVars
<1>1. ASSUME NEW c \in Posters, PosterCall(c) PROVE TypeOK'
  BY <1>1, PosterCallType, AddressAssumption
<1>2. ASSUME NEW c \in Address, NEW id \in TaskId,
             WorkerLifecycleCall(c, id) \/ OpenSubmissionCall(c, id) PROVE TypeOK'
  BY <1>2, WorkerLifecycleType, OpenSubmissionType
<1>3. ASSUME NEW c \in Address, AdminCall(c) PROVE TypeOK'
  BY <1>3, AdminType
<1>4. CASE Tick
  BY <1>4 DEF Tick, TypeOK
<1>5. CASE ExternalFault
  BY <1>5 DEF ExternalFault, TypeOK
<1>6. CASE UNCHANGED vars
  BY <1>6 DEF TypeOK
<1>. QED
  BY <1>1, <1>2, <1>3, <1>4, <1>5, <1>6 DEF Next

\* The state stays well typed; in particular no pause starts in the future, the
\* paused total never underflows and the fee never passes its hard cap.
THEOREM TypeCorrect == Spec => []TypeOK
  BY InitType, StepType, PTL DEF Spec

-----------------------------------------------------------------------------
(* The pause clock *)

\* What a task's clock is made of; only its creation writes it.
SameTerms ==
  \A id \in TaskId :
    /\ tasks'[id].agent = tasks[id].agent
    /\ tasks'[id].createdAt = tasks[id].createdAt
    /\ tasks'[id].deadline = tasks[id].deadline
    /\ tasks'[id].amount = tasks[id].amount
    /\ tasks'[id].token = tasks[id].token
    /\ hTask'[id].created = hTask[id].created
    /\ hTask'[id].legacy = hTask[id].legacy

\* The inductive invariant.  Two facts are added to the two properties: a pause
\* whose start is unknown (an upgrade in the middle of one) comes before any
\* other pause, and before any task of this implementation.
PauseInv ==
  /\ PauseAccounting
  /\ PauseNeutral
  /\ paused /\ pausedSince = 0 =>
       /\ pausedTotal = 0
       /\ \A id \in TaskId : Created(id) => hTask[id].legacy

-----------------------------------------------------------------------------
(* Frames: calls on an existing task leave its clock alone *)

LEMMA PayWorkerTerms ==
  ASSUME TypeOK, NEW c \in Address, NEW id \in TaskId, NEW t \in Task, NEW score,
         t.agent = tasks[id].agent, t.createdAt = tasks[id].createdAt,
         t.deadline = tasks[id].deadline, t.amount = tasks[id].amount,
         t.token = tasks[id].token, PayWorker(c, id, t, score)
  PROVE  SameTerms
<1>1. /\ tasks' = [tasks EXCEPT ![id] = [t EXCEPT !.status = "Completed"]]
      /\ hTask' = [hTask EXCEPT ![id] = [@ EXCEPT !.settledBy = c, !.settled = activeTime]]
  BY DEF PayWorker
<1>2. tasks \in [TaskId -> Task] /\ hTask \in [TaskId -> TaskHistory]
  BY DEF TypeOK
<1>. QED
  BY <1>1, <1>2 DEF SameTerms, Task, TaskHistory

LEMMA RefundTerms ==
  ASSUME TypeOK, NEW c \in Address, NEW id \in TaskId, Refund(c, id)
  PROVE  SameTerms
<1>1. /\ tasks' = [tasks EXCEPT ![id] = [@ EXCEPT !.status = "Cancelled"]]
      /\ hTask' = [hTask EXCEPT ![id] = [@ EXCEPT !.settledBy = c, !.settled = activeTime]]
  BY DEF Refund
<1>2. tasks \in [TaskId -> Task] /\ hTask \in [TaskId -> TaskHistory]
  BY DEF TypeOK
<1>. QED
  BY <1>1, <1>2 DEF SameTerms, Task, TaskHistory

LEMMA WorkerLifecycleTerms ==
  ASSUME TypeOK, NEW c \in Address, NEW id \in TaskId, WorkerLifecycleCall(c, id)
  PROVE  SameTerms /\ UNCHANGED <<clockVars, pauseVars, createVars>>
<1>1. tasks \in [TaskId -> Task] /\ hTask \in [TaskId -> TaskHistory] /\ tasks[id] \in Task
  BY DEF TypeOK
<1>. DEFINE Goal == SameTerms /\ UNCHANGED <<clockVars, pauseVars, createVars>>
<1>2. ASSUME NEW worker, Assign(id, worker) PROVE Goal
  <2>1. tasks' = [tasks EXCEPT ![id] = [@ EXCEPT !.worker = worker, !.status = "Assigned"]]
        /\ hTask' = hTask
    BY <1>2 DEF Assign
  <2>. QED
    BY <1>1, <1>2, <2>1 DEF Assign, SameTerms, Task
<1>3. ASSUME NEW hash, SubmitEvidence(c, id, hash) PROVE Goal
  <2>1. /\ tasks' = [tasks EXCEPT ![id] = [@ EXCEPT
             !.evidenceHash = hash, !.status = "Submitted",
             !.submissionAttempts = tasks[id].submissionAttempts + 1]]
        /\ hTask' = [hTask EXCEPT ![id] = [@ EXCEPT !.judged = FALSE]]
    BY <1>3 DEF SubmitEvidence
  <2>. QED
    BY <1>1, <1>3, <2>1 DEF SubmitEvidence, SameTerms, Task, TaskHistory
<1>4. ASSUME NEW passed \in BOOLEAN, CompleteVerification(c, id, passed) PROVE Goal
  <2>1. CASE passed
    BY <1>1, <1>4, <2>1, PayWorkerTerms DEF CompleteVerification
  <2>2. CASE ~passed
    <3>1. /\ tasks' = [tasks EXCEPT ![id] = [@ EXCEPT !.status = "Verified"]]
          /\ hTask' = [hTask EXCEPT ![id] = [@ EXCEPT !.failed = activeTime, !.judged = TRUE]]
      BY <1>4, <2>2 DEF CompleteVerification
    <3>. QED
      BY <1>1, <1>4, <2>2, <3>1 DEF CompleteVerification, SameTerms, Task, TaskHistory
  <2>. QED
    BY <2>1, <2>2
<1>5. CASE CancelTask(c, id)
  BY <1>5, RefundTerms DEF CancelTask
<1>6. CASE EscalateUnjudged(c, id) \/ RaiseDispute(c, id)
  <2>1. /\ tasks' = [tasks EXCEPT ![id] = [@ EXCEPT !.status = "Disputed", !.disputedAt = now]]
        /\ hTask' = [hTask EXCEPT ![id] = [@ EXCEPT !.disputed = activeTime]]
        /\ UNCHANGED <<clockVars, pauseVars, createVars>>
    BY <1>6 DEF EscalateUnjudged, RaiseDispute
  <2>. QED
    BY <1>1, <2>1 DEF SameTerms, Task, TaskHistory
<1>7. CASE RefundTimeout(c, id)
  BY <1>7, RefundTerms DEF RefundTimeout
<1>8. ASSUME NEW workerFavored \in BOOLEAN, ResolveDispute(c, id, workerFavored) PROVE Goal
  BY <1>1, <1>8, PayWorkerTerms, RefundTerms DEF ResolveDispute
<1>9. CASE ReleaseUnjudgedWork(c, id)
  BY <1>1, <1>9, PayWorkerTerms DEF ReleaseUnjudgedWork
<1>. QED
  BY <1>2, <1>3, <1>4, <1>5, <1>6, <1>7, <1>8, <1>9
     DEF WorkerLifecycleCall, AssignWorker, MarketplaceAssign,
         CompleteVerificationWithTEE, ClaimTimeout

LEMMA OpenSubmissionTerms ==
  ASSUME TypeOK, NEW c \in Address, NEW id \in TaskId, OpenSubmissionCall(c, id)
  PROVE  SameTerms /\ UNCHANGED <<clockVars, pauseVars, createVars>>
<1>. DEFINE Goal == SameTerms /\ UNCHANGED <<clockVars, pauseVars, createVars>>
<1>1. ASSUME NEW hash, SubmitOpen(c, id, hash) PROVE Goal
  BY <1>1 DEF SubmitOpen, SameTerms
<1>2. ASSUME NEW winner \in Address, NEW judge, PickWinner(c, id, winner, judge) PROVE Goal
  <2>. DEFINE t == [tasks[id] EXCEPT !.worker = winner, !.evidenceHash = submissionOf[id][winner]]
  <2>1. /\ t \in Task
        /\ t.agent = tasks[id].agent /\ t.createdAt = tasks[id].createdAt
        /\ t.deadline = tasks[id].deadline /\ t.amount = tasks[id].amount
        /\ t.token = tasks[id].token
    <3>1. tasks[id] \in Task /\ submissionOf[id][winner] \in Hash \cup {NoHash} /\ winner \in Account
      BY DEF TypeOK, Account
    <3>. QED
      BY <3>1 DEF Task
  <2>2. PICK score : PayWorker(c, id, t, score)
    BY <1>2 DEF PickWinner
  <2>. HIDE DEF t
  <2>. QED
    BY <1>2, <2>1, <2>2, PayWorkerTerms DEF PickWinner
<1>3. ASSUME NEW judge, CloseWithoutWinner(c, id, judge) PROVE Goal
  BY <1>3, RefundTerms DEF CloseWithoutWinner
<1>. QED
  BY <1>1, <1>2, <1>3
     DEF OpenSubmissionCall, SelectWinner, SelectWinnerByVerifier, SelectWinnerByBackup,
         VoidOpenTask, ResolveOpenTask, Account

-----------------------------------------------------------------------------
(* Every step keeps the pause clock *)

LEMMA SameClock ==
  ASSUME TypeOK, PauseInv, SameTerms,
         UNCHANGED <<clockVars, pauseVars, pausedTotalAtCreate>>
  PROVE  PauseInv'
<1>. USE DEF clockVars, pauseVars
<1>1. PausedSeconds' = PausedSeconds
  BY DEF PausedSeconds
<1>2. \A id \in TaskId : PauseExtension(id)' = PauseExtension(id)
  BY <1>1 DEF PauseExtension
<1>3. PauseAccounting'
  BY <1>1 DEF PauseInv, PauseAccounting
<1>4. PauseNeutral'
  BY <1>2 DEF PauseInv, PauseNeutral, SameTerms, Created
<1>. QED
  BY <1>3, <1>4 DEF PauseInv, SameTerms, Created

LEMMA CreateClock ==
  ASSUME TypeOK, PauseInv, NEW c \in Address, NEW token \in Token,
         NEW inputs \in Seq(TaskInput), NEW open \in OpenTask,
         RecordTasks(c, token, inputs, open)
  PROVE  PauseInv'
<1>. DEFINE ids == nextTaskId..(nextTaskId + Len(inputs) - 1)
<1>1. /\ UNCHANGED <<clockVars, pauseVars>> /\ ~paused
      /\ pausedTotalAtCreate' = [id \in TaskId |->
             IF id \in ids THEN pausedTotal ELSE pausedTotalAtCreate[id]]
      /\ hTask' = [id \in TaskId |->
             IF id \in ids THEN [NoHistory EXCEPT !.created = activeTime] ELSE hTask[id]]
  BY DEF RecordTasks
<1>2. \A id \in TaskId :
        IF id \in ids THEN tasks'[id].createdAt = now ELSE tasks'[id] = tasks[id]
  BY DEF RecordTasks, ZeroTask
<1>. HIDE DEF ids
<1>3. /\ now \in Nat /\ activeTime \in Nat /\ pausedTotal \in Nat /\ pausedSince = 0
      /\ UNCHANGED <<now, activeTime, paused, pausedSince, pausedTotal>>
  BY <1>1 DEF TypeOK, PauseInv, PauseAccounting, clockVars, pauseVars
<1>4. PausedSeconds = pausedTotal /\ PausedSeconds' = pausedTotal
  BY <1>3 DEF PausedSeconds
<1>5. PauseAccounting'
  BY <1>1, <1>3, <1>4 DEF PauseInv, PauseAccounting
<1>6. PauseNeutral'
  <2>. SUFFICES ASSUME NEW id \in TaskId, Created(id)', ~hTask'[id].legacy
                PROVE  now' - PauseExtension(id)' - tasks'[id].createdAt
                         = activeTime' - hTask'[id].created
    BY DEF PauseNeutral
  <2>1. CASE id \in ids
    <3>1. PauseExtension(id)' = 0
      BY <1>1, <1>3, <1>4, <2>1 DEF PauseExtension
    <3>2. tasks'[id].createdAt = now /\ hTask'[id].created = activeTime
      BY <1>1, <1>2, <2>1 DEF NoHistory
    <3>. QED
      BY <1>3, <3>1, <3>2
  <2>2. CASE id \notin ids
    <3>1. /\ PauseExtension(id)' = PauseExtension(id)
          /\ tasks'[id] = tasks[id] /\ hTask'[id] = hTask[id]
      BY <1>1, <1>2, <1>4, <2>2 DEF PauseExtension
    <3>. QED
      BY <1>3, <3>1 DEF PauseInv, PauseNeutral, Created
  <2>. QED
    BY <2>1, <2>2
<1>. QED
  BY <1>1, <1>3, <1>5, <1>6 DEF PauseInv

-----------------------------------------------------------------------------
(* The clock and the pause themselves *)

LEMMA TickClock ==
  ASSUME TypeOK, PauseInv, Tick
  PROVE  PauseInv'
<1>1. /\ now \in Nat /\ activeTime \in Nat /\ pausedTotal \in Nat /\ pausedSince \in 0..now
      /\ pausedTotalAtCreate \in [TaskId -> Nat] /\ tasks \in [TaskId -> Task]
      /\ hTask \in [TaskId -> TaskHistory]
  BY DEF TypeOK
<1>2. /\ now' = now + 1
      /\ activeTime' = IF paused THEN activeTime ELSE activeTime + 1
      /\ UNCHANGED <<paused, pausedSince, pausedTotal, pausedTotalAtCreate, tasks, hTask>>
  BY DEF Tick, taskStateVars, pauseVars, createVars
<1>3. PausedSeconds' = IF pausedSince # 0 THEN PausedSeconds + 1 ELSE PausedSeconds
  BY <1>1, <1>2 DEF PausedSeconds
<1>4. PausedSeconds \in Int
  BY <1>1 DEF PausedSeconds
<1>5. PauseAccounting'
  BY <1>1, <1>2, <1>3, <1>4 DEF PauseInv, PauseAccounting
<1>6. PauseNeutral'
  <2>. SUFFICES ASSUME NEW id \in TaskId, Created(id), ~hTask[id].legacy
                PROVE  now' - PauseExtension(id)' - tasks[id].createdAt
                         = activeTime' - hTask[id].created
    BY <1>2 DEF PauseNeutral, Created
  <2>1. now - PauseExtension(id) - tasks[id].createdAt = activeTime - hTask[id].created
    BY DEF PauseInv, PauseNeutral
  <2>2. /\ tasks[id].createdAt \in Nat /\ hTask[id].created \in Nat
        /\ pausedTotalAtCreate[id] \in Nat
    BY <1>1 DEF Task, TaskHistory
  <2>3. paused <=> pausedSince # 0
    BY DEF PauseInv, PauseAccounting
  <2>. QED
    BY <1>1, <1>2, <1>3, <1>4, <2>1, <2>2, <2>3 DEF PauseExtension
<1>. QED
  BY <1>2, <1>5, <1>6 DEF PauseInv, Created

LEMMA PausingClock ==
  ASSUME TypeOK, PauseInv, NEW c \in Address,
         \/ Pause(c) \/ Unpause(c)
         \/ \E pausedAt \in 1..now : RecordPauseStart(c, pausedAt)
  PROVE  PauseInv'
<1>1. /\ now \in Nat \ {0} /\ pausedTotal \in Nat /\ pausedSince \in 0..now
  BY DEF TypeOK
<1>2. UNCHANGED <<now, activeTime, tasks, hTask, pausedTotalAtCreate>>
  BY DEF Pause, Unpause, RecordPauseStart, taskStateVars, clockVars, createVars
<1>3. CASE Pause(c) \/ Unpause(c)
  <2>1. PausedSeconds' = PausedSeconds /\ (paused' /\ pausedSince' = 0 => FALSE)
        /\ (~paused' => pausedSince' = 0) /\ pausedTotal' >= pausedTotal
    <3>1. CASE Pause(c)
      BY <1>1, <3>1 DEF Pause, PausedSeconds, PauseInv, PauseAccounting, clockVars
    <3>2. CASE Unpause(c)
      <4>1. paused' = FALSE /\ pausedSince' = 0 /\ pausedTotal' = PausedSeconds
        BY <3>2 DEF Unpause
      <4>2. PausedSeconds \in Nat /\ PausedSeconds >= pausedTotal
        BY <1>1 DEF PausedSeconds
      <4>3. PausedSeconds' = pausedTotal'
        BY <4>1 DEF PausedSeconds
      <4>. QED
        BY <4>1, <4>2, <4>3
    <3>. QED
      BY <1>3, <3>1, <3>2
  <2>2. \A id \in TaskId : PauseExtension(id)' = PauseExtension(id)
    BY <1>2, <2>1 DEF PauseExtension
  <2>3. PauseAccounting'
    <3>1. pausedTotal' \in Int
      BY <1>1, <1>3 DEF Pause, Unpause, PausedSeconds
    <3>. QED
      BY <1>1, <1>2, <2>1, <3>1 DEF PauseInv, PauseAccounting, TypeOK
  <2>4. PauseNeutral'
    BY <1>2, <2>2 DEF PauseInv, PauseNeutral, Created
  <2>. QED
    BY <2>1, <2>3, <2>4 DEF PauseInv
<1>4. ASSUME NEW pausedAt \in 1..now, RecordPauseStart(c, pausedAt) PROVE PauseInv'
  <2>1. /\ paused /\ paused' /\ pausedSince = 0 /\ pausedSince' = pausedAt
        /\ pausedTotal' = pausedTotal
    BY <1>4 DEF RecordPauseStart
  <2>2. pausedTotal = 0 /\ \A id \in TaskId : Created(id) => hTask[id].legacy
    BY <2>1 DEF PauseInv
  <2>3. PausedSeconds' = now - pausedAt
    BY <1>1, <1>2, <2>1, <2>2 DEF PausedSeconds
  <2>4. PauseAccounting'
    BY <1>1, <1>2, <2>1, <2>3 DEF PauseInv, PauseAccounting
  <2>5. PauseNeutral'
    BY <1>2, <2>2 DEF PauseNeutral, Created
  <2>. QED
    BY <2>1, <2>4, <2>5 DEF PauseInv
<1>. QED
  BY <1>3, <1>4

-----------------------------------------------------------------------------

LEMMA InitClock == Init => PauseInv
<1>. SUFFICES ASSUME Init PROVE PauseInv
  OBVIOUS
<1>1. /\ pausedSince = 0 /\ pausedTotal = 0 /\ pausedTotalAtCreate = [id \in TaskId |-> 0]
  BY DEF Init, Initialized, Upgraded, InitCommon
<1>2. PausedSeconds = 0
  BY <1>1 DEF PausedSeconds
<1>3. now \in Nat \ {0}
  BY InitType DEF TypeOK
<1>4. PauseAccounting
  BY <1>1, <1>2, <1>3 DEF PauseAccounting
<1>5. \A id \in TaskId : Created(id) => hTask[id].legacy
  <2>1. CASE Initialized
    BY <2>1 DEF Initialized, Created, ZeroTask
  <2>2. CASE Upgraded
    <3>1. PICK t : UpgradedWith(t)
      BY <2>2 DEF Upgraded
    <3>. QED
      BY <3>1 DEF UpgradedWith, Created, ZeroTask, NoHistory
  <2>. QED
    BY <2>1, <2>2 DEF Init
<1>. QED
  BY <1>1, <1>4, <1>5 DEF PauseInv, PauseNeutral

LEMMA StepClock == TypeOK /\ PauseInv /\ [Next]_vars => PauseInv'
<1>. SUFFICES ASSUME TypeOK, PauseInv, [Next]_vars PROVE PauseInv'
  OBVIOUS
<1>1. ASSUME NEW c \in Posters, PosterCall(c) PROVE PauseInv'
  BY <1>1, PosterCallRecords, CreateClock, AddressAssumption
<1>2. ASSUME NEW c \in Address, NEW id \in TaskId,
             WorkerLifecycleCall(c, id) \/ OpenSubmissionCall(c, id) PROVE PauseInv'
  BY <1>2, WorkerLifecycleTerms, OpenSubmissionTerms, SameClock DEF createVars
<1>3. ASSUME NEW c \in Address, AdminCall(c) PROVE PauseInv'
  <2>1. CASE Configure(c)
    <3>1. UNCHANGED <<clockVars, pauseVars, pausedTotalAtCreate, tasks, hTask>>
      BY <2>1 DEF Configure, taskStateVars, createVars
    <3>. QED
      BY <3>1, SameClock DEF SameTerms
  <2>. QED
    BY <1>3, <2>1, PausingClock DEF AdminCall
<1>4. CASE Tick
  BY <1>4, TickClock
<1>5. CASE ExternalFault \/ UNCHANGED vars
  <2>1. UNCHANGED <<clockVars, pauseVars, pausedTotalAtCreate, tasks, hTask>>
    BY <1>5 DEF ExternalFault, vars, createVars
  <2>. QED
    BY <2>1, SameClock DEF SameTerms
<1>. QED
  BY <1>1, <1>2, <1>3, <1>4, <1>5 DEF Next

LEMMA PauseInvariant == Spec => []PauseInv
  BY InitType, StepType, InitClock, StepClock, PTL DEF Spec

\* The pause total never passes the chain's clock nor falls behind what a task
\* started with, so no view or guard that subtracts them can underflow: neither
\* unpause nor recordPauseStart can break the accounting.
THEOREM PauseAccountingHolds == Spec => []PauseAccounting
<1>1. PauseInv => PauseAccounting
  BY DEF PauseInv
<1>. QED
  BY <1>1, PauseInvariant, PTL

\* Deadlines and windows run in unpaused time, to the second.
THEOREM PauseNeutralHolds == Spec => []PauseNeutral
<1>1. PauseInv => PauseNeutral
  BY DEF PauseInv
<1>. QED
  BY <1>1, PauseInvariant, PTL

=============================================================================
