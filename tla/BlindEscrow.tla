---------------------------- MODULE BlindEscrow ----------------------------
(***************************************************************************)
(* The escrow contract of BlindMarket (contracts/contracts/                *)
(* BlindEscrow.sol).  A poster locks a payment in a task; the payment      *)
(* leaves the escrow once, either to the worker (less the platform fee) or *)
(* back to the poster.  One action is one transaction: a call that reverts *)
(* is a step that is not taken.                                            *)
(*                                                                         *)
(* Storage keeps the contract's shape: a task that was never created is    *)
(* the all-zero struct, which reads as Funded with deadline 0, so the      *)
(* guards that keep callers away from it are the code's own.               *)
(*                                                                         *)
(* Abstracted data: strings, task hashes and scorecard hashes (stored and  *)
(* never read back by the contract), events, gas.  Tokens behave as plain  *)
(* ERC-20s (the whitelist's purpose): a transfer moves what it says.       *)
(*                                                                         *)
(* Variables named h... and activeTime are history: no guard reads them.   *)
(***************************************************************************)
EXTENDS Integers, Sequences

CONSTANTS
  Address,        \* accounts that can call the contract
  NoAddr,         \* address(0)
  Hash, NoHash,   \* evidence hashes, bytes32(0)
  Token,          \* payment tokens, NativeToken (address(0)) among them or not
  NativeToken,
  MaxTasks,       \* bound: task ids that can be created
  MaxBatch,       \* MAX_BATCH
  Amount,         \* amounts callers offer (0 included to exercise the guard)
  Duration,       \* durations callers ask for
  CreatorWindow,  \* creator windows callers ask for
  MIN_DEADLINE, MAX_DEADLINE,
  MIN_CREATOR_WINDOW, MAX_CREATOR_WINDOW,
  DISPUTE_WINDOW, APPEAL_WINDOW,
  VERIFIER_PICK_WINDOW, BACKUP_PICK_WINDOW,
  MAX_SUBMISSION_ATTEMPTS, MAX_FEE_BPS,
  MaxPaused,      \* bound: seconds the escrow may spend paused in all
  Posters,        \* bound: accounts that create tasks
  Workers,        \* bound: accounts offered as workers
  TaskVerifiers,  \* bound: values offered as per-task verifier (NoAddr: none)
  BatchSizes,     \* bound: sizes of the createTasks batches
  Deployer, Treasury0, Verifier0,   \* initialize's caller and arguments
  Admins, Treasuries, Verifiers, TeeSigners,   \* bound: arguments of the setters
  Fees, MinRatedAmounts, Disallowable, Switches,
  ExternalFaults, \* whether the registry and the reputation contract may fail
  LegacyStatus    \* statuses of a task found by an upgrade ({}: fresh deploy only)

TaskId == 1..MaxTasks
Bps == 10000
Status == {"Funded", "Assigned", "Submitted", "Verified",
           "Completed", "Cancelled", "Disputed"}
PickMode == {"AgentManaged", "CreatorReview"}
Judge == {"None", "Creator", "TaskVerifier", "Backup", "Admin"}
Account == Address \cup {NoAddr}

ASSUME AddressAssumption ==
  /\ NoAddr \notin Address
  /\ NoHash \notin Hash
  /\ NativeToken \in Token
  /\ {Deployer, Treasury0, Verifier0} \subseteq Address
  /\ Posters \cup Workers \subseteq Address
  /\ TaskVerifiers \subseteq Account
  /\ Admins \cup Treasuries \cup Verifiers \subseteq Address
  /\ TeeSigners \subseteq Account
  /\ Disallowable \subseteq Token
  /\ Switches \subseteq BOOLEAN
  /\ ExternalFaults \in BOOLEAN
  /\ LegacyStatus \subseteq Status \ {"Completed", "Cancelled"}

ASSUME NumberAssumption ==
  /\ MaxTasks \in Nat \ {0} /\ MaxBatch \in Nat \ {0} /\ MaxPaused \in Nat
  /\ Amount \subseteq Nat /\ Duration \subseteq Nat /\ CreatorWindow \subseteq Nat
  /\ BatchSizes \subseteq Nat /\ Fees \subseteq Nat /\ MinRatedAmounts \subseteq Nat
  /\ MIN_DEADLINE \in Nat \ {0} /\ MAX_DEADLINE \in Nat
  /\ MIN_CREATOR_WINDOW \in Nat \ {0} /\ MAX_CREATOR_WINDOW \in Nat
  /\ DISPUTE_WINDOW \in Nat \ {0} /\ APPEAL_WINDOW \in Nat \ {0}
  /\ VERIFIER_PICK_WINDOW \in Nat \ {0} /\ BACKUP_PICK_WINDOW \in Nat \ {0}
  /\ MAX_SUBMISSION_ATTEMPTS \in Nat \ {0}
  /\ MAX_FEE_BPS \in 0..Bps /\ 1000 <= MAX_FEE_BPS

VARIABLES
  now,                                   \* block.timestamp
  paused, pausedSince, pausedTotal,
  admin, pendingAdmin, treasury, verifier, feeBps, allowedTokens,
  minRatedAmount, teeSigner, reputationContract, taskRegistry,
  nextTaskId, tasks, taskVerifier, failedVerdictAt, unjudgedEscalation,
  pausedTotalAtCreate, openTasks, submissionCount, submissionOf,
  escrowBalance,                         \* the ERC-20 ledgers' row of the escrow
  registryUp, listing,                   \* the connected TaskRegistry
  reputationUp, rating, disputeRecords,  \* the connected BlindReputation
  activeTime, hPayout, hTask             \* history

clockVars   == <<now, activeTime>>
pauseVars   == <<paused, pausedSince, pausedTotal>>
configVars  == <<admin, pendingAdmin, treasury, verifier, feeBps, allowedTokens,
                 minRatedAmount, teeSigner, reputationContract, taskRegistry>>
verdictVars == <<failedVerdictAt, unjudgedEscalation>>
createVars  == <<nextTaskId, taskVerifier, pausedTotalAtCreate>>
openVars    == <<openTasks, submissionCount, submissionOf>>
moneyVars   == <<escrowBalance, hPayout>>
registryVars   == <<registryUp, listing>>
reputationVars == <<reputationUp, rating, disputeRecords>>
vars == <<clockVars, pauseVars, configVars, verdictVars, createVars, openVars,
          moneyVars, registryVars, reputationVars, tasks, hTask>>

-----------------------------------------------------------------------------
(* Storage *)

ZeroTask == [agent |-> NoAddr, worker |-> NoAddr, token |-> NativeToken,
             amount |-> 0, evidenceHash |-> NoHash, status |-> "Funded",
             createdAt |-> 0, deadline |-> 0, submissionAttempts |-> 0,
             disputedAt |-> 0]

Task == [agent : Account, worker : Account, token : Token, amount : Nat,
         evidenceHash : Hash \cup {NoHash}, status : Status, createdAt : Nat,
         deadline : Nat, submissionAttempts : Nat, disputedAt : Nat]

ClosedToOpen == [open |-> FALSE, mode |-> "AgentManaged",
                 creatorWindow |-> 0, closedBy |-> "None"]

OpenTask == [open : BOOLEAN, mode : PickMode, creatorWindow : Nat, closedBy : Judge]

NoPayout == [worker |-> 0, fee |-> 0, refund |-> 0]
Payout == [worker : Nat, fee : Nat, refund : Nat]

\* History of a task, in unpaused seconds (activeTime): when it was created,
\* last failed, last disputed, settled; whether its latest delivery was judged;
\* who made the call that settled it; whether an upgrade found it.
NoHistory == [created |-> 0, failed |-> 0, disputed |-> 0, settled |-> 0,
              judged |-> FALSE, settledBy |-> NoAddr, legacy |-> FALSE]
TaskHistory == [created : Nat, failed : Nat, disputed : Nat, settled : Nat,
                judged : BOOLEAN, settledBy : Account, legacy : BOOLEAN]

\* The task holds a payment: created and neither paid out nor refunded.
Holds(id) == tasks[id].agent # NoAddr /\ tasks[id].status \notin {"Completed", "Cancelled"}

\* What each task holds in a token.
Held(token) ==
  [id \in TaskId |-> IF Holds(id) /\ tasks[id].token = token THEN tasks[id].amount ELSE 0]

\* f[1] + ... + f[n]
Total(f, n) ==
  LET sum[k \in 0..n] == IF k = 0 THEN 0 ELSE sum[k - 1] + f[k]
  IN  sum[n]

-----------------------------------------------------------------------------
(* Views and internal functions *)

PausedSeconds == pausedTotal + (IF pausedSince # 0 THEN now - pausedSince ELSE 0)

\* mistake: pauses from before the task existed extend it too
PauseExtensionUnanchored(id) == PausedSeconds

PauseExtension(id) == PausedSeconds - pausedTotalAtCreate[id]

EffectiveDeadline(id) == tasks[id].deadline + PauseExtension(id)

\* mistake: the fee read as a percentage
PlatformFeePercent(amount) == (amount * feeBps) \div 100

PlatformFee(amount) == (amount * feeBps) \div Bps

\* mistake: the rating ignores who judged
EarnsRatingFromAnyJudge(t, fee, judgeChosenByPoster) ==
  fee > 0 /\ t.amount >= minRatedAmount[t.token]

EarnsRating(t, fee, judgeChosenByPoster) ==
  fee > 0 /\ t.amount >= minRatedAmount[t.token] /\ ~judgeChosenByPoster

PassScore(id) ==
  IF EarnsRating(tasks[id], PlatformFee(tasks[id].amount), taskVerifier[id] # NoAddr)
  THEN 5 ELSE 0

\* try reputationContract.rate(...): optional, once per (worker, task).
Rate(id, score) ==
  /\ rating' = IF /\ score # 0 /\ reputationContract
                  /\ reputationUp /\ rating[id] = 0
               THEN [rating EXCEPT ![id] = score] ELSE rating
  /\ UNCHANGED <<reputationUp, disputeRecords>>

\* try reputationContract.recordDispute(...)
RecordDispute(id) ==
  /\ disputeRecords' = IF reputationContract /\ reputationUp
                       THEN [disputeRecords EXCEPT ![id] = @ + 1] ELSE disputeRecords
  /\ UNCHANGED <<reputationUp, rating>>

\* try taskRegistry.publishTask(...), for each task of a transaction
AnnounceTasks(ids) ==
  /\ listing' = [id \in TaskId |->
                   IF id \in ids /\ taskRegistry /\ registryUp /\ listing[id] = "none"
                   THEN "open" ELSE listing[id]]
  /\ UNCHANGED registryUp

\* try taskRegistry.closeTask(...)
CloseListing(id) ==
  /\ listing' = IF taskRegistry /\ registryUp /\ listing[id] = "open"
                THEN [listing EXCEPT ![id] = "closed"] ELSE listing
  /\ UNCHANGED registryUp

\* The payment leaves the escrow, split between the task's worker and the
\* treasury; t is the task as the transaction has updated it so far.
PayWorker(c, id, t, score) ==
  LET fee == PlatformFee(t.amount) IN
  /\ tasks' = [tasks EXCEPT ![id] = [t EXCEPT !.status = "Completed"]]
  /\ escrowBalance' = [escrowBalance EXCEPT ![t.token] = @ - (t.amount - fee) - fee]
  /\ hPayout' = [hPayout EXCEPT ![id] =
                    [@ EXCEPT !.worker = hPayout[id].worker + (t.amount - fee),
                              !.fee = hPayout[id].fee + fee]]
  /\ hTask' = [hTask EXCEPT ![id] = [@ EXCEPT !.settledBy = c, !.settled = activeTime]]
  /\ Rate(id, score)

\* mistake: the refund leaves the status as it was
RefundUnmarked(c, id) ==
  LET t == tasks[id] IN
  /\ escrowBalance' = [escrowBalance EXCEPT ![t.token] = @ - t.amount]
  /\ hPayout' = [hPayout EXCEPT ![id] = [@ EXCEPT !.refund = hPayout[id].refund + t.amount]]
  /\ hTask' = [hTask EXCEPT ![id] = [@ EXCEPT !.settledBy = c, !.settled = activeTime]]
  /\ UNCHANGED tasks

\* The whole payment goes back to the poster.
Refund(c, id) ==
  LET t == tasks[id] IN
  /\ tasks' = [tasks EXCEPT ![id] = [@ EXCEPT !.status = "Cancelled"]]
  /\ escrowBalance' = [escrowBalance EXCEPT ![t.token] = @ - t.amount]
  /\ hPayout' = [hPayout EXCEPT ![id] = [@ EXCEPT !.refund = hPayout[id].refund + t.amount]]
  /\ hTask' = [hTask EXCEPT ![id] = [@ EXCEPT !.settledBy = c, !.settled = activeTime]]

\* mistake: each turn ends a second late
OpenPhaseLate(id) ==
  LET picks == EffectiveDeadline(id)
      creatorEnd == picks + openTasks[id].creatorWindow
      verifierEnd == creatorEnd + VERIFIER_PICK_WINDOW
      backupEnd == verifierEnd + BACKUP_PICK_WINDOW
  IN CASE ~openTasks[id].open -> "NotOpen"
       [] openTasks[id].open /\ tasks[id].status # "Funded" -> "Closed"
       [] OTHER -> IF now < picks THEN "Submissions"
                   ELSE IF now <= creatorEnd THEN "CreatorPick"
                   ELSE IF now <= verifierEnd THEN "VerifierPick"
                   ELSE IF now <= backupEnd THEN "BackupPick"
                   ELSE "AdminResolve"

OpenPhase(id) ==
  LET picks == EffectiveDeadline(id)
      creatorEnd == picks + openTasks[id].creatorWindow
      verifierEnd == creatorEnd + VERIFIER_PICK_WINDOW
      backupEnd == verifierEnd + BACKUP_PICK_WINDOW
  IN CASE ~openTasks[id].open -> "NotOpen"
       [] openTasks[id].open /\ tasks[id].status # "Funded" -> "Closed"
       [] OTHER -> IF now < picks THEN "Submissions"
                   ELSE IF now < creatorEnd THEN "CreatorPick"
                   ELSE IF now < verifierEnd THEN "VerifierPick"
                   ELSE IF now < backupEnd THEN "BackupPick"
                   ELSE "AdminResolve"

-----------------------------------------------------------------------------
(* Creating tasks *)

TaskInput == [amount : Amount, duration : Duration, verifierAgent : TaskVerifiers]

Recordable(c, token, in) ==
  /\ in.amount # 0
  /\ allowedTokens[token]
  /\ in.duration \in MIN_DEADLINE..MAX_DEADLINE
  /\ in.verifierAgent # c

\* mistake: the loop assigns the total instead of accumulating it
TotalAmountOfLast(inputs) == inputs[Len(inputs)].amount

TotalAmount(inputs) == Total([i \in 1..Len(inputs) |-> inputs[i].amount], Len(inputs))

\* _recordTask for every element of inputs, under consecutive ids, then one
\* pull of the total and the announcements.  open is the OpenTask of an open
\* task, ClosedToOpen for every other.
RecordTasks(c, token, inputs, open) ==
  LET first == nextTaskId
      ids   == first..(first + Len(inputs) - 1)
      in(id) == inputs[id - first + 1]
  IN
  /\ ~paused
  /\ ids \subseteq TaskId
  /\ \A id \in ids : Recordable(c, token, in(id))
  /\ nextTaskId' = first + Len(inputs)
  /\ tasks' = [id \in TaskId |->
                 IF id \in ids
                 THEN [ZeroTask EXCEPT !.agent = c, !.token = token,
                         !.amount = in(id).amount, !.createdAt = now,
                         !.deadline = now + in(id).duration]
                 ELSE tasks[id]]
  /\ pausedTotalAtCreate' = [id \in TaskId |->
                 IF id \in ids THEN pausedTotal ELSE pausedTotalAtCreate[id]]
  /\ taskVerifier' = [id \in TaskId |->
                 IF id \in ids THEN in(id).verifierAgent ELSE taskVerifier[id]]
  /\ openTasks' = [id \in TaskId |-> IF id \in ids THEN open ELSE openTasks[id]]
  /\ escrowBalance' = [escrowBalance EXCEPT
                 ![token] = @ + TotalAmount(inputs)]
  /\ AnnounceTasks(ids)
  /\ hTask' = [id \in TaskId |->
                 IF id \in ids THEN [NoHistory EXCEPT !.created = activeTime] ELSE hTask[id]]
  /\ UNCHANGED <<clockVars, pauseVars, configVars, verdictVars, submissionCount,
                 submissionOf, hPayout, reputationVars>>

\* createTask (verifierAgent = NoAddr) and createTaskWithVerifier
CreateTask(c, token, in) == RecordTasks(c, token, <<in>>, ClosedToOpen)

CreateTasks(c, token, inputs) ==
  /\ Len(inputs) \in 1..MaxBatch
  /\ token # NativeToken
  /\ RecordTasks(c, token, inputs, ClosedToOpen)

CreateTaskOpen(c, token, in, mode, window) ==
  /\ in.verifierAgent # NoAddr
  /\ IF mode = "CreatorReview"
     THEN window \in MIN_CREATOR_WINDOW..MAX_CREATOR_WINDOW
     ELSE window = 0
  /\ RecordTasks(c, token, <<in>>,
                 [open |-> TRUE, mode |-> mode, creatorWindow |-> window, closedBy |-> "None"])

-----------------------------------------------------------------------------
(* The single-worker lifecycle *)

\* mistakes: no deadline check; no open-task check
AssignAnytime(id, worker) ==
  /\ ~paused
  /\ ~openTasks[id].open
  /\ tasks[id].status = "Funded"
  /\ worker # tasks[id].agent
  /\ tasks' = [tasks EXCEPT ![id] = [@ EXCEPT !.worker = worker, !.status = "Assigned"]]
  /\ CloseListing(id)
  /\ UNCHANGED <<clockVars, pauseVars, configVars, verdictVars, createVars,
                 openVars, moneyVars, reputationVars, hTask>>
AssignAlsoOpen(id, worker) ==
  /\ ~paused
  /\ tasks[id].status = "Funded"
  /\ worker # tasks[id].agent
  /\ now < EffectiveDeadline(id)
  /\ tasks' = [tasks EXCEPT ![id] = [@ EXCEPT !.worker = worker, !.status = "Assigned"]]
  /\ CloseListing(id)
  /\ UNCHANGED <<clockVars, pauseVars, configVars, verdictVars, createVars,
                 openVars, moneyVars, reputationVars, hTask>>

\* What assignWorker and marketplaceAssign share.
Assign(id, worker) ==
  /\ ~paused
  /\ ~openTasks[id].open
  /\ tasks[id].status = "Funded"
  /\ worker # tasks[id].agent
  /\ now < EffectiveDeadline(id)
  /\ tasks' = [tasks EXCEPT ![id] = [@ EXCEPT !.worker = worker, !.status = "Assigned"]]
  /\ CloseListing(id)
  /\ UNCHANGED <<clockVars, pauseVars, configVars, verdictVars, createVars,
                 openVars, moneyVars, reputationVars, hTask>>

AssignWorker(c, id, worker) == c = tasks[id].agent /\ Assign(id, worker)

MarketplaceAssign(c, id, worker) == c = verifier /\ Assign(id, worker)

SubmitEvidence(c, id, hash) ==
  /\ c = tasks[id].worker
  /\ ~paused
  /\ \/ tasks[id].status = "Assigned"
     \/ /\ tasks[id].status = "Verified"
        /\ tasks[id].submissionAttempts < MAX_SUBMISSION_ATTEMPTS
  /\ hash # NoHash
  /\ now < EffectiveDeadline(id)
  /\ tasks' = [tasks EXCEPT ![id] = [@ EXCEPT
                 !.evidenceHash = hash, !.status = "Submitted",
                 !.submissionAttempts = tasks[id].submissionAttempts + 1]]
  /\ hTask' = [hTask EXCEPT ![id] = [@ EXCEPT !.judged = FALSE]]
  /\ UNCHANGED <<clockVars, pauseVars, configVars, verdictVars, createVars,
                 openVars, moneyVars, registryVars, reputationVars>>

\* The account whose verdict a task takes.
VerdictAuthority(id) == IF taskVerifier[id] # NoAddr THEN taskVerifier[id] ELSE verifier

CompleteVerification(c, id, passed) ==
  /\ ~paused
  /\ c = VerdictAuthority(id)
  /\ c # tasks[id].worker
  /\ tasks[id].status = "Submitted"
  /\ IF passed
     THEN /\ PayWorker(c, id, tasks[id], PassScore(id))
          /\ UNCHANGED verdictVars
     ELSE /\ tasks' = [tasks EXCEPT ![id] = [@ EXCEPT !.status = "Verified"]]
          /\ failedVerdictAt' = [failedVerdictAt EXCEPT ![id] = now]
          /\ hTask' = [hTask EXCEPT ![id] = [@ EXCEPT !.failed = activeTime, !.judged = TRUE]]
          /\ IF tasks[id].submissionAttempts >= MAX_SUBMISSION_ATTEMPTS
             THEN RecordDispute(id) ELSE UNCHANGED reputationVars
          /\ UNCHANGED <<unjudgedEscalation, moneyVars>>
  /\ UNCHANGED <<clockVars, pauseVars, configVars, createVars, openVars, registryVars>>

\* signer is the account ECDSA recovery returns for the signature.
CompleteVerificationWithTEE(c, id, passed, signer) ==
  /\ teeSigner # NoAddr
  /\ signer = teeSigner
  /\ CompleteVerification(c, id, passed)

\* mistake: open submissions are not counted
CancelTaskUncounted(c, id) ==
  /\ c = tasks[id].agent
  /\ ~paused
  /\ tasks[id].status = "Funded"
  /\ Refund(c, id)
  /\ CloseListing(id)
  /\ UNCHANGED <<clockVars, pauseVars, configVars, verdictVars, createVars,
                 openVars, reputationVars>>

CancelTask(c, id) ==
  /\ c = tasks[id].agent
  /\ ~paused
  /\ tasks[id].status = "Funded"
  /\ submissionCount[id] = 0
  /\ Refund(c, id)
  /\ CloseListing(id)
  /\ UNCHANGED <<clockVars, pauseVars, configVars, verdictVars, createVars,
                 openVars, reputationVars>>

DisputeWindowElapsed(id) ==
  now >= tasks[id].disputedAt + DISPUTE_WINDOW + PauseExtension(id)

\* mistake: the appeal window runs on during a pause
AppealWindowElapsedPaused(id) == now >= failedVerdictAt[id] + APPEAL_WINDOW

AppealWindowElapsed(id) ==
  now >= failedVerdictAt[id] + APPEAL_WINDOW + PauseExtension(id)

\* claimTimeout on delivered work nobody judged: no refund, a dispute.
EscalateUnjudged(c, id) ==
  /\ c = tasks[id].agent
  /\ ~paused
  /\ now >= EffectiveDeadline(id)
  /\ tasks[id].status = "Submitted"
  /\ tasks' = [tasks EXCEPT ![id] = [@ EXCEPT !.status = "Disputed", !.disputedAt = now]]
  /\ unjudgedEscalation' = [unjudgedEscalation EXCEPT ![id] = TRUE]
  /\ hTask' = [hTask EXCEPT ![id] = [@ EXCEPT !.disputed = activeTime]]
  /\ UNCHANGED <<clockVars, pauseVars, configVars, failedVerdictAt, createVars,
                 openVars, moneyVars, registryVars, reputationVars>>

\* mistakes: a dispute without a start counts as elapsed; no branch for failed work
RefundTimeoutUndated(c, id) ==
  /\ c = tasks[id].agent
  /\ ~paused
  /\ now >= EffectiveDeadline(id)
  /\ \/ tasks[id].status = "Assigned"
     \/ tasks[id].status = "Verified" /\ AppealWindowElapsed(id)
     \/ /\ tasks[id].status = "Disputed"
        /\ ~unjudgedEscalation[id]
        /\ DisputeWindowElapsed(id)
  /\ Refund(c, id)
  /\ UNCHANGED <<clockVars, pauseVars, configVars, verdictVars, createVars,
                 openVars, registryVars, reputationVars>>
RefundTimeoutNotFailed(c, id) ==
  /\ c = tasks[id].agent
  /\ ~paused
  /\ now >= EffectiveDeadline(id)
  /\ \/ tasks[id].status = "Assigned"
     \/ /\ tasks[id].status = "Disputed"
        /\ ~unjudgedEscalation[id]
        /\ tasks[id].disputedAt # 0
        /\ DisputeWindowElapsed(id)
  /\ Refund(c, id)
  /\ UNCHANGED <<clockVars, pauseVars, configVars, verdictVars, createVars,
                 openVars, registryVars, reputationVars>>

\* claimTimeout in every other status it accepts: the poster's refund.
RefundTimeout(c, id) ==
  /\ c = tasks[id].agent
  /\ ~paused
  /\ now >= EffectiveDeadline(id)
  /\ \/ tasks[id].status = "Assigned"
     \/ tasks[id].status = "Verified" /\ AppealWindowElapsed(id)
     \/ /\ tasks[id].status = "Disputed"
        /\ ~unjudgedEscalation[id]
        /\ tasks[id].disputedAt # 0
        /\ DisputeWindowElapsed(id)
  /\ Refund(c, id)
  /\ UNCHANGED <<clockVars, pauseVars, configVars, verdictVars, createVars,
                 openVars, registryVars, reputationVars>>

ClaimTimeout(c, id) == EscalateUnjudged(c, id) \/ RefundTimeout(c, id)

RaiseDispute(c, id) ==
  LET workerAppeal == /\ c = tasks[id].worker
                      /\ tasks[id].status = "Verified"
                      /\ ~AppealWindowElapsed(id)
  IN
  /\ ~paused
  /\ c \in {tasks[id].agent, tasks[id].worker}
  /\ tasks[id].status \in {"Submitted", "Verified"}
  /\ now < EffectiveDeadline(id) \/ workerAppeal
  /\ tasks' = [tasks EXCEPT ![id] = [@ EXCEPT !.status = "Disputed", !.disputedAt = now]]
  /\ hTask' = [hTask EXCEPT ![id] = [@ EXCEPT !.disputed = activeTime]]
  /\ UNCHANGED <<clockVars, pauseVars, configVars, verdictVars, createVars,
                 openVars, moneyVars, registryVars, reputationVars>>

\* The admin's ruling; not gated by the pause.
ResolveDispute(c, id, workerFavored) ==
  /\ c = admin
  /\ tasks[id].status = "Disputed"
  /\ IF workerFavored THEN PayWorker(c, id, tasks[id], 3)
                      ELSE Refund(c, id) /\ RecordDispute(id)
  /\ UNCHANGED <<clockVars, pauseVars, configVars, verdictVars, createVars,
                 openVars, registryVars>>

\* mistake: any dispute the admin left unanswered can be released
ReleaseUnjudgedWorkAnyDispute(c, id) ==
  /\ c = tasks[id].worker
  /\ ~paused
  /\ tasks[id].status = "Disputed"
  /\ DisputeWindowElapsed(id)
  /\ PayWorker(c, id, tasks[id], 0)
  /\ UNCHANGED <<clockVars, pauseVars, configVars, verdictVars, createVars,
                 openVars, registryVars>>

ReleaseUnjudgedWork(c, id) ==
  /\ c = tasks[id].worker
  /\ ~paused
  /\ tasks[id].status = "Disputed"
  /\ unjudgedEscalation[id]
  /\ DisputeWindowElapsed(id)
  /\ PayWorker(c, id, tasks[id], 0)
  /\ UNCHANGED <<clockVars, pauseVars, configVars, verdictVars, createVars,
                 openVars, registryVars>>

-----------------------------------------------------------------------------
(* Open submission *)

SubmitOpen(c, id, hash) ==
  /\ ~paused
  /\ openTasks[id].open
  /\ tasks[id].status = "Funded"
  /\ c \notin {tasks[id].agent, taskVerifier[id], verifier}
  /\ hash # NoHash
  /\ now < EffectiveDeadline(id)
  /\ submissionOf[id][c] = NoHash
  /\ submissionOf' = [submissionOf EXCEPT ![id] = [@ EXCEPT ![c] = hash]]
  /\ submissionCount' = [submissionCount EXCEPT ![id] = @ + 1]
  /\ UNCHANGED <<clockVars, pauseVars, configVars, verdictVars, createVars, openTasks,
                 moneyVars, registryVars, reputationVars, tasks, hTask>>

\* _selectWinner: c picks winner in the role of judge.
PickWinner(c, id, winner, judge) ==
  LET t == [tasks[id] EXCEPT !.worker = winner, !.evidenceHash = submissionOf[id][winner]]
      chosenByPoster == judge \in {"Creator", "TaskVerifier"}
  IN
  /\ submissionOf[id][winner] # NoHash
  /\ winner # c
  /\ openTasks' = [openTasks EXCEPT ![id] = [@ EXCEPT !.closedBy = judge]]
  /\ PayWorker(c, id, t, IF EarnsRating(t, PlatformFee(t.amount), chosenByPoster) THEN 5 ELSE 0)
  /\ CloseListing(id)
  /\ UNCHANGED <<clockVars, pauseVars, configVars, verdictVars, createVars,
                 submissionCount, submissionOf>>

\* _voidOpenTask: c refunds the poster in the role of judge.
CloseWithoutWinner(c, id, judge) ==
  /\ openTasks' = [openTasks EXCEPT ![id] = [@ EXCEPT !.closedBy = judge]]
  /\ Refund(c, id)
  /\ CloseListing(id)
  /\ UNCHANGED <<clockVars, pauseVars, configVars, verdictVars, createVars,
                 submissionCount, submissionOf, reputationVars>>

SelectWinner(c, id, winner) ==
  /\ ~paused
  /\ c = tasks[id].agent
  /\ OpenPhase(id) = "CreatorPick"
  /\ PickWinner(c, id, winner, "Creator")

SelectWinnerByVerifier(c, id, winner) ==
  /\ ~paused
  /\ c = taskVerifier[id]
  /\ OpenPhase(id) = "VerifierPick"
  /\ PickWinner(c, id, winner, "TaskVerifier")

SelectWinnerByBackup(c, id, winner) ==
  /\ ~paused
  /\ c = verifier
  /\ OpenPhase(id) = "BackupPick"
  /\ PickWinner(c, id, winner, "Backup")

VoidOpenTask(c, id) ==
  /\ ~paused
  /\ \/ /\ submissionCount[id] = 0
        /\ c = tasks[id].agent
        /\ OpenPhase(id) \notin {"NotOpen", "Submissions", "Closed"}
        /\ CloseWithoutWinner(c, id, "Creator")
     \/ /\ submissionCount[id] # 0
        /\ c = verifier
        /\ OpenPhase(id) = "BackupPick"
        /\ CloseWithoutWinner(c, id, "Backup")

\* mistake: the last judge cannot close a task without a winner
ResolveOpenTaskWinnerOnly(c, id, winner) ==
  /\ c = admin
  /\ OpenPhase(id) = "AdminResolve"
  /\ winner # NoAddr
  /\ PickWinner(c, id, winner, "Admin")

\* The last judge, without a time limit and not gated by the pause.
ResolveOpenTask(c, id, winner) ==
  /\ c = admin
  /\ OpenPhase(id) = "AdminResolve"
  /\ IF winner = NoAddr THEN CloseWithoutWinner(c, id, "Admin")
                        ELSE PickWinner(c, id, winner, "Admin")

-----------------------------------------------------------------------------
(* Administration *)

taskStateVars == <<createVars, verdictVars, openVars, moneyVars, registryVars,
                   reputationVars, tasks, hTask>>

ProposeAdmin(c, a) ==
  /\ c = admin
  /\ pendingAdmin' = a
  /\ UNCHANGED <<admin, treasury, verifier, feeBps, allowedTokens, minRatedAmount,
                 teeSigner, reputationContract, taskRegistry>>

AcceptAdmin(c) ==
  /\ c = pendingAdmin
  /\ admin' = pendingAdmin
  /\ pendingAdmin' = NoAddr
  /\ UNCHANGED <<treasury, verifier, feeBps, allowedTokens, minRatedAmount,
                 teeSigner, reputationContract, taskRegistry>>

SetTreasury(c, a) ==
  /\ c = admin
  /\ treasury' = a
  /\ UNCHANGED <<admin, pendingAdmin, verifier, feeBps, allowedTokens, minRatedAmount,
                 teeSigner, reputationContract, taskRegistry>>

SetVerifier(c, a) ==
  /\ c = admin
  /\ verifier' = a
  /\ UNCHANGED <<admin, pendingAdmin, treasury, feeBps, allowedTokens, minRatedAmount,
                 teeSigner, reputationContract, taskRegistry>>

SetMinRatedAmount(c, token, amount) ==
  /\ c = admin
  /\ minRatedAmount' = [minRatedAmount EXCEPT ![token] = amount]
  /\ UNCHANGED <<admin, pendingAdmin, treasury, verifier, feeBps, allowedTokens,
                 teeSigner, reputationContract, taskRegistry>>

SetTeeSigner(c, a) ==
  /\ c = admin
  /\ teeSigner' = a
  /\ UNCHANGED <<admin, pendingAdmin, treasury, verifier, feeBps, allowedTokens,
                 minRatedAmount, reputationContract, taskRegistry>>

SetFeeBps(c, fee) ==
  /\ c = admin
  /\ fee <= MAX_FEE_BPS
  /\ feeBps' = fee
  /\ UNCHANGED <<admin, pendingAdmin, treasury, verifier, allowedTokens,
                 minRatedAmount, teeSigner, reputationContract, taskRegistry>>

\* allowToken and disallowToken
SetTokenAllowed(c, token, allowed) ==
  /\ c = admin
  /\ allowedTokens' = [allowedTokens EXCEPT ![token] = allowed]
  /\ UNCHANGED <<admin, pendingAdmin, treasury, verifier, feeBps, minRatedAmount,
                 teeSigner, reputationContract, taskRegistry>>

SetReputationContract(c, on) ==
  /\ c = admin
  /\ reputationContract' = on
  /\ UNCHANGED <<admin, pendingAdmin, treasury, verifier, feeBps, allowedTokens,
                 minRatedAmount, teeSigner, taskRegistry>>

SetTaskRegistry(c, on) ==
  /\ c = admin
  /\ taskRegistry' = on
  /\ UNCHANGED <<admin, pendingAdmin, treasury, verifier, feeBps, allowedTokens,
                 minRatedAmount, teeSigner, reputationContract>>

Configure(c) ==
  /\ \/ \E a \in Admins : ProposeAdmin(c, a)
     \/ AcceptAdmin(c)
     \/ \E a \in Treasuries : SetTreasury(c, a)
     \/ \E a \in Verifiers : SetVerifier(c, a)
     \/ \E a \in TeeSigners : SetTeeSigner(c, a)
     \/ \E fee \in Fees : SetFeeBps(c, fee)
     \/ \E token \in Token, amount \in MinRatedAmounts : SetMinRatedAmount(c, token, amount)
     \/ \E token \in Token : SetTokenAllowed(c, token, TRUE)
     \/ \E token \in Disallowable : SetTokenAllowed(c, token, FALSE)
     \/ \E on \in Switches : SetReputationContract(c, on)
     \/ \E on \in Switches : SetTaskRegistry(c, on)
  /\ UNCHANGED <<clockVars, pauseVars, taskStateVars>>

Pause(c) ==
  /\ c = admin
  /\ ~paused
  /\ paused' = TRUE
  /\ pausedSince' = now
  /\ UNCHANGED <<clockVars, pausedTotal, configVars, taskStateVars>>

Unpause(c) ==
  /\ c = admin
  /\ paused
  /\ paused' = FALSE
  /\ pausedTotal' = PausedSeconds
  /\ pausedSince' = 0
  /\ UNCHANGED <<clockVars, configVars, taskStateVars>>

\* Repairs the pause clock of a contract that was upgraded while paused.
RecordPauseStart(c, pausedAt) ==
  /\ c = admin
  /\ paused
  /\ pausedSince = 0
  /\ pausedAt # 0 /\ pausedAt <= now
  /\ pausedSince' = pausedAt
  /\ UNCHANGED <<clockVars, paused, pausedTotal, configVars, taskStateVars>>

-----------------------------------------------------------------------------
(* The environment: block time and the two connected contracts *)

\* The moments at which a guard about id turns over.
Boundaries(id) ==
  {EffectiveDeadline(id)}
  \cup (IF openTasks[id].open
        THEN LET picks == EffectiveDeadline(id) + openTasks[id].creatorWindow IN
             {picks, picks + VERIFIER_PICK_WINDOW,
              picks + VERIFIER_PICK_WINDOW + BACKUP_PICK_WINDOW}
        ELSE {})
  \cup (IF tasks[id].status = "Verified"
        THEN {failedVerdictAt[id] + APPEAL_WINDOW + PauseExtension(id)} ELSE {})
  \cup (IF tasks[id].status = "Disputed"
        THEN {tasks[id].disputedAt + DISPUTE_WINDOW + PauseExtension(id)} ELSE {})

\* Bound on the clock: time passes while some guard of a task that holds a
\* payment still waits for it (afterwards every later moment looks the same),
\* and while the escrow is paused, for at most MaxPaused seconds in all.
Tick ==
  /\ IF paused THEN now - activeTime < MaxPaused
     ELSE \E id \in TaskId : Holds(id) /\ \E b \in Boundaries(id) : now < b
  /\ now' = now + 1
  /\ activeTime' = IF paused THEN activeTime ELSE activeTime + 1
  /\ UNCHANGED <<pauseVars, configVars, taskStateVars>>

\* TaskRegistry or BlindReputation is paused, resumed, or (de)authorises the escrow.
ExternalFault ==
  /\ ExternalFaults
  /\ \/ registryUp' = ~registryUp /\ UNCHANGED reputationUp
     \/ reputationUp' = ~reputationUp /\ UNCHANGED registryUp
  /\ UNCHANGED <<clockVars, pauseVars, configVars, createVars, verdictVars, openVars,
                 moneyVars, tasks, hTask, listing, rating, disputeRecords>>

-----------------------------------------------------------------------------
(* initialize(), and a proxy upgraded to this implementation in flight *)

InitCommon ==
  /\ pausedSince = 0 /\ pausedTotal = 0
  /\ admin = Deployer /\ pendingAdmin = NoAddr
  /\ treasury = Treasury0 /\ verifier = Verifier0 /\ feeBps = 1000
  /\ minRatedAmount = [token \in Token |-> 0]
  /\ teeSigner = NoAddr /\ reputationContract = FALSE /\ taskRegistry = FALSE
  /\ taskVerifier = [id \in TaskId |-> NoAddr]
  /\ failedVerdictAt = [id \in TaskId |-> 0]
  /\ unjudgedEscalation = [id \in TaskId |-> FALSE]
  /\ pausedTotalAtCreate = [id \in TaskId |-> 0]
  /\ openTasks = [id \in TaskId |-> ClosedToOpen]
  /\ submissionCount = [id \in TaskId |-> 0]
  /\ submissionOf = [id \in TaskId |-> [a \in Address |-> NoHash]]
  /\ registryUp = TRUE /\ listing = [id \in TaskId |-> "none"]
  /\ reputationUp = TRUE /\ rating = [id \in TaskId |-> 0]
  /\ disputeRecords = [id \in TaskId |-> 0]
  /\ hPayout = [id \in TaskId |-> NoPayout]

Initialized ==
  /\ InitCommon
  /\ now = 1 /\ activeTime = 1
  /\ paused = FALSE
  /\ allowedTokens = [token \in Token |-> FALSE]
  /\ nextTaskId = 1
  /\ tasks = [id \in TaskId |-> ZeroTask]
  /\ escrowBalance = [token \in Token |-> 0]
  /\ hTask = [id \in TaskId |-> NoHistory]

\* A task the previous implementation left behind: disputedAt, failedVerdictAt
\* and the pause accounting did not exist, so they read 0 whatever its status.
LegacyTask(agent, worker, token, amount, hash, duration, status) ==
  LET delivered == status \notin {"Funded", "Assigned"} IN
  [agent |-> agent, worker |-> IF status = "Funded" THEN NoAddr ELSE worker,
   token |-> token, amount |-> amount,
   evidenceHash |-> IF delivered THEN hash ELSE NoHash, status |-> status,
   createdAt |-> 1, deadline |-> 1 + duration,
   submissionAttempts |-> IF delivered THEN 1 ELSE 0, disputedAt |-> 0]

UpgradedWith(t) ==
  /\ tasks = [id \in TaskId |-> IF id = 1 THEN t ELSE ZeroTask]
  /\ escrowBalance = [token \in Token |-> IF token = t.token THEN t.amount ELSE 0]
  /\ hTask = [id \in TaskId |->
       IF id = 1 THEN [NoHistory EXCEPT !.created = 1, !.legacy = TRUE,
                                         !.judged = t.status = "Verified"]
                 ELSE NoHistory]

Upgraded ==
  /\ InitCommon
  /\ now = 1 + MIN_DEADLINE /\ activeTime = 1 + MIN_DEADLINE
  /\ paused \in BOOLEAN
  /\ allowedTokens = [token \in Token |-> TRUE]
  /\ nextTaskId = 2
  /\ \E agent \in Posters, worker \in Workers, token \in Token, amount \in Amount \ {0},
        hash \in Hash, duration \in Duration \cap MIN_DEADLINE..MAX_DEADLINE,
        status \in LegacyStatus :
       /\ worker # agent
       /\ UpgradedWith(LegacyTask(agent, worker, token, amount, hash, duration, status))

Init == Initialized \/ Upgraded

PosterCall(c) ==
  \/ \E token \in Token, in \in TaskInput : CreateTask(c, token, in)
  \/ \E token \in Token, n \in BatchSizes : \E inputs \in [1..n -> TaskInput] :
       CreateTasks(c, token, inputs)
  \/ \E token \in Token, in \in TaskInput, mode \in PickMode, window \in CreatorWindow :
       CreateTaskOpen(c, token, in, mode, window)

WorkerLifecycleCall(c, id) ==
  \/ \E worker \in Workers : AssignWorker(c, id, worker)
  \/ \E worker \in Workers : MarketplaceAssign(c, id, worker)
  \/ \E hash \in Hash : SubmitEvidence(c, id, hash)
  \/ \E passed \in BOOLEAN : CompleteVerification(c, id, passed)
  \/ \E passed \in BOOLEAN, signer \in TeeSigners : CompleteVerificationWithTEE(c, id, passed, signer)
  \/ CancelTask(c, id)
  \/ ClaimTimeout(c, id)
  \/ RaiseDispute(c, id)
  \/ \E workerFavored \in BOOLEAN : ResolveDispute(c, id, workerFavored)
  \/ ReleaseUnjudgedWork(c, id)

OpenSubmissionCall(c, id) ==
  \/ \E hash \in Hash : SubmitOpen(c, id, hash)
  \/ \E winner \in Address : SelectWinner(c, id, winner)
  \/ \E winner \in Address : SelectWinnerByVerifier(c, id, winner)
  \/ \E winner \in Address : SelectWinnerByBackup(c, id, winner)
  \/ VoidOpenTask(c, id)
  \/ \E winner \in Account : ResolveOpenTask(c, id, winner)

AdminCall(c) ==
  \/ Configure(c)
  \/ Pause(c)
  \/ Unpause(c)
  \/ \E pausedAt \in 1..now : RecordPauseStart(c, pausedAt)

Next ==
  \/ \E c \in Posters : PosterCall(c)
  \/ \E c \in Address, id \in TaskId : WorkerLifecycleCall(c, id)
  \/ \E c \in Address, id \in TaskId : OpenSubmissionCall(c, id)
  \/ \E c \in Address : AdminCall(c)
  \/ Tick
  \/ ExternalFault

Spec == Init /\ [][Next]_vars

-----------------------------------------------------------------------------
(* Type correctness.  escrowBalance is typed by Solvent. *)

TypeOK ==
  /\ now \in Nat \ {0} /\ activeTime \in Nat
  /\ paused \in BOOLEAN /\ pausedSince \in 0..now /\ pausedTotal \in Nat
  /\ admin \in Address /\ pendingAdmin \in Account
  /\ treasury \in Address /\ verifier \in Address /\ teeSigner \in Account
  /\ feeBps \in 0..MAX_FEE_BPS
  /\ allowedTokens \in [Token -> BOOLEAN] /\ minRatedAmount \in [Token -> Nat]
  /\ reputationContract \in BOOLEAN /\ taskRegistry \in BOOLEAN
  /\ nextTaskId \in 1..(MaxTasks + 1)
  /\ tasks \in [TaskId -> Task]
  /\ taskVerifier \in [TaskId -> Account]
  /\ failedVerdictAt \in [TaskId -> Nat]
  /\ unjudgedEscalation \in [TaskId -> BOOLEAN]
  /\ pausedTotalAtCreate \in [TaskId -> Nat]
  /\ openTasks \in [TaskId -> OpenTask]
  /\ submissionCount \in [TaskId -> Nat]
  /\ submissionOf \in [TaskId -> [Address -> Hash \cup {NoHash}]]
  /\ registryUp \in BOOLEAN /\ listing \in [TaskId -> {"none", "open", "closed"}]
  /\ reputationUp \in BOOLEAN /\ rating \in [TaskId -> 0..5]
  /\ disputeRecords \in [TaskId -> Nat]
  /\ hPayout \in [TaskId -> Payout] /\ hTask \in [TaskId -> TaskHistory]

Created(id) == tasks[id].agent # NoAddr
Duration0(id) == tasks[id].deadline - tasks[id].createdAt
Settled(id) == tasks[id].status \in {"Completed", "Cancelled"}

-----------------------------------------------------------------------------
(* Money *)

\* The escrow's balance of a token is what its unsettled tasks hold in that
\* token: every pull (one per batch) and every payout moved exactly the amounts
\* the tasks record, and no settlement left dust or took another task's money.
Solvent ==
  \A token \in Token :
    escrowBalance[token] = Total(Held(token), MaxTasks)

PaidRight(t, p) ==
  CASE t.status = "Completed" -> /\ p.worker + p.fee = t.amount
                                 /\ p.fee * Bps <= t.amount * MAX_FEE_BPS
                                 /\ p.refund = 0
    [] t.status = "Cancelled" -> p = [NoPayout EXCEPT !.refund = t.amount]
    [] OTHER -> p = NoPayout

\* A task's payment leaves the escrow once and whole: to the worker and the
\* treasury (the fee within the hard cap) exactly when it is Completed, to the
\* poster exactly when it is Cancelled, whichever of the ten settling calls ran.
PaidOnce == \A id \in TaskId : PaidRight(tasks[id], hPayout[id])

\* An id nobody created stays the zero struct, although that struct reads as a
\* Funded task: the deadline 0 is what keeps marketplaceAssign away from it,
\* and no pause accounting may ever move it into the future.
NoPhantomTask ==
  \A id \in TaskId :
    /\ id >= nextTaskId =>
         /\ tasks[id] = ZeroTask /\ openTasks[id] = ClosedToOpen
         /\ submissionCount[id] = 0 /\ listing[id] = "none"
    /\ id < nextTaskId => tasks[id].agent \in Address /\ tasks[id].amount > 0

-----------------------------------------------------------------------------
(* Time *)

\* The deadline and every window run in unpaused time, to the second: whatever
\* pauses came before, during or after, the effective deadline of a task is
\* reached when it has been live and unpaused for its duration.
PauseNeutral ==
  \A id \in TaskId :
    Created(id) /\ ~hTask[id].legacy =>
      now - PauseExtension(id) - tasks[id].createdAt = activeTime - hTask[id].created

\* The pause clock cannot run backwards or count time twice: outside a pause
\* there is no running interval, what has been counted fits in the chain's
\* time, and no task started with more pause than there has been (which would
\* make _pauseExtension underflow and every call on the task revert).
PauseAccounting ==
  /\ ~paused => pausedSince = 0
  /\ PausedSeconds < now
  /\ \A id \in TaskId : pausedTotalAtCreate[id] <= pausedTotal

RefundWaited(id) ==
  (/\ tasks[id].status \in {"Assigned", "Submitted", "Verified", "Disputed"}
   /\ tasks'[id].status = "Cancelled"
   /\ hTask'[id].settledBy # admin
   /\ ~hTask[id].legacy)
  => /\ activeTime - hTask[id].created >= Duration0(id)
     /\ tasks[id].status # "Submitted"
     /\ tasks[id].status = "Verified" => activeTime - hTask[id].failed >= APPEAL_WINDOW
     /\ tasks[id].status = "Disputed" =>
          ~unjudgedEscalation[id] /\ activeTime - hTask[id].disputed >= DISPUTE_WINDOW

\* The poster's unilateral refund of assigned work waits, in unpaused time, for
\* the whole duration, for APPEAL_WINDOW after the latest failed verdict and for
\* DISPUTE_WINDOW after a dispute; it never takes escalated unjudged work, and
\* never delivered work that still awaits its verdict.
PosterRefundWaits == [][\A id \in TaskId : RefundWaited(id)]_vars

LegacyRuled(id) ==
  tasks[id].status = "Disputed" /\ tasks[id].disputedAt = 0 /\ tasks'[id] # tasks[id]
  => hTask'[id].settledBy = admin /\ Settled(id)'

\* A dispute raised before the upgrade that introduced disputedAt is settled by
\* the admin alone: the stored 0 must not read as a window long elapsed.
LegacyDisputeNeedsRuling == [][\A id \in TaskId : LegacyRuled(id)]_vars

-----------------------------------------------------------------------------
(* Judges *)

JudgedByOther(id) ==
  tasks[id].status = "Completed" /\ ~openTasks[id].open /\ tasks[id].disputedAt = 0
  /\ ~hTask[id].legacy =>
    /\ hTask[id].settledBy # tasks[id].worker
    /\ taskVerifier[id] # NoAddr => hTask[id].settledBy = taskVerifier[id]

\* Who decided a single-worker task that was never disputed: the task's own
\* verifier when it has one (the platform cannot override it), and never the
\* worker who is paid for it.
VerdictIndependent == \A id \in TaskId : JudgedByOther(id)

SelfRelease(id) ==
  (/\ tasks[id].status # "Completed" /\ tasks'[id].status = "Completed"
   /\ hTask'[id].settledBy = tasks'[id].worker
   /\ hTask'[id].settledBy # admin
   /\ ~hTask[id].legacy)
  => /\ unjudgedEscalation[id] /\ ~hTask[id].judged
     /\ activeTime - hTask[id].disputed >= DISPUTE_WINDOW
     /\ rating'[id] = 0

\* A worker settles its own task only when its delivery was escalated unjudged,
\* the escalation waited its whole window unruled, and then without a rating.
\* (An admin who is also the worker rules as the admin.)
SelfReleaseOnlyUnjudged == [][\A id \in TaskId : SelfRelease(id)]_vars

RatingEarned(id) ==
  /\ rating[id] # 0 => tasks[id].status = "Completed"
  /\ rating[id] = 5 =>
       /\ hPayout[id].fee > 0
       /\ ~unjudgedEscalation[id]
       /\ IF openTasks[id].open THEN openTasks[id].closedBy \in {"Backup", "Admin"}
                                ELSE taskVerifier[id] = NoAddr
  /\ rating[id] \notin {0, 5} =>
       rating[id] = 3 /\ (tasks[id].disputedAt # 0 \/ hTask[id].legacy)

\* A rating of 5 stands for a completion that was not free to arrange: a fee
\* was paid and the judge was not the poster's choice, on the single-worker path
\* and on each of the four open-submission picks; a dispute earns 3 at most.
RatingImpartial == \A id \in TaskId : RatingEarned(id)

-----------------------------------------------------------------------------
(* Open submission *)

OpenOutcome(id) ==
  LET t == tasks[id] IN
  openTasks[id].open =>
    /\ t.status \in {"Funded", "Completed", "Cancelled"}
    /\ t.status # "Completed" => t.worker = NoAddr
    /\ t.status = "Completed" =>
         /\ t.worker \in Address \ {t.agent, taskVerifier[id], hTask[id].settledBy}
         /\ t.evidenceHash = submissionOf[id][t.worker]
         /\ t.evidenceHash # NoHash

\* An open task never enters the single-worker lifecycle: it has no worker
\* until a pick pays one, and that winner is a submitter other than the poster
\* and the poster's verifier, with its own evidence.
OpenLifecycle == \A id \in TaskId : OpenOutcome(id)

SubmittedWorkKept(id) ==
  openTasks[id].open /\ tasks[id].status = "Cancelled" /\ submissionCount[id] > 0 =>
    openTasks[id].closedBy \in {"Backup", "Admin"}

\* Submitted open work is refunded to its poster only by the backup judge or the
\* admin: neither the poster nor the verifier it chose can read the results,
\* pay nobody and take the escrow back.
SubmittedOpenWorkKept == \A id \in TaskId : SubmittedWorkKept(id)

ClosedInTurn(id) ==
  LET o == openTasks[id]
      waited == hTask[id].settled - hTask[id].created - Duration0(id)
      verifierEnd == o.creatorWindow + VERIFIER_PICK_WINDOW
  IN
  o.open =>
    /\ o.closedBy = "Creator" =>
         IF tasks[id].status = "Completed" THEN waited \in 0..(o.creatorWindow - 1)
                                           ELSE waited >= 0 /\ submissionCount[id] = 0
    /\ o.closedBy = "TaskVerifier" => waited \in o.creatorWindow..(verifierEnd - 1)
    /\ o.closedBy = "Backup" => waited \in verifierEnd..(verifierEnd + BACKUP_PICK_WINDOW - 1)
    /\ o.closedBy = "Admin" => waited >= verifierEnd + BACKUP_PICK_WINDOW

\* Each judge closes an open task in its own turn, measured in unpaused time
\* from the deadline; only the admin's turn has no end.
JudgeTurns == \A id \in TaskId : ClosedInTurn(id)

-----------------------------------------------------------------------------
(* Refinement: the contract keeps the promise of TaskPromise *)

StageOf(id) ==
  LET t == tasks[id] IN
  CASE t.agent = NoAddr -> "none"
    [] t.agent # NoAddr /\ t.status = "Completed" -> "paid"
    [] t.agent # NoAddr /\ t.status = "Cancelled" -> "refunded"
    [] t.agent # NoAddr /\ t.status = "Assigned" -> "committed"
    [] t.agent # NoAddr /\ t.status = "Funded" ->
         IF submissionCount[id] > 0 THEN "delivered" ELSE "offered"
    [] OTHER -> "delivered"

Promise == INSTANCE TaskPromise WITH
  Id <- TaskId, MaxFeeBps <- MAX_FEE_BPS,
  stage <- [id \in TaskId |-> StageOf(id)],
  amount <- [id \in TaskId |-> tasks[id].amount],
  received <- hPayout

\* Every transaction of the contract is a step of the promise or none of its
\* business: in particular nothing is paid for work nobody delivered, nothing
\* settled is touched again, and no call changes an amount.
KeepsPromise == Promise!Spec

-----------------------------------------------------------------------------
(* Liveness *)

AdminUnpauses == \E c \in Address : Unpause(c)
AdminResolvesOpen == \E c \in Address, id \in TaskId, w \in Account : ResolveOpenTask(c, id, w)
WorkerCollects == \E c \in Address, id \in TaskId : ReleaseUnjudgedWork(c, id)
PosterRecovers == \E c \in Address, id \in TaskId : CancelTask(c, id) \/ ClaimTimeout(c, id)

\* Blocks keep coming and no pause is forever.  Strong fairness on Tick: the
\* guard that stops it during a pause is the model's bound, not the chain's.
TimePasses == SF_vars(Tick) /\ WF_vars(AdminUnpauses)

FairTime == Spec /\ TimePasses

\* The admin answers open tasks nobody else settled.
AdminAnswers == WF_vars(AdminResolvesOpen)

\* Poster and worker retry their own calls, between pauses if need be.
PartiesRetry == SF_vars(PosterRecovers) /\ SF_vars(WorkerCollects)

\* An open task's escrow always has a way out, even if the poster, the task
\* verifier and the backup judge all stay silent: the admin's answer suffices.
OpenTaskCloses ==
  AdminAnswers => \A id \in TaskId : (openTasks[id].open ~> Settled(id))

\* With a poster and a worker who look after themselves, every payment for an
\* assigned task leaves the escrow although neither verifier nor admin ever acts.
PaymentLeaves ==
  PartiesRetry => \A id \in TaskId : (Holds(id) /\ ~openTasks[id].open ~> ~Holds(id))

=============================================================================
