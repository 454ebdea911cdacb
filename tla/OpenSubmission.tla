--------------------------- MODULE OpenSubmission ---------------------------
(***************************************************************************)
(* The open-submission service around one escrow task that takes results   *)
(* from many agents (backend/src/services/openSubmission*.ts).  The scan   *)
(* of the escrow's events writes what happened into Redis, each event at   *)
(* least once; POST /submit-open holds a result until its submission is    *)
(* on the chain; the platform's judge takes its turns among the judges.    *)
(* All of them run in one backend and meet only in Redis and on the chain. *)
(* Left out: the alerts, and the sweep that only sends alerts.             *)
(*                                                                         *)
(* One action per stretch between two awaits that another actor can tell   *)
(* apart.  A result is its place in the judge's ranking, 0 if it cannot be *)
(* paid, and its evidence hash is the result.                              *)
(***************************************************************************)
EXTENDS Integers, Sequences, FiniteSets

CONSTANTS
  Submitter,   \* agents that may submit
  Nobody,      \* no agent
  Best,        \* results are ranked 0 .. Best; one ranked 0 cannot be paid
  Sends,       \* bound: the results each submitter may send
  Callers,     \* bound: submitters that send theirs here first
  Registered,  \* those with an account here, which a credit needs
  Tasks,       \* bound: the kinds of task to look at
  MaxEvents,   \* bound: submissions, submit-open calls and faults in a run, together
  Happens      \* the optional events of a run, a subset of Events

(* "fail": an await of a handler or a loop throws; "crash": the backend    *)
(* restarts; "timeout": the judge stops waiting for its transaction;       *)
(* "evict": the pool drops a transaction; "lapse": a held result expires.  *)
Events == {"fail", "crash", "timeout", "evict", "lapse"}

Task == [listed : BOOLEAN,    \* on this server
         review : BOOLEAN,    \* the poster picks first
         ours : BOOLEAN,      \* the platform is its task verifier
         counted : BOOLEAN]   \* in a token the earnings totals hold

ASSUME Parameters ==
  /\ Nobody \notin Submitter /\ Best \in Nat \ {0} /\ MaxEvents \in Nat
  /\ Callers \subseteq Submitter /\ Registered \subseteq Submitter
  /\ Sends \in [Submitter -> SUBSET (0 .. Best)]
  /\ Tasks \subseteq {t \in Task : t.listed /\ t.ours => t.review}
  /\ Happens \subseteq Events

VARIABLES
  task,        \* how the task was made
  chain,       \* the escrow's record of it
  txs,         \* the judge's transactions, in nonce order
  record,      \* a2a:open:task:<ref> exists
  recorded,    \* a2a:open:subs:<ref>
  pending,     \* a2a:open:pending:<ref>:<submitter>
  results,     \* a2a:open:results:<ref>
  outcome,     \* a2a:open:outcome:<ref> exists
  heldCard,    \* a2a:open:scorecard-pending:<ref>:<role>
  keptCard,    \* a2a:open:scorecard:<ref>
  judgeDue,    \* the task in a2a:open:judge-due:<scope>: when the judge looks at it
  listing,     \* status of a2a:state:<hash>
  marker,      \* a2a:credited:<hash> exists
  credited,    \* the winner's credited_payouts row, and with it the credit
  indexer, judge,   \* the two loops
  sending,     \* a submit-open in flight: the result it is about to hold
  events,      \* submissions, submit-open calls and faults so far
  hLeft,       \* history: the judge gave up on a transaction still in the pool
  hTorn        \* history: a claim of the credit left its marker and no credit

cards == <<heldCard, keptCard>>
payout == <<marker, credited>>
mirror == <<outcome, listing, payout>>
loops == <<indexer, judge, sending>>
history == <<events, hLeft, hTorn>>
stored == <<record, recorded, pending, results, cards, judgeDue, mirror>>
vars == <<task, chain, txs, stored, loops, history>>

NoResult == -1
Result == 0 .. Best
Role == {"task_verifier", "backup"}      \* the platform's two
Phase == <<"Submissions", "CreatorPick", "VerifierPick", "BackupPick", "AdminResolve">>

(* The scorecard of a platform judge: whom it pays and whom it judged.      *)
Scorecard == [role : Role, winner : Submitter \cup {Nobody}, judged : SUBSET Submitter]
NoCard == [role |-> "none", winner |-> Nobody, judged |-> {}]

Open == [kind |-> "open", winner |-> Nobody, by |-> "nobody", card |-> NoCard]
JudgeIdle == [at |-> "idle", card |-> NoCard, tx |-> 0]

Init ==
  /\ task \in Tasks
  /\ chain = [phase |-> "Submissions", late |-> FALSE, order |-> <<>>,
              of |-> [s \in Submitter |-> NoResult], end |-> Open]
  /\ txs = <<>> /\ record = FALSE /\ recorded = {}
  /\ pending = [s \in Submitter |-> NoResult] /\ results = pending
  /\ outcome = FALSE
  /\ heldCard = [r \in Role |-> NoCard] /\ keptCard = NoCard
  /\ judgeDue = "no"
  /\ listing = "collecting" /\ marker = FALSE /\ credited = FALSE
  /\ indexer = [at |-> "idle", pos |-> 0] /\ judge = JudgeIdle
  /\ sending = pending
  /\ events = 0 /\ hLeft = FALSE /\ hTorn = FALSE

Counted == events < MaxEvents /\ events' = events + 1
Fails(fault) == fault \in Happens /\ Counted

Closed == chain.phase = "Closed"
Count == Len(chain.order)
Place(s) == CHOOSE i \in DOMAIN chain.order : chain.order[i] = s

-----------------------------------------------------------------------------
(* The escrow: BlindEscrow's open lifecycle as its events show it.          *)

(* A submission, whatever the submitter told this server.                   *)
Land(s, r) ==
  /\ ~Closed /\ chain.phase = "Submissions" /\ chain.of[s] = NoResult /\ Counted
  /\ chain' = [chain EXCEPT !.of[s] = r, !.order = Append(@, s)]
  /\ UNCHANGED <<task, txs, stored, loops, hLeft, hTorn>>

NextPhase ==
  LET i == CHOOSE j \in DOMAIN Phase : Phase[j] = chain.phase
  IN IF chain.phase = "Submissions" /\ ~task.review THEN Phase[3] ELSE Phase[i + 1]

(* "late": less than LAG_GRACE_SEC, which is also MISSING_RECHECK_SEC, is   *)
(* left of a window.                                                        *)
TimePasses ==
  /\ chain.phase \notin {"AdminResolve", "Closed"}
  /\ IF chain.phase \in {"VerifierPick", "BackupPick"} /\ ~chain.late
     THEN chain' = [chain EXCEPT !.late = TRUE]
     ELSE chain' = [chain EXCEPT !.phase = NextPhase, !.late = FALSE]
  /\ UNCHANGED <<task, txs, stored, loops, history>>

End(kind, winner, by, card) ==
  chain' = [chain EXCEPT !.phase = "Closed", !.late = FALSE,
                         !.end = [kind |-> kind, winner |-> winner, by |-> by, card |-> card]]

(* The judges who are not the platform, and the poster, who takes back a    *)
(* task nobody submitted to.                                                *)
OthersClose ==
  /\ ~Closed
  /\ \/ Count = 0 /\ End("cancel", Nobody, "creator", NoCard)
     \/ Count = 0 /\ chain.phase # "Submissions" /\ End("void", Nobody, "creator", NoCard)
     \/ \E s \in Submitter : chain.of[s] # NoResult /\
          \/ chain.phase = "CreatorPick" /\ End("winner", s, "creator", NoCard)
          \/ chain.phase = "VerifierPick" /\ ~task.ours /\ End("winner", s, "verifier", NoCard)
          \/ chain.phase = "AdminResolve" /\ End("winner", s, "admin", NoCard)
     \/ chain.phase = "AdminResolve" /\ End("void", Nobody, "admin", NoCard)
  /\ UNCHANGED <<task, txs, stored, loops, history>>

(* The escrow takes a pick or a void from the judge whose turn it is.       *)
Accepts(card) ==
  ~Closed /\ chain.phase = (IF card.role = "backup" THEN "BackupPick" ELSE "VerifierPick")

Mine(i) ==
  LET card == txs[i].card
  IN /\ txs[i].st = "pool" /\ \A j \in 1 .. (i - 1) : txs[j].st # "pool"
     /\ txs' = [txs EXCEPT ![i].st = IF Accepts(card) THEN "mined" ELSE "reverted"]
     /\ IF Accepts(card)
        THEN End(IF card.winner = Nobody THEN "void" ELSE "winner", card.winner, card.role, card)
        ELSE UNCHANGED chain
     /\ UNCHANGED <<task, stored, loops, history>>

Evict(i) ==
  /\ txs[i].st = "pool" /\ Fails("evict")
  /\ txs' = [txs EXCEPT ![i].st = "evicted"]
  /\ UNCHANGED <<task, chain, stored, loops, hLeft, hTorn>>

-----------------------------------------------------------------------------
(* POST /submit-open *)

sendKeeps == <<task, chain, txs, record, recorded, cards, judgeDue, mirror,
               indexer, judge, hLeft, hTorn>>

Collecting == task.listed /\ listing = "collecting"

(* The handler has read the escrow before it holds the result; by then the  *)
(* submission may be there.                                                 *)
SubmitOpen(s, r) ==
  /\ s \in Callers /\ Collecting /\ sending[s] = NoResult /\ Counted
  /\ chain.of[s] = NoResult /\ ~Closed /\ chain.phase = "Submissions"
  /\ sending' = [sending EXCEPT ![s] = r]
  /\ UNCHANGED <<sendKeeps, pending, results>>

HoldResult(s) ==
  /\ sending[s] # NoResult
  /\ pending' = [pending EXCEPT ![s] = sending[s]]
  /\ sending' = [sending EXCEPT ![s] = NoResult]
  /\ UNCHANGED <<sendKeeps, results, events>>

(* A hold lasts PENDING_RESULT_TTL_SEC.                                     *)
Lapse(s) ==
  /\ pending[s] # NoResult /\ Fails("lapse")
  /\ pending' = [pending EXCEPT ![s] = NoResult]
  /\ UNCHANGED <<sendKeeps, sending, results>>

Keep(s, r) ==
  results' = IF results[s] = NoResult THEN [results EXCEPT ![s] = r] ELSE results

(* Once it is there, sending the same result again keeps it for good.       *)
Resend(s) ==
  /\ Collecting /\ chain.of[s] # NoResult
  /\ Keep(s, chain.of[s])
  /\ UNCHANGED <<sendKeeps, sending, pending, events>>

-----------------------------------------------------------------------------
(* The event scan (indexOpenSubmissions, handleOpenEvent) *)

scanKeeps == <<task, chain, txs, judge, sending, history>>

(* The task's events so far: its creation, the submissions, a pick or a     *)
(* void (a cancel belongs to another scan).  The scan is past the first     *)
(* indexer.pos of them.                                                     *)
EventCount == 1 + Count + (IF chain.end.kind \in {"winner", "void"} THEN 1 ELSE 0)
Coming == indexer.pos + 1
Kind == IF Coming = 1 THEN "created" ELSE IF Coming <= 1 + Count THEN "submission" ELSE "closing"

At(at) == indexer.at = at
To(at) == indexer' = [indexer EXCEPT !.at = at]
Done == indexer' = [at |-> "idle", pos |-> Coming]

(* ensureRecord.  The event that meets the task first schedules it before   *)
(* it saves the record, so that a failure in between is redone.             *)
Meet ==
  /\ At("idle") /\ Coming <= EventCount /\ ~record
  /\ judgeDue' = IF judgeDue = "no" /\ ~outcome THEN "due" ELSE judgeDue
  /\ To("met")
  /\ UNCHANGED <<scanKeeps, record, recorded, pending, results, cards, mirror>>

SaveRecord ==
  /\ At("met") /\ record' = TRUE /\ To("idle")
  /\ UNCHANGED <<scanKeeps, recorded, pending, results, cards, judgeDue, mirror>>

Handle(kind) == At("idle") /\ Coming <= EventCount /\ record /\ Kind = kind

HandleCreated ==
  /\ Handle("created") /\ Done
  /\ UNCHANGED <<scanKeeps, record, recorded, pending, results, cards, judgeDue, mirror>>

By == chain.order[indexer.pos]           \* who submitted, in a submission's handler

(* mistake: a redelivered submission is done with *)
RecordNewSubmission ==
  /\ Handle("submission")
  /\ recorded' = recorded \cup {By}
  /\ IF By \in recorded THEN Done ELSE To("recorded")
  /\ UNCHANGED <<scanKeeps, record, pending, results, cards, judgeDue, mirror>>

RecordSubmission ==
  /\ Handle("submission")
  /\ recorded' = recorded \cup {By} /\ To("recorded")
  /\ UNCHANGED <<scanKeeps, record, pending, results, cards, judgeDue, mirror>>

(* mistake: whatever is held is kept *)
KeepAnyResult ==
  /\ At("recorded") /\ Done
  /\ IF pending[By] # NoResult
     THEN Keep(By, pending[By]) /\ pending' = [pending EXCEPT ![By] = NoResult]
     ELSE UNCHANGED <<results, pending>>
  /\ UNCHANGED <<scanKeeps, record, recorded, cards, judgeDue, mirror>>

(* keepResult, for a new submission and a redelivered one alike: the held   *)
(* result, if it is the one on the chain.                                   *)
KeepResult ==
  /\ At("recorded") /\ Done
  /\ IF pending[By] = chain.of[By]
     THEN Keep(By, pending[By]) /\ pending' = [pending EXCEPT ![By] = NoResult]
     ELSE UNCHANGED <<results, pending>>
  /\ UNCHANGED <<scanKeeps, record, recorded, cards, judgeDue, mirror>>

(* mistake: an outcome that was saved before ends the handler *)
SaveNewOutcome ==
  /\ Handle("closing")
  /\ outcome' = TRUE /\ IF outcome THEN Done ELSE To("outcome")
  /\ UNCHANGED <<scanKeeps, record, recorded, pending, results, cards, judgeDue, listing, payout>>

SaveOutcome ==
  /\ Handle("closing")
  /\ outcome' = TRUE /\ To("outcome")
  /\ UNCHANGED <<scanKeeps, record, recorded, pending, results, cards, judgeDue, listing, payout>>

(* keepJudgeScorecard: the held scorecard, if its hash is the anchored one. *)
KeepCard ==
  LET by == chain.end.by
      card == chain.end.card
  IN /\ At("outcome")
     /\ IF by \in Role /\ heldCard[by] = card
        THEN /\ keptCard' = IF keptCard = NoCard THEN card ELSE keptCard
             /\ heldCard' = [heldCard EXCEPT ![by] = NoCard]
        ELSE UNCHANGED cards
     /\ To("card")
     /\ UNCHANGED <<scanKeeps, record, recorded, pending, results, judgeDue, mirror>>

Unschedule ==
  /\ At("card")
  /\ judgeDue' = "no"
  /\ IF task.listed THEN To("unscheduled") ELSE Done
  /\ UNCHANGED <<scanKeeps, record, recorded, pending, results, cards, mirror>>

(* closeOpenSubmissionTask changes a collecting task only.                  *)
CloseListing ==
  LET won == chain.end.kind = "winner"
  IN /\ At("unscheduled")
     /\ listing' = IF listing # "collecting" THEN listing
                   ELSE IF won THEN "completed" ELSE "failed"
     /\ IF won THEN To("closed") ELSE Done
     /\ UNCHANGED <<scanKeeps, record, recorded, pending, results, cards, judgeDue, outcome, payout>>

(* recordWorkerPayout, with rethrow.  A token no total holds is parked, and *)
(* a marker that is there stands for a credit.  When the SET fails, it may  *)
(* have taken the marker; the database decides.                             *)
TakeMarker ==
  /\ At("closed")
  /\ IF ~task.counted THEN Done /\ UNCHANGED <<marker, history>>
     ELSE \/ marker /\ Done /\ UNCHANGED <<marker, history>>
          \/ ~marker /\ marker' = TRUE /\ To("marked") /\ UNCHANGED history
          \/ /\ Fails("fail") /\ marker' \in {marker, TRUE} /\ To("unsure")
             /\ UNCHANGED <<hLeft, hTorn>>
  /\ UNCHANGED <<task, chain, txs, judge, sending, record, recorded, pending, results, cards,
                 judgeDue, outcome, listing, credited>>

Claiming == At("marked") \/ At("unsure")
Tears == hTorn' = (hTorn \/ (Claiming /\ marker' /\ ~credited'))

(* creditPayoutOnce: the row and the credit in one transaction, which is    *)
(* rolled back for a winner who is not registered.  Then the marker goes,   *)
(* unless that fails too.                                                   *)
CreditWinner ==
  LET winner == chain.end.winner
  IN /\ Claiming /\ Done
     /\ IF credited \/ winner \in Registered
        THEN credited' = TRUE /\ UNCHANGED <<marker, history>>
        ELSE /\ UNCHANGED credited
             /\ \/ marker' = FALSE /\ UNCHANGED history
                \/ Fails("fail") /\ UNCHANGED <<marker, hLeft>> /\ Tears
     /\ UNCHANGED <<task, chain, txs, judge, sending, record, recorded, pending, results, cards,
                    judgeDue, outcome, listing>>

(* A claim stops where its transaction may have been committed or not.      *)
PerhapsCredited ==
  IF Claiming /\ chain.end.winner \in Registered THEN credited' \in {credited, TRUE}
  ELSE UNCHANGED credited

(* The marker is given back by the call that took it, and, when nobody      *)
(* knows who did, if no credit stands behind it; unless that fails too.     *)
GiveMarkerBack ==
  \/ UNCHANGED marker
  \/ (At("marked") \/ (At("unsure") /\ ~credited')) /\ marker' = FALSE

(* mistake: the checkpoint covers the failed event *)
SkipFailed == indexer' = [at |-> "idle", pos |-> Coming]

(* A failed event keeps the checkpoint before its block, a restart finds    *)
(* the last one stored: with the blocks as they may fall, any event that    *)
(* came before may come again.                                              *)
Redeliver == \E p \in 0 .. indexer.pos : indexer' = [at |-> "idle", pos |-> p]

IndexerFails ==
  /\ Fails("fail") /\ Redeliver
  /\ PerhapsCredited /\ GiveMarkerBack /\ Tears
  /\ UNCHANGED <<task, chain, txs, judge, sending, hLeft, record, recorded, pending, results, cards,
                 judgeDue, outcome, listing>>

(* The scan of TaskCancelled, which a void emits too (indexCancels).        *)
CloseRefunded ==
  /\ chain.end.kind \in {"void", "cancel"} /\ Collecting
  /\ listing' = "failed"
  /\ UNCHANGED <<scanKeeps, record, recorded, pending, results, cards, judgeDue, outcome, payout,
                 indexer>>

-----------------------------------------------------------------------------
(* The platform's judge (judgeOne) *)

judgeKeeps == <<task, chain, record, recorded, pending, results, keptCard,
                mirror, indexer, sending>>

JudgeAt(at) == judge.at = at
StayDue == judgeDue' = "due" /\ judge' = JudgeIdle
LeaveToBackup == judgeDue' = "backup" /\ judge' = JudgeIdle
Forget == judgeDue' = "no" /\ judge' = JudgeIdle

(* What was left to the backup judge is looked at once its turn has come.   *)
IsDue ==
  \/ judgeDue = "due"
  \/ judgeDue = "backup" /\ (Closed \/ chain.phase \in {"BackupPick", "AdminResolve"})

OurTurn == chain.phase = "BackupPick" \/ (chain.phase = "VerifierPick" /\ task.ours)

Judged == {s \in recorded : results[s] # NoResult}
Payable == {s \in Judged : results[s] > 0}
Ahead(s, t) == results[s] > results[t] \/ (results[s] = results[t] /\ Place(s) < Place(t))
Winner == CHOOSE s \in Payable : \A t \in Payable \ {s} : Ahead(s, t)

(* mistake: the scorecard is held once its transaction is mined *)
DecideFirst(winner) ==
  LET role == IF chain.phase = "BackupPick" THEN "backup" ELSE "task_verifier"
  IN /\ judge' = [at |-> "send", tx |-> 0,
                  card |-> [role |-> role, winner |-> winner, judged |-> Judged]]
     /\ UNCHANGED <<heldCard, judgeDue>>

(* Its scorecard is held before its transaction goes out.                   *)
Decide(winner) ==
  LET role == IF chain.phase = "BackupPick" THEN "backup" ELSE "task_verifier"
      card == [role |-> role, winner |-> winner, judged |-> Judged]
  IN /\ heldCard' = [heldCard EXCEPT ![role] = card]
     /\ judge' = [at |-> "send", card |-> card, tx |-> 0]
     /\ UNCHANGED judgeDue

(* mistake: with nothing to pay the judge never looks again *)
TakeTurnOnce(late) ==
  IF Cardinality(recorded) < Count /\ ~late THEN StayDue /\ UNCHANGED heldCard
  ELSE IF Payable # {} THEN Decide(Winner)
  ELSE IF chain.phase = "BackupPick" /\ Cardinality(Judged) = Count THEN Decide(Nobody)
  ELSE Forget /\ UNCHANGED heldCard

(* While the scan is behind it waits.  With nothing to pay, the task        *)
(* verifier passes its turn on, and does not look again in it; the backup   *)
(* judge refunds the poster once it has judged every submission.            *)
TakeTurn(late) ==
  IF Cardinality(recorded) < Count /\ ~late THEN StayDue /\ UNCHANGED heldCard
  ELSE IF Payable # {} THEN Decide(Winner)
  ELSE IF chain.phase = "BackupPick" /\ Cardinality(Judged) = Count THEN Decide(Nobody)
  ELSE /\ IF chain.phase = "VerifierPick" THEN LeaveToBackup
          ELSE IF late THEN Forget ELSE StayDue
       /\ UNCHANGED heldCard

(* Its reads, once the task is due.  An outcome implies that the escrow     *)
(* closed.  The clock was read as the tick began, perhaps before the window *)
(* came near its end.                                                       *)
JudgeLook ==
  /\ JudgeAt("idle") /\ IsDue /\ record
  /\ IF Closed \/ chain.phase = "AdminResolve" THEN Forget /\ UNCHANGED heldCard
     ELSE IF ~OurTurn THEN StayDue /\ UNCHANGED heldCard
     ELSE IF Count = 0 \/ ~task.listed THEN Forget /\ UNCHANGED heldCard
     ELSE \E late \in {FALSE, chain.late} : TakeTurn(late)
  /\ UNCHANGED <<judgeKeeps, txs, history>>

Broadcast == txs' = Append(txs, [card |-> judge.card, st |-> "pool"])

(* A transaction goes out only if its gas can be estimated, which needs the *)
(* escrow to accept it.                                                     *)
SendTx ==
  /\ JudgeAt("send")
  /\ IF Accepts(judge.card)
     THEN /\ Broadcast /\ judge' = [judge EXCEPT !.at = "wait", !.tx = Len(txs')]
          /\ UNCHANGED judgeDue
     ELSE StayDue /\ UNCHANGED txs
  /\ UNCHANGED <<judgeKeeps, heldCard, history>>

(* The wait ends after a minute; for an evicted transaction it always does. *)
Receipt ==
  /\ JudgeAt("wait") /\ txs[judge.tx].st # "pool"
  /\ IF txs[judge.tx].st = "mined" THEN Forget ELSE StayDue
  /\ UNCHANGED <<judgeKeeps, txs, heldCard, history>>

LeftInPool == hLeft' = (hLeft \/ (JudgeAt("wait") /\ txs[judge.tx].st = "pool"))

JudgeTimeout ==
  /\ JudgeAt("wait") /\ txs[judge.tx].st = "pool" /\ Fails("timeout")
  /\ StayDue /\ LeftInPool
  /\ UNCHANGED <<judgeKeeps, txs, heldCard, hTorn>>

(* What was to be sent may have gone out all the same.                      *)
PerhapsSent ==
  IF JudgeAt("send") /\ Accepts(judge.card)
  THEN \/ Broadcast /\ hLeft' = TRUE
       \/ UNCHANGED <<txs, hLeft>>
  ELSE LeftInPool /\ UNCHANGED txs

(* Looking again is scheduled, unless that fails as well.                   *)
JudgeFails ==
  /\ ~JudgeAt("idle") /\ Fails("fail") /\ PerhapsSent
  /\ judge' = JudgeIdle /\ judgeDue' \in {judgeDue, "due"}
  /\ UNCHANGED <<judgeKeeps, heldCard, hTorn>>

Crash ==
  /\ Fails("crash") /\ PerhapsSent /\ PerhapsCredited /\ UNCHANGED marker /\ Tears /\ Redeliver
  /\ judge' = JudgeIdle /\ sending' = [s \in Submitter |-> NoResult]
  /\ UNCHANGED <<task, chain, record, recorded, pending, results, cards, judgeDue, outcome, listing>>

Index ==
  \/ Meet \/ SaveRecord \/ HandleCreated \/ RecordSubmission \/ KeepResult
  \/ SaveOutcome \/ KeepCard \/ Unschedule \/ CloseListing \/ TakeMarker \/ CreditWinner
Judge == JudgeLook \/ SendTx \/ Receipt

Next ==
  \/ \E s \in Submitter : \E r \in Sends[s] : Land(s, r) \/ SubmitOpen(s, r)
  \/ \E s \in Submitter : HoldResult(s) \/ Lapse(s) \/ Resend(s)
  \/ TimePasses \/ OthersClose \/ \E i \in DOMAIN txs : Mine(i) \/ Evict(i)
  \/ Index \/ CloseRefunded \/ Judge
  \/ IndexerFails \/ JudgeTimeout \/ JudgeFails \/ Crash

Spec == Init /\ [][Next]_vars

(* The loops run as long as the backend does, and the pool is mined in      *)
(* order.  Time, people and faults owe nothing.                             *)
Fairness == WF_vars(Index) /\ WF_vars(Judge) /\ WF_vars(\E i \in DOMAIN txs : Mine(i))

FairSpec == Spec /\ Fairness

-----------------------------------------------------------------------------
(* Properties *)

TypeOK ==
  LET Maybe == [Submitter -> Result \cup {NoResult}]
      AnyCard == Scorecard \cup {NoCard}
  IN /\ task \in Tasks
     /\ chain.phase \in {Phase[i] : i \in DOMAIN Phase} \cup {"Closed"} /\ chain.of \in Maybe
     /\ {chain.order[i] : i \in DOMAIN chain.order} = {s \in Submitter : chain.of[s] # NoResult}
     /\ chain.end.card \in AnyCard /\ \A i \in DOMAIN txs : txs[i].card \in AnyCard
     /\ pending \in Maybe /\ results \in Maybe /\ sending \in Maybe
     /\ recorded \subseteq Submitter /\ heldCard \in [Role -> AnyCard] /\ keptCard \in AnyCard
     /\ {record, outcome, marker, credited, hLeft, hTorn} \subseteq BOOLEAN
     /\ judgeDue \in {"no", "due", "backup"}
     /\ listing \in {"collecting", "completed", "failed"}
     /\ indexer.pos \in 0 .. EventCount /\ judge.tx \in 0 .. Len(txs) /\ events \in 0 .. MaxEvents

(* What the platform decides on the escrow follows from what the submitters *)
(* committed to there.  The winner it pays is the best of the submissions   *)
(* it judged, by their commitments; it refunds the poster only when none of *)
(* all the submissions can be paid.                                         *)
JudgedOnCommitments ==
  LET card == chain.end.card
      ahead(s, t) == chain.of[s] > chain.of[t] \/ (chain.of[s] = chain.of[t] /\ Place(s) <= Place(t))
  IN chain.end.by \in Role =>
       IF chain.end.kind = "winner"
       THEN chain.of[card.winner] > 0 /\ \A t \in card.judged : ahead(card.winner, t)
       ELSE \A s \in Submitter : chain.of[s] <= 0

(* The scorecard the escrow anchored with a decision of the platform is the *)
(* one kept, once the scan has handled it, unless the judge gave up on a    *)
(* transaction that was still to be mined: looking again, it replaces the   *)
(* held scorecard.                                                          *)
AnchoredIsKept ==
  chain.end.by \in Role /\ ~hLeft
    /\ (indexer.pos = EventCount
        \/ indexer.at \in {"card", "unscheduled", "closed", "marked", "unsure"})
    => keptCard = chain.end.card

(* A held result that is the one on the chain is kept, or lapses: nothing   *)
(* else loses it, whenever the handler of its event stops.                  *)
HeldIsKept ==
  \A s \in Callers :
    (chain.of[s] # NoResult /\ pending[s] = chain.of[s] /\ sending[s] = NoResult
      /\ s \notin recorded)
      ~> (results[s] = chain.of[s] \/ pending[s] = NoResult)

(* The platform uses its turn.  While its window lasts it decides a listed  *)
(* task of which a kept result can be paid, and as backup judge one of      *)
(* which every result is kept.  A turn as task verifier that it has passed  *)
(* on, with nothing to pay, is over for it: what is kept after that waits   *)
(* for its turn as backup judge.                                            *)
PlatformCanDecide ==
  LET kept == {s \in Submitter : chain.of[s] # NoResult /\ results[s] # NoResult}
      passedOn == chain.phase = "VerifierPick" /\ judgeDue = "backup"
  IN /\ ~Closed /\ task.listed /\ OurTurn /\ ~chain.late /\ ~passedOn
     /\ \/ \E s \in kept : results[s] > 0
        \/ chain.phase = "BackupPick" /\ Count > 0 /\ Cardinality(kept) = Count
PlatformDecides == PlatformCanDecide ~> ~PlatformCanDecide

(* A pick or a void on the escrow ends as an outcome, with nothing left to  *)
(* do for the judge, and a listed task's listing is closed.  The winner is  *)
(* credited, once registered and in a token that is counted, unless a claim *)
(* stopped between its marker and its commit and left the marker behind.    *)
ClosingIsMirrored ==
  LET won == chain.end.kind = "winner"
      owed == won /\ task.counted /\ chain.end.winner \in Registered
  IN chain.end.kind \in {"winner", "void"} ~>
       /\ outcome /\ judgeDue = "no"
       /\ task.listed => /\ listing = (IF won THEN "completed" ELSE "failed")
                          /\ owed => credited \/ hTorn

=============================================================================
