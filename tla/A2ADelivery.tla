---------------------------- MODULE A2ADelivery ----------------------------
(***************************************************************************)
(* What happens to an A2A task once its worker is assigned: the worker     *)
(* submits, a judge passes or fails the evidence on the escrow, and every  *)
(* observer of the outcome (the executor's /finalize, the poster's /verify,*)
(* the verifier's /verdict, /submissions/confirm, and the listener for     *)
(* rulings) mirrors it: it credits the executor for a payment, docks the   *)
(* executor's reputation for a failed round, and moves the task's record.  *)
(* One task and its one executor; any number of handlers in flight.        *)
(*                                                                         *)
(* A handler runs from one await to the next without interruption: one     *)
(* action per such stretch, as in A2AAssignment.  A transaction of the     *)
(* database is one step, and so is a command of Redis.                     *)
(***************************************************************************)
EXTENDS Integers, Sequences

CONSTANTS
  Call,          \* HTTP handlers the backend can have in flight
  Listener,      \* the poll loop that mirrors rulings, one ruling at a time
  Nobody,        \* no process
  MaxAttempts,   \* MAX_SUBMISSION_ATTEMPTS
  MaxPool,       \* bound: settlement transactions waiting in the pool
  MaxFaults,     \* bound: faults in a run
  Happens        \* the optional events of a run, a subset of Events

(* Faults.  "redis", "db": a command or a query of an accounting step      *)
(* fails, its effect done or not; "rpc": a send fails; "timeout": a wait   *)
(* for a receipt ends before the transaction is mined; "crash": the        *)
(* backend restarts; "restore": Redis comes back from an older snapshot.   *)
Fault == {"redis", "db", "rpc", "timeout", "crash", "restore"}

(* "unregistered": the executor may be missing from the agent table;       *)
(* "dispute": disputes and their rulings.                                  *)
Events == Fault \cup {"unregistered", "dispute"}

ASSUME Parameters ==
  /\ Listener \notin Call /\ Nobody \notin Call \cup {Listener}
  /\ MaxAttempts \in Nat \ {0} /\ MaxPool \in Nat /\ MaxFaults \in Nat
  /\ Happens \subseteq Events

Process == Call \cup {Listener}
Attempt == 1 .. MaxAttempts
Ruling == 0                \* the round key of an admin ruling, beside Attempt's
RoundKey == Attempt \cup {Ruling}

VARIABLES
  mode,        \* meta.verificationMode
  state,       \* a2a:state:<task>
  marks,       \* accounting markers in Redis
  row,         \* the task's credited_payouts row
  registered,  \* the executor has a row in agent_executors
  credits,     \* how often that row's earnings and task count were moved
  docks,       \* how often its reputation was docked, by round
  chain,       \* the escrow's record of the task
  late,        \* the deadline has passed
  handed,      \* the executor holds an unsigned submitEvidence
  pool,        \* the bridge's settlement transactions, in nonce order
  ruled,       \* whom the escrow's ruling event favours
  proc,        \* handlers
  faults,      \* faults so far
  backup,      \* the Redis snapshot a restore would bring back
  hJudged      \* history: per round, the verdict and the round it was formed on

ledger == <<row, registered, credits, docks>>
redis == <<state, marks, backup>>
escrow == <<chain, late, handed, pool, ruled, hJudged>>
vars == <<mode, redis, ledger, escrow, proc, faults>>

Mode == {"auto", "manual", "agent"}
TaskState ==
  [status : {"accepted", "submitted", "awaiting_verification", "verified", "failed"},
   round : 0 .. MaxAttempts + 1, result : BOOLEAN]
Marks == [credited : BOOLEAN, rounds : SUBSET RoundKey, ruling : BOOLEAN, done : BOOLEAN]
EscrowStatus == {"Assigned", "Submitted", "Verified", "Completed", "Cancelled", "Disputed"}
EscrowTask == [status : EscrowStatus, attempts : 0 .. MaxAttempts, escalated : BOOLEAN]
Settlement == [passed : BOOLEAN, on : 0 .. MaxAttempts + 1, by : Process \cup {Nobody}]

Fresh == [status |-> "accepted", round |-> 0, result |-> FALSE]
Unmarked == [credited |-> FALSE, rounds |-> {}, ruling |-> FALSE, done |-> FALSE]
Assigned == [status |-> "Assigned", attempts |-> 0, escalated |-> FALSE]

(* A handler's program counter and the locals it carries over an await.    *)
Idle == [at |-> "idle", op |-> "none", seen |-> Fresh, passed |-> FALSE, round |-> 0,
         marker |-> "none", patch |-> "none", tx |-> "none"]
Handler ==
  [at : {"idle", "chain", "send", "reread", "load", "store", "wait", "mark", "claim",
         "unmark", "round", "dock", "history", "unround", "ruling", "unrule", "done"},
   op : {"none", "submit", "finalize", "verify", "verdict", "confirm", "ruling"},
   seen : TaskState, passed : BOOLEAN, round : RoundKey,
   marker : {"none", "set", "unknown", "unregistered"},
   patch : {"none", "submitted", "awaiting_verification", "verified", "failed",
            "txHash", "verifyError"},
   tx : {"none", "pool", "success", "reverted"}]

Init ==
  /\ mode \in Mode /\ state = Fresh /\ marks = Unmarked /\ row = FALSE
  /\ registered \in IF "unregistered" \in Happens THEN BOOLEAN ELSE {TRUE}
  /\ credits = 0 /\ docks = [r \in RoundKey |-> 0]
  /\ chain = Assigned /\ late = FALSE /\ handed = FALSE /\ pool = <<>> /\ ruled = "none"
  /\ proc = [p \in Process |-> Idle] /\ faults = 0
  /\ backup = [state |-> Fresh, marks |-> Unmarked]
  /\ hJudged = [r \in Attempt |-> [verdict |-> "none", on |-> 0]]

At(p, at) == proc[p].at = at
Goto(p, local) == proc' = [proc EXCEPT ![p] = local]
Move(p, at) == Goto(p, [proc[p] EXCEPT !.at = at])
Done(p) == Goto(p, Idle)
Write(p, local, patch) ==
  Goto(p, [local EXCEPT !.at = "load", !.patch = patch, !.seen = Fresh, !.marker = "none"])

Fails(fault) == fault \in Happens /\ faults < MaxFaults /\ faults' = faults + 1
Works == UNCHANGED faults
Outcome(passed) == IF passed THEN "Completed" ELSE "Verified"

-----------------------------------------------------------------------------
(* The routes, up to their first change *)

(* A handler begins: it reads the record, and the chain at its next step.  *)
Begin(c, op, passed) ==
  /\ c \in Call /\ At(c, "idle")
  /\ Goto(c, [Idle EXCEPT !.at = "chain", !.op = op, !.seen = state, !.passed = passed])
  /\ UNCHANGED <<mode, redis, ledger, escrow, faults>>

(* /submit; "result" is what autoVerify will say of the output.            *)
Submit(c, result) ==
  /\ state.status \in {"accepted", "failed"} /\ (result => mode = "auto")
  /\ Begin(c, "submit", result)

(* /finalize: manual mode answers without doing anything.                  *)
Finalize(c) ==
  mode # "manual" /\ state.status = "submitted" /\ Begin(c, "finalize", state.result)

(* /verify: the poster's verdict.                                          *)
Verify(c, passed) ==
  mode = "manual" /\ state.status = "submitted" /\ Begin(c, "verify", passed)

(* /verdict: the verifier reports what it settled on the escrow.           *)
Verdict(c, passed) ==
  /\ mode = "agent" /\ state.status \in {"awaiting_verification", "submitted"}
  /\ Begin(c, "verdict", passed)

(* /submissions/confirm: a receipt of this task carries TaskCompleted, or  *)
(* a failed VerificationCompleted whose round the chain names.             *)
Confirm(c) ==
  /\ c \in Call /\ At(c, "idle")
  /\ LET local == [Idle EXCEPT !.op = "confirm"]
     IN \/ chain.status = "Completed" /\ Goto(c, [local EXCEPT !.at = "mark"])
        \/ \E r \in Attempt :
             /\ hJudged[r].verdict = "fail"
             /\ Goto(c, [local EXCEPT !.at = "round", !.round = r])
  /\ UNCHANGED <<mode, redis, ledger, escrow, faults>>

(* /rebroadcast: a new copy of a transaction that never landed.            *)
Rebroadcast ==
  /\ state.status = "submitted" /\ chain.status = "Assigned" /\ ~late
  /\ handed' = TRUE
  /\ UNCHANGED <<mode, redis, ledger, chain, late, pool, ruled, hJudged, proc, faults>>

(* mistake: the record moves first, and nothing credits afterwards *)
AdoptRecordOnly(p, local) ==
  Write(p, [Idle EXCEPT !.op = local.op, !.round = local.round],
        IF local.passed THEN "verified" ELSE "failed")

(* Mirror an outcome the escrow has: credit a payment before the record    *)
(* moves, dock a failure after.                                            *)
Adopt(p, local) ==
  LET next == [Idle EXCEPT !.op = local.op, !.round = local.round]
  IN IF local.passed THEN Goto(p, [next EXCEPT !.at = "mark"]) ELSE Write(p, next, "failed")

(* mistake: the round that the escrow shows is not compared *)
RoundAssumed(local) == local.seen.round >= 0

(* The gates on what the escrow shows.                                     *)
RoundBroadcast(local) == chain.attempts >= local.seen.round

MaySubmit(local) ==
  /\ local.op = "submit"
  /\ local.seen.status = "failed" =>
       chain.status = "Verified" /\ chain.attempts < MaxAttempts /\ ~late

MayPark(local) ==
  /\ local.op = "finalize" /\ mode = "agent" /\ RoundBroadcast(local)
  /\ chain.status \in {"Submitted", "Verified", "Completed"}

Judges(local) == (local.op = "finalize" /\ mode = "auto") \/ local.op = "verify"

MaySettle(local) == Judges(local) /\ RoundBroadcast(local) /\ chain.status = "Submitted"

(* mistake: only a failure is reconciled *)
MayAdoptFailures(local) ==
  /\ Judges(local) \/ local.op = "verdict"
  /\ RoundBroadcast(local) /\ chain.status = "Verified"
  /\ local.op = "finalize" \/ ~local.passed

(* Only an automatic verdict gives way to what the escrow says.            *)
MayAdopt(local) ==
  /\ Judges(local) \/ local.op = "verdict"
  /\ RoundBroadcast(local) /\ chain.status \in {"Verified", "Completed"}
  /\ local.op = "finalize" \/ chain.status = Outcome(local.passed)

ReadChain(c) ==
  /\ c \in Call /\ At(c, "chain")
  /\ LET local == [proc[c] EXCEPT !.round = chain.attempts]
     IN \/ MaySubmit(local) /\ Write(c, local, "submitted")
        \/ MayPark(local) /\ Write(c, local, "awaiting_verification")
        \/ MaySettle(local) /\ Goto(c, [local EXCEPT !.at = "send"])
        \/ MayAdopt(local) /\ Adopt(c, [local EXCEPT !.passed = (chain.status = "Completed")])
        \/ /\ ~MaySubmit(local) /\ ~MayPark(local) /\ ~MaySettle(local) /\ ~MayAdopt(local)
           /\ Done(c)
  /\ UNCHANGED <<mode, redis, ledger, escrow, faults>>

-----------------------------------------------------------------------------
(* The store *)

(* updateState's patches, by name; the two of the settlement touch fields  *)
(* that nothing here reads.                                                *)
Patched(local, old) ==
  CASE local.patch = "submitted" ->
         [status |-> "submitted", round |-> local.round + 1, result |-> local.passed]
    [] local.patch \in {"awaiting_verification", "verified", "failed"} ->
         [old EXCEPT !.status = local.patch]
    [] OTHER -> old

(* updateState reads the record, awaits, and writes all of it back.        *)
Load(p) ==
  /\ At(p, "load")
  /\ Goto(p, [proc[p] EXCEPT !.at = "store", !.seen = state])
  /\ UNCHANGED <<mode, redis, ledger, escrow, faults>>

(* What follows depends on the caller: /submit answers with the unsigned   *)
(* transaction, a failed round is docked, a ruling is marked done.         *)
Store(p) ==
  /\ At(p, "store")
  /\ state' = Patched(proc[p], proc[p].seen)
  /\ handed' = (handed \/ proc[p].patch = "submitted")
  /\ \/ proc[p].patch = "txHash" /\ Goto(p, [proc[p] EXCEPT !.at = "wait", !.seen = Fresh])
     \/ proc[p].op = "ruling" /\ Goto(p, [Idle EXCEPT !.at = "done", !.op = "ruling"])
     \/ /\ proc[p].op # "ruling" /\ proc[p].patch = "failed"
        /\ Goto(p, [Idle EXCEPT !.at = "round", !.op = proc[p].op, !.round = proc[p].round])
     \/ /\ proc[p].op # "ruling" /\ proc[p].patch \notin {"failed", "txHash"}
        /\ Done(p)
  /\ UNCHANGED <<mode, marks, backup, ledger, chain, late, pool, ruled, hJudged, faults>>

-----------------------------------------------------------------------------
(* settleVerification *)

(* The serial queue lets a send through once the one before is mined or    *)
(* its sender has stopped waiting.  Estimating gas reverts unless the      *)
(* task is Submitted.                                                      *)
Send(c) ==
  /\ At(c, "send")
  /\ \A i \in DOMAIN pool : pool[i].by = Nobody
  /\ \/ /\ chain.status = "Submitted" /\ Len(pool) < MaxPool
        /\ pool' = Append(pool, [passed |-> proc[c].passed, on |-> proc[c].seen.round, by |-> c])
        /\ Write(c, [proc[c] EXCEPT !.tx = "pool"], "txHash") /\ Works
     \/ chain.status # "Submitted" /\ Move(c, "reread") /\ UNCHANGED pool /\ Works
     \/ Fails("rpc") /\ Write(c, proc[c], "verifyError") /\ UNCHANGED pool
  /\ UNCHANGED <<mode, redis, ledger, chain, late, handed, ruled, hJudged>>

(* Reverted InvalidStatus: success if the escrow has the same outcome.     *)
Reread(c) ==
  /\ At(c, "reread")
  /\ IF chain.status = Outcome(proc[c].passed)
     THEN Adopt(c, proc[c])
     ELSE Write(c, proc[c], "verifyError")
  /\ UNCHANGED <<mode, redis, ledger, escrow, faults>>

(* mistake: a receipt is taken for a success *)
ReceiptUnread(c) ==
  /\ At(c, "wait") /\ proc[c].tx \in {"success", "reverted"} /\ Adopt(c, proc[c])
  /\ UNCHANGED <<mode, redis, ledger, escrow, faults>>

Receipt(c) ==
  /\ At(c, "wait") /\ proc[c].tx \in {"success", "reverted"}
  /\ IF proc[c].tx = "success" THEN Adopt(c, proc[c]) ELSE Write(c, proc[c], "verifyError")
  /\ UNCHANGED <<mode, redis, ledger, escrow, faults>>

Abandon(txs, leavers) ==
  [i \in DOMAIN txs |-> IF txs[i].by \in leavers THEN [txs[i] EXCEPT !.by = Nobody] ELSE txs[i]]

(* The wait for the receipt ends after a minute, the transaction stays.    *)
WaitTimeout(c) ==
  /\ At(c, "wait") /\ proc[c].tx = "pool" /\ Fails("timeout")
  /\ pool' = Abandon(pool, {c})
  /\ Write(c, [proc[c] EXCEPT !.tx = "none"], "verifyError")
  /\ UNCHANGED <<mode, redis, ledger, chain, late, handed, ruled, hJudged>>

-----------------------------------------------------------------------------
(* recordWorkerPayout: the marker, then one transaction that claims the    *)
(* row and moves the executor's totals                                     *)

Credited(p, local) ==
  IF local.op = "confirm" THEN Done(p) ELSE Write(p, local, "verified")

(* A SET NX that errors may have set the marker.                           *)
Mark(p) ==
  /\ At(p, "mark")
  /\ \/ marks.credited /\ Credited(p, proc[p]) /\ UNCHANGED marks /\ Works
     \/ /\ ~marks.credited /\ marks' = [marks EXCEPT !.credited = TRUE] /\ Works
        /\ Goto(p, [proc[p] EXCEPT !.at = "claim", !.marker = "set"])
     \/ /\ Fails("redis")
        /\ \E set \in {marks.credited, TRUE} : marks' = [marks EXCEPT !.credited = set]
        /\ Goto(p, [proc[p] EXCEPT !.at = "claim", !.marker = "unknown"])
  /\ UNCHANGED <<mode, state, backup, ledger, escrow>>

(* mistake: the marker alone guards the totals *)
ClaimUnchecked(p) ==
  /\ At(p, "claim")
  /\ \/ registered /\ row' = TRUE /\ credits' = credits + 1 /\ Credited(p, proc[p]) /\ Works
     \/ Fails("db") /\ Move(p, "unmark") /\ UNCHANGED <<row, credits>>
  /\ UNCHANGED <<mode, redis, registered, docks, escrow>>

(* creditPayoutOnce.  A COMMIT whose answer is lost fails the call too.    *)
Claim(p) ==
  LET commit == /\ ~row /\ registered
                /\ row' = TRUE /\ credits' = credits + 1
  IN /\ At(p, "claim")
     /\ \/ commit /\ Credited(p, proc[p]) /\ Works
        \/ row /\ Credited(p, proc[p]) /\ UNCHANGED <<row, credits>> /\ Works
        \/ /\ ~row /\ ~registered /\ UNCHANGED <<row, credits>> /\ Works
           /\ Goto(p, [proc[p] EXCEPT !.at = "unmark", !.marker = "unregistered"])
        \/ /\ Fails("db") /\ (commit \/ UNCHANGED <<row, credits>>)
           /\ Move(p, "unmark")
     /\ UNCHANGED <<mode, redis, registered, docks, escrow>>

(* Undo this call's marker, best effort.  When it is not known whose it    *)
(* is, only if no row stands behind it, as far as the database answers.    *)
(* A failure is thrown to the route or the listener, which stop; /confirm  *)
(* swallows it.                                                            *)
Unmark(p) ==
  /\ At(p, "unmark")
  /\ \/ /\ proc[p].marker = "unknown" => ~row
        /\ marks' = [marks EXCEPT !.credited = FALSE] /\ Works
     \/ proc[p].marker = "unknown" /\ row /\ UNCHANGED marks /\ Works
     \/ (Fails("redis") \/ Fails("db")) /\ UNCHANGED marks
  /\ IF proc[p].marker = "unregistered" THEN Credited(p, proc[p]) ELSE Done(p)
  /\ UNCHANGED <<mode, state, backup, ledger, escrow>>

-----------------------------------------------------------------------------
(* recordWorkerDispute: the round's marker, the reputation, its history    *)

(* A ruling's refund closes the record afterwards, a route already has.    *)
Docked(p) == IF proc[p].op = "ruling" THEN Write(p, proc[p], "failed") ELSE Done(p)
DockFailed(p) == IF proc[p].op = "ruling" THEN Move(p, "unrule") ELSE Done(p)

(* mistake: the round's marker is set but never looked at *)
ClaimRoundAgain(p) ==
  /\ At(p, "round")
  /\ marks' = [marks EXCEPT !.rounds = @ \cup {proc[p].round}] /\ Move(p, "dock") /\ Works
  /\ UNCHANGED <<mode, state, backup, ledger, escrow>>

ClaimRound(p) ==
  LET r == proc[p].round
      claimed == marks' = [marks EXCEPT !.rounds = @ \cup {r}]
  IN /\ At(p, "round")
     /\ \/ r \in marks.rounds /\ Docked(p) /\ UNCHANGED marks /\ Works
        \/ r \notin marks.rounds /\ claimed /\ Move(p, "dock") /\ Works
        \/ Fails("redis") /\ (claimed \/ UNCHANGED marks) /\ DockFailed(p)
     /\ UNCHANGED <<mode, state, backup, ledger, escrow>>

Dock(p) ==
  /\ At(p, "dock")
  /\ \/ docks' = [docks EXCEPT ![proc[p].round] = @ + 1] /\ Move(p, "history") /\ Works
     \/ Fails("db") /\ UNCHANGED docks /\ Move(p, "unround")
  /\ UNCHANGED <<mode, redis, row, registered, credits, escrow>>

(* reputationDecay.recordDispute, after adjustReputation has committed.    *)
RecordHistory(p) ==
  /\ At(p, "history")
  /\ \/ Docked(p) /\ Works
     \/ Fails("db") /\ Move(p, "unround")
  /\ UNCHANGED <<mode, redis, ledger, escrow>>

Unround(p) ==
  /\ At(p, "unround") /\ DockFailed(p)
  /\ \/ marks' = [marks EXCEPT !.rounds = @ \ {proc[p].round}] /\ Works
     \/ Fails("redis") /\ UNCHANGED marks
  /\ UNCHANGED <<mode, state, backup, ledger, escrow>>

-----------------------------------------------------------------------------
(* handleDisputeResolved *)

(* The event is delivered until it is marked done.  A node that still      *)
(* shows Disputed makes the listener throw, which changes nothing.         *)
Mirror ==
  /\ At(Listener, "idle") /\ ruled # "none" /\ ~marks.done
  /\ LET local == [Idle EXCEPT !.op = "ruling", !.round = Ruling]
     IN IF ruled = "worker" THEN Goto(Listener, [local EXCEPT !.at = "mark"])
        ELSE Goto(Listener, [local EXCEPT !.at = "ruling"])
  /\ UNCHANGED <<mode, redis, ledger, escrow, faults>>

(* mistake: the refund closes the record and docks nobody *)
ClaimRulingUndocked ==
  /\ At(Listener, "ruling")
  /\ Write(Listener, proc[Listener], "failed")
  /\ marks' = [marks EXCEPT !.ruling = TRUE] /\ Works
  /\ UNCHANGED <<mode, state, backup, ledger, escrow>>

(* a2a:dispute-recorded:<task>, beside the round's own marker.             *)
ClaimRuling ==
  /\ At(Listener, "ruling")
  /\ \/ marks.ruling /\ Write(Listener, proc[Listener], "failed") /\ UNCHANGED marks /\ Works
     \/ /\ ~marks.ruling /\ marks' = [marks EXCEPT !.ruling = TRUE]
        /\ Move(Listener, "round") /\ Works
     \/ /\ Fails("redis") /\ Done(Listener)
        /\ \E set \in {marks.ruling, TRUE} : marks' = [marks EXCEPT !.ruling = set]
  /\ UNCHANGED <<mode, state, backup, ledger, escrow>>

UnclaimRuling ==
  /\ At(Listener, "unrule") /\ Done(Listener)
  /\ \/ marks' = [marks EXCEPT !.ruling = FALSE] /\ Works
     \/ Fails("redis") /\ UNCHANGED marks
  /\ UNCHANGED <<mode, state, backup, ledger, escrow>>

MarkDone ==
  /\ At(Listener, "done") /\ Done(Listener)
  /\ \/ marks' = [marks EXCEPT !.done = TRUE] /\ Works
     \/ Fails("redis") /\ UNCHANGED marks
  /\ UNCHANGED <<mode, state, backup, ledger, escrow>>

-----------------------------------------------------------------------------
(* The escrow *)

offchain == <<mode, redis, ledger, faults>>

(* mistake: a failed round may always be tried again *)
SubmitEvidenceUnlimited ==
  /\ handed /\ ~late /\ chain.status \in {"Assigned", "Verified"}
  /\ chain' = [chain EXCEPT !.status = "Submitted", !.attempts = @ + 1]
  /\ handed' = FALSE
  /\ UNCHANGED <<offchain, late, pool, ruled, hJudged, proc>>

SubmitEvidence ==
  /\ handed /\ ~late
  /\ \/ chain.status = "Assigned"
     \/ chain.status = "Verified" /\ chain.attempts < MaxAttempts
  /\ chain' = [chain EXCEPT !.status = "Submitted", !.attempts = @ + 1]
  /\ handed' = FALSE
  /\ UNCHANGED <<offchain, late, pool, ruled, hJudged, proc>>

Judged(passed, on) ==
  /\ chain.status = "Submitted"
  /\ chain' = [chain EXCEPT !.status = Outcome(passed)]
  /\ hJudged' = [hJudged EXCEPT ![chain.attempts] =
                   [verdict |-> IF passed THEN "pass" ELSE "fail", on |-> on]]

(* The task's own verifier settles it directly.                            *)
VerifierSettles(passed) ==
  /\ mode = "agent" /\ Judged(passed, chain.attempts)
  /\ UNCHANGED <<offchain, late, handed, pool, ruled, proc>>

(* The bridge's oldest transaction is mined.                               *)
Mine ==
  /\ pool # <<>>
  /\ LET tx == Head(pool)
         told(outcome) ==
           proc' = [p \in Process |-> IF p = tx.by THEN [proc[p] EXCEPT !.tx = outcome]
                                      ELSE proc[p]]
     IN \/ Judged(tx.passed, tx.on) /\ told("success")
        \/ chain.status # "Submitted" /\ told("reverted") /\ UNCHANGED <<chain, hJudged>>
  /\ pool' = Tail(pool)
  /\ UNCHANGED <<offchain, late, handed, ruled>>

Deadline ==
  /\ ~late /\ late' = TRUE
  /\ UNCHANGED <<offchain, chain, handed, pool, ruled, hJudged, proc>>

(* raiseDispute, in time or as an appeal; the poster's claimTimeout.       *)
Dispute ==
  /\ "dispute" \in Happens
  /\ (chain.status = "Submitted" /\ ~late) \/ chain.status = "Verified"
  /\ chain' = [chain EXCEPT !.status = "Disputed"]
  /\ UNCHANGED <<offchain, late, handed, pool, ruled, hJudged, proc>>

ClaimTimeout ==
  /\ late
  /\ \/ /\ chain.status = "Submitted" /\ "dispute" \in Happens
        /\ chain' = [chain EXCEPT !.status = "Disputed", !.escalated = TRUE]
     \/ /\ chain.status \in {"Assigned", "Verified", "Disputed"} /\ ~chain.escalated
        /\ chain' = [chain EXCEPT !.status = "Cancelled"]
  /\ UNCHANGED <<offchain, late, handed, pool, ruled, hJudged, proc>>

(* resolveDispute and releaseUnjudgedWork, and the events they emit.       *)
Rule(favours) ==
  /\ chain.status = "Disputed"
  /\ chain' = [chain EXCEPT !.status = IF favours = "worker" THEN "Completed" ELSE "Cancelled"]
  /\ ruled' = favours
  /\ UNCHANGED <<offchain, late, handed, pool, hJudged, proc>>

-----------------------------------------------------------------------------
(* The host *)

Register ==
  /\ ~registered /\ registered' = TRUE
  /\ UNCHANGED <<mode, redis, row, credits, docks, escrow, proc, faults>>

Crash ==
  /\ Fails("crash")
  /\ proc' = [p \in Process |-> Idle]
  /\ pool' = Abandon(pool, Process)
  /\ UNCHANGED <<mode, redis, ledger, chain, late, handed, ruled, hJudged>>

(* A snapshot is taken while no handler is at work (a bound).              *)
Snapshot ==
  /\ "restore" \in Happens /\ faults < MaxFaults /\ \A p \in Process : At(p, "idle")
  /\ backup' = [state |-> state, marks |-> marks]
  /\ UNCHANGED <<mode, state, marks, ledger, escrow, proc, faults>>

(* A restore rewinds the checkpoints too: rulings are scanned again.       *)
Restore ==
  /\ Fails("restore") /\ state' = backup.state /\ marks' = backup.marks
  /\ UNCHANGED <<mode, backup, ledger, escrow, proc>>

-----------------------------------------------------------------------------
Route(c) ==
  \/ \E answer \in BOOLEAN : Submit(c, answer) \/ Verify(c, answer) \/ Verdict(c, answer)
  \/ Finalize(c) \/ Confirm(c)

Continue(p) ==
  \/ ReadChain(p) \/ Load(p) \/ Store(p)
  \/ Send(p) \/ Reread(p) \/ Receipt(p)
  \/ Mark(p) \/ Claim(p) \/ Unmark(p)
  \/ ClaimRound(p) \/ Dock(p) \/ RecordHistory(p) \/ Unround(p)

Listen == Mirror \/ ClaimRuling \/ UnclaimRuling \/ MarkDone

Chain ==
  \/ SubmitEvidence \/ Mine \/ Deadline \/ Dispute \/ ClaimTimeout
  \/ \E passed \in BOOLEAN : VerifierSettles(passed)
  \/ \E favours \in {"worker", "poster"} : Rule(favours)

Host == Register \/ Crash \/ Snapshot \/ Restore

Next ==
  \/ \E c \in Call : Route(c) \/ WaitTimeout(c)
  \/ \E p \in Process : Continue(p)
  \/ Rebroadcast \/ Listen \/ Chain \/ Host

Spec == Init /\ [][Next]_vars

(* Handlers that have begun go on, mined transactions leave the pool, and  *)
(* the poll loop comes round; no call is fair, and neither is the choice   *)
(* of an answer.                                                           *)
Fairness ==
  /\ \A p \in Process : WF_vars(Continue(p))
  /\ WF_vars(Listen) /\ WF_vars(Mine)

FairSpec == Spec /\ Fairness

-----------------------------------------------------------------------------
(* Properties *)

TypeOK ==
  /\ mode \in Mode /\ state \in TaskState /\ marks \in Marks
  /\ row \in BOOLEAN /\ registered \in BOOLEAN /\ credits \in Nat
  /\ docks \in [RoundKey -> Nat]
  /\ chain \in EscrowTask /\ late \in BOOLEAN /\ handed \in BOOLEAN
  /\ pool \in Seq(Settlement) /\ ruled \in {"none", "worker", "poster"}
  /\ proc \in [Process -> Handler] /\ faults \in 0 .. MaxFaults
  /\ backup \in [state : TaskState, marks : Marks]
  /\ hJudged \in [Attempt -> [verdict : {"none", "pass", "fail"}, on : 0 .. MaxAttempts + 1]]

(* The executor's earnings move at most once, and only for a task whose    *)
(* payment left the escrow for it, whatever observers meet, fail or crash  *)
(* and whatever Redis forgets (recordWorkerPayout, creditPayoutOnce).      *)
CreditedOncePaid == credits <= 1 /\ (credits = 1 => chain.status = "Completed")

(* A record that reads "verified", after which no route looks again, is of *)
(* a task whose payment left the escrow for the executor.                  *)
VerifiedMeansPaid == state.status = "verified" => chain.status = "Completed"

(* No credit is lost: a record that reads "verified" has been credited, or *)
(* a handler still holds the credit, or nobody is there to be credited     *)
(* (creditSettledPass credits before the write that ends the retries).     *)
NoCreditLost ==
  state.status = "verified" /\ registered =>
    row \/ \E p \in Process : proc[p].at \in {"claim", "unmark"}

(* A record that reads "failed" is of a round that failed on the escrow,   *)
(* or of a refund: no round is failed by the verdict of another.           *)
FailedMeansFailed ==
  state.status = "failed" =>
    \/ ruled = "poster"
    \/ state.round \in Attempt /\ hJudged[state.round].verdict = "fail"

(* The bridge's verdict on a round was formed on that round's evidence.    *)
JudgedOnItsOwnEvidence ==
  \A r \in Attempt : hJudged[r].verdict # "none" => hJudged[r].on = r

(* The accounts mirror the escrow as MirrorPromise says: no step of any    *)
(* observer credits twice, takes a credit back, or docks without cause.    *)
Failures ==
  {r \in Attempt : hJudged[r].verdict = "fail"} \cup (IF ruled = "poster" THEN {Ruling} ELSE {})

Promise == INSTANCE MirrorPromise WITH
  Cause <- RoundKey, paid <- chain.status = "Completed", failed <- Failures,
  earned <- credits, docked <- docks

KeepsMirrorPromise == Promise!Spec

(* Who must keep asking for a settled task to be noticed: the executor,    *)
(* the poster or the verifier, by mode ("State unchanged - retry").        *)
ObserversRetry ==
  SF_vars(\E c \in Call : Finalize(c) \/ Verify(c, TRUE) \/ Verdict(c, TRUE))

(* A payment is credited in the end, through failing sends, lost receipts  *)
(* and a failing database, if those whose task it is retry and the         *)
(* executor is registered; after a ruling nobody has to.                   *)
PaidIsCredited ==
  /\ ObserversRetry => (chain.status = "Completed" ~> row)
  /\ ruled = "worker" ~> row

(* A refund by ruling costs the worker reputation in the end, and then the *)
(* listener is done with it (handleDisputeResolved).                       *)
RefundIsMirrored == ruled = "poster" ~> docks[Ruling] = 1 /\ marks.done

=============================================================================
