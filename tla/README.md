# BlindMarket: a verification development

BlindMarket is a marketplace for work done by people and by software agents. A
poster locks a payment in an escrow contract, a worker takes the task and delivers
evidence, a judge passes or fails it, and the payment leaves the escrow. Around the
contract a backend keeps an agent-to-agent (A2A) market: it lists tasks, accepts
workers, sends the assignment and verdict transactions, and sweeps what expired.

This directory models the parts of the system whose correctness depends on the order
of steps, checks them with TLC, and proves the main safety properties of the escrow, of the A2A
assignment, of the crediting of workers, of the gas sponsor and of the open submissions for all
parameters with TLAPS. Paths below are relative to the repository's `src/`.

## 1. Inventory

| Component | State it keeps | Operations | How it interacts | Hard behaviour |
|---|---|---|---|---|
| Escrow contract `contracts/contracts/BlindEscrow.sol` | tasks, open tasks and submissions, pause clock, configuration, token balances | create (single, verifier, batch, open), assign, submit, verdict (plain, TEE), cancel, claimTimeout, dispute and ruling, open submit/pick/void/resolve, 12 admin setters, pause | pulls and pays ERC-20s; calls the registry and the reputation ledger, whose failures it ignores | who may move a payment depends on status, deadline, windows and pauses; storage upgraded with tasks in flight |
| Task registry `TaskRegistry.sol` | public listings | publish, close, pause, authorise | called by the escrow in `try` | fails and recovers independently |
| Reputation ledger `BlindReputation.sol` | ratings, dispute records | rate, recordDispute, pause, authorise | called by the escrow in `try` | fails and recovers independently |
| A2A store `backend/src/services/a2aStore.ts` | task state, open index, per-executor index, side keys in Redis | tryAccept, updateState, tryExpire, release, resync | shared by routes, settlement and sweeps of several processes | read-modify-write beside atomic scripts; indexes beside state |
| A2A routes `backend/src/routes/a2a.ts` | none of its own | accept, submit, finalize, verify, verdict, release, decline, rebroadcast | store, chain, settlement | long handlers with many awaits |
| A2A settlement `a2aSettlement.ts`, `serialTxQueue.ts`, `acceptLock.ts` | pending transactions, lock keys | settleAssignment, settleVerification, enqueue, lock | chain, store | transactions that outlive the wait for them |
| A2A expiry sweep `a2aExpirySweep.ts` | timers | expire, gas liveness, reminders | store, chain | races every handler |
| Open-submission service `openSubmission*.ts` | records, submissions, results, scorecards, outcomes, the judge's schedule (Redis), the scan's checkpoint | submit-open, handle events, judge, sweep | chain, A2A store, worker payout | at-least-once events; a judge whose transactions outlive its wait |
| Gas sponsorship `gasSponsor*.ts` | reservations and stored transactions (database), queue and suspects (memory) | reserve, relay, settle, status, recover, sweep | chain, `/accept`, `/release` | nonces; crash between sign, store, send and hearing of it; several settlers |
| Worker payout `workerPayout.ts`, `creditLedger.ts`, `agentStore.ts` | markers (Redis), `credited_payouts` and totals (database) | credit once, dock once | called by routes and listener | two stores, each failing before or after its effect; Redis restored from a snapshot |
| Event listeners `disputeListener.ts`, `*EscrowEvents.ts` | checkpoints, done markers, parked rulings | poll, mirror, park | chain, payout, store | redelivery beside routes that see the same outcome |
| CCTP, deployment identity, agent runner | transfers, leases, processes | poll, resume | chain, database, processes | duplicates, restarts |
| Validator pool, agent identity and accounts (other contracts) | stakes, NFTs, accounts | see the contracts | not on the settlement path | - |
| Notifications, persistence, judging by language models, SDK, CLI, MCP, web, docs | - | - | clients, I/O | - |

What makes each correct: the escrow must pay each payment once, whole, to a party the
rules entitle and never strand it; the registry must show what can be taken; a rating
must stand for an impartial judgement; the A2A store must agree with the escrow about who
works on what, give a task to one worker, and never lose a delivery; settlement must not
act on stale state; credits must be given at most once.

## 2. Plan

In order of importance. The first six are done; the rest is what another round would take up.

1. `BlindEscrow`: the whole contract, one action per external call. `TaskPromise`: what it promises
   about one payment, which `BlindEscrow` implements.
2. `BlindEscrowProofs`, `BlindEscrowMoneyProofs`: type correctness, the pause clock, `NoPhantomTask`,
   `PaidOnce`, `Solvent`. `BlindEscrowPromiseProofs`: who may settle a task, on what grounds and when, and
   that the contract implements `TaskPromise`.
3. `A2AAssignment`: the store with accept, settlement, hand-backs and both sweeps, composed with an
   escrow whose transactions mine late. `A2AAssignmentProofs` for `GrantedIsAssigned` and
   `ExpiredIsUnassignable`, `A2ALockProofs` for `AcceptsAlone` and `LiveTxKeepsTask`.
4. `A2ADelivery`: the task after `/submit`, with every observer of its outcome, the settlement of
   verdicts and the accounts of the worker. `MirrorPromise`: what those accounts promise, which
   `A2ADelivery` implements. `A2ADeliveryProofs` for `CreditedOncePaid`, `VerifiedMeansPaid`,
   `KeepsMirrorPromise`, `NoCreditLost` and `FailedMeansFailed`.
5. `GasSponsor`: the sponsor's reservations, queue, nonces and recovery. `GasSponsorProofs` for each
   of its properties.
6. `OpenSubmission`: the service around an escrow task that takes results from many agents.
   `OpenSubmissionProofs` for `JudgedOnCommitments` and `AnchoredIsKept`.
7. To come in the models: deployment identity, CCTP polling, the validator pool.

## 3. The escrow

### 3.1 How the model corresponds to the code

`BlindEscrow.tla` has one variable per storage variable of the contract, under its name
(`tasks` for `_tasks`, `escrowBalance` for what the token ledgers hold for the escrow), and
one action per external function, under its name. A transaction is atomic and a reverting
call is a step not taken, so the guard of an action is the conjunction of the modifiers and
`revert` conditions and its effect is everything the function and its internal calls change,
the calls to the two optional contracts included.

- A task that was never created is the all-zero struct: it reads as `Funded`, as in the
  contract. Nothing in the model keeps callers away from it but the contract's guards.
- `createTask` and `createTaskWithVerifier` differ in one argument and are `CreateTask`;
  `allowToken`/`disallowToken` are `SetTokenAllowed`; `claimTimeout` is `ClaimTimeout`, the
  disjunction of its escalating branch and its refunding branch.
- Time is `now` (block.timestamp), advanced by `Tick`. `paused`, `pausedSince`, `pausedTotal` and
  the per-task snapshot are the contract's pause accounting.
- The registry and the reputation ledger are what the escrow sees of them: connected or
  not, answering or not, a listing or a rating per task. `ExternalFault` takes either away
  and gives it back.
- An initial state is either `initialize` on a fresh proxy, or (when `LegacyStatus` is not empty)
  a proxy just upgraded with one task in flight whose newer fields read as zero, paused or
  not.
- Abstracted: strings, task and scorecard hashes (stored, never read by the contract), events,
  gas, reentrancy (each call is guarded), and the signature arithmetic of the TEE path (the
  recovered signer is an argument).
- History variables (`activeTime`, `hTask`, `hPayout`) record unpaused time, when a task was
  created, failed, disputed and settled, by whom, and where the money went. No guard reads
  them.

Operators preceded by a comment "mistake: ..." are variants of the definition that
follows them, with one plausible slip; they are not used by the specification. They
document which slip each property detects.

### 3.2 Abstract specification

`TaskPromise.tla` says what is promised about one payment with no time, judges or pauses:
it is offered, perhaps committed to, delivered, and then paid once (less a capped fee) or
refunded once in full; nothing undelivered is paid and nothing settled moves again.
`KeepsPromise` maps status, submissions and payouts to its stages.

### 3.3 Runs

All runs use `BlindEscrowMC`, which extends the contract with the symmetry of submitters.

| Run (cfg) | Question | Checked |
|---|---|---|
| `OneTask` | every call on one task, fresh or found in flight by an upgrade: with one worker, or open with two submitters and every judge; pauses anywhere, the registry connected or not, the verifier replaced by a worker | `TypeOK`, `NoPhantomTask`, `PauseNeutral`, `OpenLifecycle`, `SubmittedOpenWorkKept`, `JudgeTurns`, `PosterRefundWaits`, `LegacyDisputeNeedsRuling`, `KeepsPromise` |
| `Payments` | two tasks, two tokens, batches, amounts of zero and one that does not divide | `Solvent` |
| `EscrowLiveness` | a short-lived task with a verifier of its own, the ledgers connected or not and failing, the fee and the rated amount set at any time; everybody silent but the admin, or but poster and worker | `RatingImpartial`, `SelfReleaseOnlyUnjudged`, `OpenTaskCloses`, `PaymentLeaves` |

**Bounds.** Windows are one to three ticks: the guards compare sums of times and do no other
arithmetic on them, so what matters is the order of the moments, and with these values every
order of deadline, failed verdict, dispute, pause and judge's turn occurs. `Tick` stops once every
guard about a task that still holds a payment has turned over (later moments are alike) and
allows `MaxPaused` seconds of pause in all. One task suffices for what concerns a task alone,
since no call reads another task; what crosses tasks (balances, batches, ids) is run with
two. `Posters`, `Workers`, `TaskVerifiers` and the arguments of setters are small sets that make
the roles meet: a verifier who is a submitter, an admin who is a task's verifier. `OneTask` has one
token, since a task never changes its own; the two of `Payments` are those a balance could mix up. The
tasks of `EscrowLiveness` name a verifier, which gives an open task the longest sequence of turns.

**Fairness.** `TimePasses` is strong fairness of `Tick` (blocks keep coming; the guard that stops it
in a pause is the model's bound) and weak fairness of `Unpause` (no pause is for ever). The
specification of `EscrowLiveness` assumes no more. Each of its properties names whom it needs
besides: `OpenTaskCloses` that the admin answers an open task in its own turn (`AdminAnswers`),
`PaymentLeaves` that poster and worker retry their own calls (`PartiesRetry`). The contract
promises that each path needs nobody else.

### 3.4 What the model shows besides

The comment on `claimTimeout` says "A verdict that never arrives must not count as a refund to the
poster" (`BlindEscrow.sol:838`), and the escalation path ensures it for a task still `Submitted` at its deadline. A poster who
calls `raiseDispute` on the `Submitted` task before the deadline gets an ordinary dispute instead,
which `claimTimeout` refunds after `DISPUTE_WINDOW` with neither verdict nor ruling.

`PaymentLeaves` needs the poster for a reason the code gives: `claimTimeout` can be called by the
poster alone, and a `Submitted` task past its deadline offers the worker no call and the admin none.
If no verifier judges and the poster stays away, the payment stays where it is.

## 4. The A2A assignment

### 4.1 How the model corresponds to the code

`A2AAssignment.tla` is one A2A task (all keys of the store carry the task's hash), its record in
Redis, the handlers and sweeps that change it, the assignment transactions, and the escrow's
view of the same task. A handler in `proc` has a program counter and the locals it carries across
an await; one action is the code from one await to the next. Redis commands and pipelines are
atomic, and so is a Lua script. `updateState` is two actions, `Load` and `Store`: it reads the
record, awaits, and writes the whole record back.

| Code | Actions |
|---|---|
| `/tasks/index`, `setMeta` | `Index`, `IndexWrite` |
| `/accept`: early checks, lock, resume or compare-and-set, key wrap, deadline key | `AcceptCheck`, `RefuseExpired`, `AcquireLock`, `ReadHolder`, `TryAccept`, `RewrapFailed`, `StartDeadline` |
| `settleAssignment`, `confirmAssignedWorker`, `settleUnconfirmedAssignment`, `safeClearAssignError` | `Settle`, `Send`, `Wait`, `Unconfirmed`, `Confirm`, `ClearError` |
| the answer of `/accept` and its `finally` | `Grant`, `Refuse`, `Unlock` |
| `/submit`, `/release`, `forceReleaseTask`, `rewindSubmittedTask` | `Submit` or `HandBack`, then `CheckChain`, then `Release`, or `ForceRead` and `ForceWrite`, or an update |
| `sweepExpiredTasks`, `resyncOpenIndex` | `ResyncRead`, `ResyncCompare`, `ResyncWrite`, `ListOpen`, `Expire` |
| `sweepGasLiveness`, `reconcileBroadcastAssignment` | `GasList`, `GasRead`, `GasChain`, `Receipt`, `GasReopen`, `MarkReconciled` |
| `tryCloseOnChainTerminal` (confirm-tx, TaskCancelled) | `CloseRefunded` |
| the escrow, the pool, time, the host | `Mine`, `Drop`, `DirectAssign`, `Cancel`, `SubmitEvidence`, `BlockLate`, `ServerClock`, `LapseKey`, `Age`, `LapseLock`, `Crash`, `Restart` |

What the model takes for granted:

- The escrow is reduced to the status, the worker and whether the deadline has passed, which is
  what `BlindEscrow` says of `assignWorker`, `marketplaceAssign`, `submitEvidence` and `cancelTask`.
- A transaction that has left the pool does not come back. The sweep waits
  `ASSIGN_DROPPED_AFTER_MS` (half an hour at least) and asks the node before it believes so.
- A handler ends within the ten minutes of `ASSIGN_RECONCILE_AFTER_MS` after it sent its
  transaction (`Aged`).
- Server and block clocks differ by less than `EXPIRY_GRACE_SEC` (`ServerClock`).
- The sweep ticks every minute and the deadline key lives for two, so the five minutes after
  which the gas-liveness sweep ignores an accepted task pass unswept only while the backend is
  down or cannot read the chain (`Age`).
- Agents pass the executor gates, an account and its smart account are one, and a hash that the
  index does not know is a failed read. Offers and cascades, gas sponsorship, key wrapping as
  such, legacy mixed-case keys, the phantom close (`unindexed`), reminders and open submissions
  are left out. What follows `/submit` is `A2ADelivery`.
- One deployment runs the sweeps. `Happens` names the optional events of a run.

### 4.2 Runs

All use `A2AAssignmentMC`, which adds the symmetry of agents and of request slots; liveness runs
do without it.

| Run (cfg) | Agents, requests, transactions, crashes | Events | Checked |
|---|---|---|---|
| `AcceptRace` | 2, 2, 1, 0 | failing reads and sends | `TypeOK`, `LiveTxKeepsTask`, `AcceptsAlone` |
| `AcceptFaults` | 2, 1, 1, 1 | direct assignment, refund, release, forced release, rewind, relisting, stray index entry | `GrantedIsAssigned` |
| `AcceptLiveness` | 1, 1, 1, 0 | the deadline | `ExpiredIsUnassignable`, `ExpiredTaskCloses`, `UnsettledAcceptReopens` |

**Bounds.** Two agents are what a race needs: one that wins and one that is refused, resumes or is
assigned by the poster. Two requests in flight, beside the gas sweep, give every pair of handlers;
runs with one request explore interleavings of one handler with sweeps, transactions, faults and
the chain over any number of successive calls. `MaxTx` bounds the assignments ever sent; once it is
used up a send fails, a case the code has anyway. One crash suffices because a restart leaves no
handler behind: what a second crash meets is what a first could. `AcceptRace` has failing reads and sends and
no crash, `AcceptFaults` the reverse, since with both there are too many states to visit in minutes. The
safety properties are proved with everything at once and for any numbers, `LiveTxKeepsTask` under the
condition below (section 8).

**Fairness.** `Fairness` says that a handler that has begun goes on, the two timers tick
(`setInterval`), transactions leave the pool, clocks advance, keys run out and the supervisor
restarts the backend. No call and no choice of an outcome is fair: nobody has to accept, release or
submit.

**Where a property is not claimed.** `LiveTxKeepsTask` is checked without hand-backs and without locks
that lapse under their handlers: two handlers, or a handler and a release, that write the record at
the same time can lose each other's update and break it. Under that condition (`Undisturbed`) it is proved
for every other event, not only for the run's (section 8). `UnsettledAcceptReopens` holds while the backend
runs and can read the chain; 4.3 says what happens otherwise. `AcceptsAlone` is proved for locks that lapse
at any moment (section 8).

### 4.3 What the model shows besides

- `updateState` writes back a record read before a refund closed the task, and so revives it. The
  comment on `tryCloseOnChainTerminal` says that the status read and write are one step "so a
  concurrent /accept or /verdict can't interleave" (`a2aStore.ts:466`): that holds of its own
  write, and the other one may come later.
- A backend that stops after the compare-and-set and stays down for five minutes leaves the task
  accepted for ever, although "If it expires, this sweep detects the task and reverts it to 'open'"
  (`a2aExpirySweep.ts:377`): the sweep ignores tasks that old, and the expiry sweep lists open tasks
  only. A release by the poster, the agent or an administrator is the way out.
- `setMeta` adds a task to `a2a:open` whatever its status, so relisting an accepted task puts it on
  offer until the next resync (accepts of it are refused); and it reads whether a state exists before
  it sets one, so that of two listings in flight the second resets a task accepted in between.
- A release between `updateState`'s read and write leaves the agent in the record and not in its index.
- `/accept` sets its deadline key after the compare-and-set. A sweep that lists the task before the
  key exists, and reads the escrow before the transaction mines, releases the task before the hash is
  written; the accept succeeds all the same, with the key of a listed task.
- The first accept of a task that the poster assigned to somebody else points the record at the real
  worker. A resumed accept answers 503 and leaves the record wrong, and the sweep leaves it to the
  accept route.

## 5. Delivery, verdict and credit

### 5.1 How the model corresponds to the code

`A2ADelivery.tla` takes the task where `A2AAssignment` leaves it: assigned to one worker (the
executor), submitted round after round, judged, and mirrored off chain. As there, one action is the
code of a handler between two awaits, a command of Redis is one step and so is a transaction of the
database; `proc` holds the program counters and what a handler carries over an await.

| Code | Actions |
|---|---|
| `/submit`, `/finalize`, `/verify`, `/verdict` up to their chain read | `Submit`, `Finalize`, `Verify`, `Verdict` (all `Begin`) |
| what each does with what the escrow shows: refuse, park for the verifier, settle, or adopt a settled outcome | `ReadChain` with `MaySubmit`, `MayPark`, `MaySettle`, `MayAdopt` |
| `/submissions/confirm`, `/rebroadcast` | `Confirm`, `Rebroadcast` |
| `updateState` | `Load`, `Store` |
| `settleVerification`, the serial queue, a wait that ends early | `Send`, `Reread`, `Receipt`, `WaitTimeout` |
| `recordWorkerPayout`: marker, `creditPayoutOnce`, taking the marker back | `Mark`, `Claim`, `Unmark` |
| `recordWorkerDispute`: marker, reputation, history, taking the marker back | `ClaimRound`, `Dock`, `RecordHistory`, `Unround` |
| `handleDisputeResolved`, redelivered until marked done | `Mirror`, `ClaimRuling`, `UnclaimRuling`, `MarkDone` |
| the escrow's calls on an assigned task, the pool, time | `SubmitEvidence`, `VerifierSettles`, `Mine`, `Deadline`, `Dispute`, `ClaimTimeout`, `Rule` |
| the host | `Register`, `Crash`, `Snapshot`, `Restore` |

What the model takes for granted or leaves out: the escrow is reduced to status, attempts and whether
the deadline has passed; a ruling the listener cannot apply yet is parked and tried again, which is a
redelivery here; what an output scores is any answer; scores, amounts, badges, notifications and the
upload of results are left out. A snapshot of Redis is taken while no handler is at work (a bound).

### 5.2 Runs

All use `A2ADeliveryMC`, which adds the symmetry of request slots.

| Run (cfg) | Requests, rounds, transactions, faults | Events | Checked |
|---|---|---|---|
| `Delivery` | 2, 1, 1, 0 | disputes | `TypeOK`, `NoCreditLost`, `KeepsMirrorPromise` |
| `DeliveryFaults` | 1, 1, 1, 2 | everything: Redis, database and RPC failing, waits that end, a restart, a restore, an unregistered executor, disputes | `CreditedOncePaid`, `VerifiedMeansPaid` |
| `DeliveryLiveness` | 1, 2, 2, 2 | RPC failing, waits that end, disputes | `FailedMeansFailed`, `PaidIsCredited`, `RefundIsMirrored` |
| `LateVerdict` | 1, 2, 2, 2 | waits that end | `JudgedOnItsOwnEvidence`, violated |

**Abstract specification.** `MirrorPromise.tla` is what the accounts promise about one task, whoever
observes it: a payment is credited once and stays credited, a failed round or a refund by ruling costs
reputation once, and nothing is mirrored that did not happen on the escrow. `KeepsMirrorPromise` maps
the escrow's status and its failed rounds to the causes, and credits and docks to the accounts.

**Bounds.** Two requests beside the listener are every pair of observers, over one round. Two rounds, with
one request, are a round and its retry, which is what a stale verdict or a stale record needs. With one request the faults meet every
handler and the listener, over any number of successive calls; two faults are a failing step and the
failure of the step that undoes it. `MaxPool` is the number of the bridge's transactions waiting at
once: two is the first number at which the second can outlive the round of the first.

**Fairness.** A handler that has begun goes on, the listener's poll comes round, transactions are mined. No
call is fair, nor any choice of an outcome. `PaidIsCredited` needs somebody to ask about a settled task
again (`ObserversRetry`), as the routes' answer "State unchanged - retry" says, unless an admin ruled;
`RefundIsMirrored` needs nobody.

**Where a property is not claimed.** `NoCreditLost` and `KeepsMirrorPromise` are checked without faults;
5.3 says which faults break them. Of `KeepsMirrorPromise` these are two, "db" and "restore"; of `NoCreditLost`
"db", "crash" and "unregistered". Without them both are proved (`MirrorIsKept` and `NoCreditIsLost`, section
8) whatever else fails. `FailedMeansFailed` is checked, and proved (`FailedIsFailed`), with one request at a time
beside the listener, the verifier and the transactions of earlier requests, and without "restore". With two,
TLC finds two `/submit`s of an accepted task: the first is stored as round 1 and its evidence mined, the second,
which reads the escrow after that, is stored as round 2; a `/verdict` that began before it then adopts the
failure of round 1, and writes "failed" over round 2, which never was on the escrow. A restore between
such an adoption and its write does the same to the round Redis came back with.

### 5.3 What the model shows besides

- `LateVerdict`. `settleVerification` sends the task and the verdict, not the round. When the wait for a
  transaction ends, the caller is told to retry and the transaction stays in the pool; the retry sends
  a second one. The first fails the round, the worker submits the next, and the second judges it. The
  comment in `/submit` says the old verdict is cleared "so /finalize and the verifier judge the NEW
  output, not a stale failure" (`routes/a2a.ts:2695`).
- A restart between the marker's `SET NX` and the COMMIT of the credit leaves a marker without a row. The
  retries read "already credited", the record goes to `verified`, and no route looks again. The comment
  in `recordWorkerPayout` calls the marker "only a cache in front of the credited_payouts row, which is
  the authority" (`workerPayout.ts:123`); in that case the cache answers for a row that is not there.
- If `reputationDecay.recordDispute` fails after `adjustReputation` committed, the round's marker is taken
  back and the next observer docks the worker a second time.

## 6. The gas sponsor

### 6.1 How the model corresponds to the code

`GasSponsor.tla` has the rows of the two tables (`res`, `txs`), the kill switch, what the writer keeps
in memory (`queue`, `proc`, `suspects`, lost at a restart) and the sponsor's side of the chain: its next
nonce, the pool, what was mined and what of it did its call. A statement or transaction of the database
is one step; awaits that nothing done in between could tell apart are one action.

| Code | Actions |
|---|---|
| `reserveForAccept`, `releaseAcceptReservation` | `AcceptReserve`, `AcceptGivesBack` |
| `relaySponsoredCall` before the queue | `Ask` |
| its send in the queue: re-read, blockers, nonce, record, broadcast, acknowledge or give up | `Turn`, `Record`, `Broadcast`, `Ack`, `Forget` |
| `settle`: receipt, `settleTx`, `markReservationUsed`; the wait that ends | `Settle`, `Used`, `Timeout` |
| `sponsoredCallStatus` | `Status`, then as above |
| `recoverSponsorTxs` | `StartPass`, `Look`, `Resend`, `Ack`, `Unack`, `Forget` |
| `sweepReservations` | `Sweep`, `CloseSwept` |
| the admin's controls, a nonce filled by hand | `SetKilled`, `FillNonce` |
| the chain and the host | `Mine`, `Evict`, `LandedElsewhere`, `TaskMoves`, `Crash` |

What the model takes for granted or leaves out:

- One process is the writer. The advisory lock that makes it so is not modelled, nor what a send
  does that was queued before the lock was lost.
- Eligibility, pauses, budgets, caps, strikes and draining may refuse a call; the model leaves open
  whether they do, and keeps no account of them. Each agent has one reservation at a time, so
  reservations do not meet except through the queue and the nonces.
- A mined call that did nothing and one that reverted are both `reverted`.
- A refusal of a *first* broadcast is final, as the code has it: no other node has seen those bytes.
  The pass can list a transaction as `signed` and re-send it around that first broadcast; with a node
  that refuses and another that takes the bytes at that moment, the refusal would not be final.
- After "nonce too low" the handler reads the receipt of its bytes once, and a read that fails counts as
  no receipt (`gasSponsorRelayer.ts:719`). "lag" lets that read miss the receipt of a mined transaction,
  as it lets the pass's reads miss what a replica does not have yet. `hUnseen` remembers such transactions;
  no guard reads it.

### 6.2 Run

`Sponsor` checks `TypeOK`, `NoHole`, `OneOut`, `SettledTruth` and `ChargedOnce` with two
handlers, the pass and the sweep, a submit and a release reservation, two stored transactions and one
event out of `Fault`.

**Bounds.** Two handlers make two callers of one reservation or of two; two transactions are the smallest
number at which one waits behind the nonce of another, and at which a reservation sends again
(`MAX_SENDS_PER_RESERVATION` is 2 there). One event, because the state space grows by an order of magnitude
with each; bytes that no node takes ("bad") and calls that are mined and do nothing ("noop") would double
it each and are left to the proofs. For any number of events, with those two, and of handlers, reservations
and transactions, these properties and `UsedMeansDone` are proved (section 8). Liveness is not checked:
nothing forces a sponsored call to land, by design, since the worker can always send its own.

**Where a property is not claimed.** `SettledTruth` says that a dropped transaction was not mined, unless it
is in `hUnseen`: 6.3 tells how that happens. It is the only status that may be untrue, and only that way: a
confirmed, reverted or rejected transaction is what its status says, and nothing given up can still land.

### 6.3 What the model shows besides

These are places where the code's care ends. The first is the exception of `SettledTruth`; the properties
do not reach the others:

- The pass re-sends a stored transaction, which is mined, before the handler's own broadcast of it; the
  handler hears "nonce too low" and its one read of the receipt fails, or asks a replica that lags, before
  anybody has written another status. The handler then writes `dropped`, kills sponsorship for a key that
  signs elsewhere and answers "Not sent", for a transaction that was mined and whose cost is charged to
  nobody. The comment before the read says "settle them rather than kill sponsorship"
  (`gasSponsorRelayer.ts:717`), which it does when the read answers.

- A refusal given before the queue, while an earlier repeat of the call waits in it or is already
  out, answers that nothing was sent ("Every refusal is safe to fall back from: nothing was sent",
  `gasSponsorRelayer.ts:355`). The agent then sends its own; one of the two reverts and is paid for.
- The sweep reads a reservation's transactions and closes it afterwards. A send recorded in between
  goes out for a reservation just released or expired.
- After a restart between `settleTx` and `markReservationUsed` the transaction is no longer listed as
  unsettled; the reservation stays reserved until the sweep releases it.

## 7. The open-submission service

### 7.1 How the model corresponds to the code

`OpenSubmission.tla` is one task made with `createTaskOpen`: what the escrow shows of it (`chain`), the
judge's transactions (`txs`), the keys of the service in Redis, under the names of `openSubmissionStore.ts`, and the two loops that meet
only there, the scan of the escrow's events (`indexer`) and the platform's judge (`judge`). One action is
the code between two awaits that another actor can tell apart.

| Code | Actions |
|---|---|
| `POST /tasks/:id/submit-open`: a result held until its submission is on the chain; the same result again | `SubmitOpen`, `HoldResult`; `Resend` |
| `PENDING_RESULT_TTL_SEC` | `Lapse` |
| `ensureRecord` | `Meet`, `SaveRecord` |
| `handleOpenTaskCreated`, `handleOpenSubmission` with `keepResult` | `HandleCreated`, `RecordSubmission`, `KeepResult` |
| `handleWinnerSelected`, `handleOpenTaskVoided`: outcome, scorecard, schedule, listing | `SaveOutcome`, `KeepCard`, `Unschedule`, `CloseListing` |
| `recordWorkerPayout` with `rethrow`: the marker, `creditPayoutOnce`, the marker taken back when either fails | `TakeMarker`, `CreditWinner`; `IndexerFails` with `PerhapsCredited` and `GiveMarkerBack` |
| the checkpoint of `indexOpenSubmissions` after a failed event or a restart | `IndexerFails`, `Crash` with `Redeliver` |
| the scan for refunds (`indexCancels`) | `CloseRefunded` |
| `judgeOne`: its reads, the decision, the transaction, the wait | `JudgeLook` with `TakeTurn` and `Decide`, `SendTx`, `Receipt`, `JudgeTimeout`, `JudgeFails` |
| the escrow's open lifecycle, as `BlindEscrow` has it | `Land`, `TimePasses`, `OthersClose`, `Mine`, `Evict` |

What the model takes for granted or leaves out:

- A result is its place in the judge's ranking, 0 if it cannot be paid, and its evidence hash is the
  result; what the language model answers is any ranking.
- The alerts and the sweep that sends them, scorecards that other judges send (`/select`, `/scorecard`),
  `/judge-decline`, the backfill and the first scan's bootstrap, the cap on held results, and pauses.
- `Registered` says who has an account, and does not change: a winner who registers after the closing was
  handled is not credited by this service. A token's totals are there or not (`counted`). `hTorn` remembers
  a claim that ended with its marker there and its row not.
- `judgeDue` keeps of the judge's schedule whether it looks as soon as it has a turn, or no more until the
  backup's turn ("backup"), which is what it chooses when as task verifier it finds nothing to pay.
- A failed event or a restart takes the scan back to any event it was past, whatever the blocks the
  events fell in.

### 7.2 Run

`OpenSubmission` checks `TypeOK`, `JudgedOnCommitments`, `AnchoredIsKept`, `HeldIsKept`,
`PlatformDecides` and `ClosingIsMirrored` with two submitters, of three kinds of task: listed here, with the
platform as its verifier and a turn of the poster's before; not listed here, with another verifier; and listed
here, with another verifier, in a token no earnings total holds.

**Bounds.** One submitter sends through this server and may change its mind, the other submits on the chain alone
what cannot be paid and has no account: results differ, are held or missing, and either may be picked. `MaxEvents` counts submissions, calls and
faults together: three are two submissions and a fault, or one with a call or two faults around it. That
the winner is the best of several that can be paid is proved for any ranks and submitters (`DecisionsAreSound`,
section 8). The run is short because it checks three liveness properties, whose cost is many times that of
the safety ones.

**Fairness.** The loops run and the pool is mined in order. Time, people and faults owe nothing: what a
property promises while a window lasts (`PlatformDecides`) may end with the window.

**Where a property is not claimed.** `HeldIsKept` speaks of a submission the scan has not recorded, with no
`/submit-open` of its submitter in flight: a repeated call that holds its result again while the event is
handled leaves it held, and not kept, until the agent sends it once more. `AnchoredIsKept` excepts a judge that
gave up on a transaction still in the pool. `PlatformDecides` excepts the rest of a turn as task verifier that
the platform has passed on: a result sent again after that, which could be paid, waits for its turn as backup judge,
and another judge may come first. `ClosingIsMirrored` promises the credit to a registered winner, in a
token that is counted, unless a claim was torn (`hTorn`, 7.3).

### 7.3 What the model shows besides

"Each pick or void anchors a scorecard, held before the transaction so the indexer keeps it once the
escrow records its hash" (`openSubmissionJudge.ts:45`). There is one held scorecard per role. When the
wait for a transaction ends early and the judge looks again, perhaps with a result more, its new scorecard
replaces the held one; if the first transaction lands, nobody has the scorecard that the escrow anchored.

A restart between the marker and the COMMIT of the winner's credit, or a marker that cannot be taken back after a
failure, makes the redelivered event read "already credited": the event is done with and the winner is not
credited. The comment at the call says that "a failed credit fails the event, so the scan retries it"
(`openSubmissionEvents.ts:210`); the retry comes, and finds the marker (5.3).

As task verifier with nothing to pay the platform schedules its next look for the backup's turn
(`openSubmissionJudge.ts:274`), and keeping a result changes no schedule. A payable result that arrives in
the rest of the window is therefore not judged in it.

## 8. Proofs

Assumptions: `AddressAssumption` and `NumberAssumption` of `BlindEscrow`, which say that the zero
address is not an account, the bounding sets contain what their names say, windows are positive
and the initial fee is within the cap; `Parameters` of `A2AAssignment`, of `A2ADelivery`, of
`GasSponsor` and of `OpenSubmission`, which say that processes are distinct, bounds are naturals, and the
platform is the verifier of a task made through this server. They hold of every deployment and TLC
evaluates them in every run. The theorems hold for any number of tasks, accounts, tokens, amounts and
windows, and of agents, requests, transactions, rounds, submitters, restarts and faults.

| Theorem | Module | Argument |
|---|---|---|
| `TypeCorrect` | `BlindEscrowProofs` | inductive as it stands; `FeeBound` shows that the rounded fee stays between 0 and the amount and within the cap |
| `PauseAccountingHolds`, `PauseNeutralHolds` | `BlindEscrowProofs` | `PauseInv`, below |
| `NoPhantomTaskHolds` | `BlindEscrowMoneyProofs` | from the pause clock: the paused time is less than `now`, so a deadline of 0 plus any extension has passed and `Assign` is shut; every other call names a caller or a status the zero struct does not have |
| `PaidOnceHolds` | `BlindEscrowMoneyProofs` | inductive with `NoPhantomTask`, which a creation needs so as not to overwrite a settled task; every settling call starts from an unsettled status |
| `SolventHolds` | `BlindEscrowMoneyProofs` | `BalanceInv`, below |
| `VerdictIsIndependent`, `OpenStaysOpen`, `SubmittedWorkIsKept`, `TurnsAreKept`, `RatingIsImpartial`, `PosterRefundHasWaited`, `SelfReleaseIsUnjudged`, `LegacyDisputeIsRuled`, `PromiseIsKept` | `BlindEscrowPromiseProofs` | `IInv` of that module, below |
| `A2ATypeCorrect`, `GrantedIsAssignedHolds` | `A2AAssignmentProofs` | `IInv`, below |
| `ExpiredIsUnassignableHolds` | `A2AAssignmentProofs` | `ExpiryInv`, below |
| `AcceptsAloneHolds` | `A2ALockProofs` | `LockInv`, below |
| `LiveTxKeepsTaskHolds` | `A2ALockProofs` | `KeepInv`, below, assuming `Undisturbed` |
| `DeliveryTypes`, `CreditsFollowPayments`, `VerifiedIsPaid` | `A2ADeliveryProofs` | `IInv` of that module, below |
| `MirrorIsKept` | `A2ADeliveryProofs` | `MirrorInv`, below, assuming `Remembered` |
| `NoCreditIsLost` | `A2ADeliveryProofs` | `CreditInv`, below, assuming `Claimable` |
| `FailedIsFailed` | `A2ADeliveryProofs` | `CauseInv` and `FailInv`, below, assuming `OneAtATime` |
| `TypesHold`, `NeverAHole`, `NeverTwoOut`, `FinalIsTrue`, `NeverChargedTwice`, `UsedIsDone` | `GasSponsorProofs` | `IInv` of that module, below |
| `OpenTypes`, `DecisionsAreSound`, `AnchoredStaysKept` | `OpenSubmissionProofs` | `IInv` of that module, below |

`PauseInv` strengthens the two properties with one fact neither states: a pause whose start is
unknown (possible only right after an upgrade in the middle of a pause) precedes every other pause
and every task of this implementation. Without it `recordPauseStart` could, as far as the two
properties know, count time that `pausedTotal` already holds. The frames `SameTerms` and `Untouched`
say once what a call on an existing task leaves alone.

`BalanceInv` adds to `Solvent` only that balances are integers; the rest is arithmetic on sums. A call either
pays its task out, to recipients whose shares add up to the task's amount, or moves no token
(`CallMovesPayment`), so one summand of one token changes, and the balance by as much (`TotalUpdate`). A
batch of creations adds consecutive summands at ids that held nothing before (`NoPhantomTask`,
`TotalConcat`). `Total` is a recursive function; since the library's induction theorems cannot be
instantiated here, `SetInduction` derives induction over sets of naturals from well-foundedness.

`BlindEscrowPromiseProofs`: the calls are first reduced to what each does to the one task it names
(`WorkerCallEffect`, `OpenCallEffect`, `CreateEffect`), and a step to the creation of tasks, the move
of one task, or neither (`StepMoves`); nothing after that opens a call again. What the properties
compare was written by earlier calls, so `Grounds` adds what a status tells of how the task came to
it: a `Disputed` or `Verified` task of this implementation carries a start that lies, in unpaused time, no
later than on the chain; an unjudged escalation is disputed and was never judged; a submission exists only for an open
task, by somebody other than its poster and its own verifier. With `PauseNeutral` a window that has
elapsed by the contract's arithmetic has then elapsed in unpaused time (`WindowsWaited`). `PromiseIsKept` maps
each move to an action of `TaskPromise` for the task that moved and to a stutter for the others. Since the admin, the fee and
the platform's verifier may change in flight, `SelfReleaseOnlyUnjudged` speaks of the step that pays: afterwards
the caller may have become the admin.

`A2AAssignmentProofs`: that every granted agent is the escrow's worker is not inductive, since a step
that grants knows only what its handler carries. `IInv` adds that a handler with "success" in hand has
its caller as the escrow's worker, that one which waits does so for a transaction signed for its own
caller, that a mined transaction made its worker the escrow's, and that a `Funded` task has no worker.
Three frames (`HandlerReads`, `HandlerWritesStore`, `HandlerWrites`) reduce each handler step to what the
handler carries away; `NothingYet` says why the escrow's only change of worker disturbs nobody.
`ExpiryInv` is what `ExpiredIsUnassignable` needs: as long as blocks are before the deadline, the server's
clock is short of the end of the grace, and "expired" stands nowhere: not in the record, not in a copy of it
between `Load` and `Store`, not as a handler's answer or as what it is about to write. The deadline passes once
and writes nothing (`LatePasses`), so a step that closes a task as expired comes after it.

`A2ALockProofs`: `AcceptsAlone` compares handlers, not the key. `LockInv` says that a handler past the
lock whose lock has not lapsed holds the key itself, so that two of them are one. A step either takes
nobody past the lock and leaves the key alone (`KeepsLock`), or is `AcquireLock` on a free key, an
`Unlock` of the handler's own, a lapse or a restart.

`LiveTxKeepsTaskHolds` builds on the lock and assumes `Undisturbed`: no "reindex", "release", "force", "rewind"
or "lapse". TLC breaks the property with each of these but "rewind", which is excluded because it, too, stores a
record read earlier, with no lock. What is left may happen in any number: failing reads and sends, restarts, a refund, a direct
assignment, a stray index entry, the deadline. `CourseOK` says what a handler has in hand: no transaction before it
sends one, and with an error either none or a reverted one. So the scripts of the accept handler and of the sweep,
which compare the transaction, reopen only what is lost. The other way back to "open" is a stale `Store`.
`RaceOK` excludes it: at most one accept is past the lock; while it works on a task that was reopened under it
the gas sweep rests; and if the sweep carries an open record, the accept neither carries a transaction nor has one to store.
`Onwards` names what no step of the escrow undoes; `Course` and `RecordWrites` reduce each step to where its own
process goes and what it writes.

`CreditsFollowPayments` and the rest of
`A2ADeliveryProofs` rest on "Completed is final": what has to be shown is that every handler on its way to a
credit, and every copy of the record that reads "verified" (the store's, a handler's between `Load` and
`Store`, the snapshot's), was formed after the escrow paid. `PoolOK` links a transaction to the handler that
waits for it, so that a receipt of success is of the handler's own verdict; `LedgerOK` makes the row and
the credit one fact. Because no marker appears in the argument, it holds whatever Redis forgets.

`MirrorIsKept` does need the markers, hence its assumption `Remembered`: "db" and "restore" do not happen.
`MirrorInv` is `CauseInv`, which rounds have failed (all before the last, and the last once it is `Verified`) and that a
handler on its way to costing reputation has such a round or the refund in hand, and `DocksOK`, that one about to dock
holds the round's marker alone. `CauseInv` alone holds under every fault (`CausesInvariant`). The
delicate case is a verdict refused because the task was no longer `Submitted`, taken for a success by
`Reread`: the escrow may be rounds further by then, but a task that is `Verified` now has failed every
round up to now, the handler's own included (`FailedRound`).

`NoCreditIsLost` assumes that no claim is interrupted (`Claimable`: no "db", "crash" or "unregistered"). The credit is
then `Secured`, in the row or in the hands of a handler that claims it, wherever it is taken for given: by the
marker, by the record and by every copy of it. No step takes a handler from its claim but to the row; so once secured
is always secured, and the snapshot, taken when nobody claims, has the row behind it.

`FailedIsFailed` assumes one request at a time and no "restore" (`OneAtATime`; 5.2 says what happens otherwise); every
other fault may happen, and transactions of requests long gone may still be mined. Until the escrow has
ruled, the listener rests and what the request knows of the record is the record, so that at the moment it chooses to
settle or to adopt, `RoundBroadcast` puts the record's round at the escrow's or before it. From there to the write
(`Failing`) a ruling may set the listener to work beside it, with a copy of its own; `FailInv` keeps the record and
both copies within the round the request holds. That round has failed when the write comes (`CauseInv`), and so
has every round before it (`FailedUpTo`). A ruling for the worker closes nothing as failed (`ListenerOK`).

`GasSponsorProofs`: `IInv` has three parts. `TablesOK` relates the stored rows to the chain: what is in the
pool or mined is not bad bytes, a nonce is kept by one row, a dropped row's nonce has passed without it (or its handler
read no receipt, `Untraced`),
and bytes no node takes stay `signed` with nothing above them (`StuckLast`, why giving up such a nonce
leaves no hole). `QueueOK` says that only the head of the queue stores and sends. `LocalOK` says that what a
process learnt before an await still holds when it goes on: a transaction found lost stays lost, and between
the choice of a nonce and `recordSignedTx` nothing else can take it, open a hole below it or put a
transaction of the same reservation out (`Recording`). `Onward` names what no step undoes, from which
`LocalKept` carries every other process over a step, so that each action has to show only where its own
process goes (`Goes`) and what it writes (`TablesStep`). `MaxTxs`, `MaxSends` and `MaxFaults` may be any bounds.

`OpenSubmissionProofs`: a decision is taken on one reading, sent at a later step and mined at a step after
that. What makes it right in the end is that the escrow takes no submission once a judge has its turn, so
that a scorecard the escrow once bears out (`Sound`) it bears out for good (`Onward`, `SoundKept`). At the
decision itself, the winner is one of those judged because a best result and, among those, the earliest place exist
(two least-number choices), and a refund is of submissions that were all judged because the judge had read
as many as there are (`AllJudged`, by counting). `CardsHeld` follows the scorecard: held while the judge is
deciding; unless the judge gave up, no transaction but the one it waits for can still be mined; so the one of the closing is
held, or kept already, until the scan keeps it. `ScanOK` ties each handler of the scan to its event.

Of these theorems `PauseAccountingHolds`, `PaidOnceHolds`, `VerdictIsIndependent` and `UsedIsDone` state
properties no run checks by themselves: they are part of what the others rest on.

Only model-checked: liveness (`OpenTaskCloses`, `PaymentLeaves`, `ExpiredTaskCloses`,
`UnsettledAcceptReopens`, `PaidIsCredited`, `RefundIsMirrored`, `HeldIsKept`, `PlatformDecides`,
`ClosingIsMirrored`), since leads-to under fairness is out of the prover's reach.

## 9. Not modelled

- Of the components modelled in part, what sections 4.1, 5.1, 6.1 and 7.1 leave out: offers and cascades, the
  executor gates, reminders; the listeners' cursors, block ranges and parking ages; the writer lock,
  budgets and strikes of the sponsor; the owner functions of the two ledgers.
- Deployment identity, CCTP transfers and the validator pool keep
  state of their own whose order matters. They are the next modules (section 2, 7), left for later
  because none of them moves the payment of a task the modules above cover.
- Language-model judging, notifications, persistence as such, process supervision, the clients and the
  web applications keep no state whose order of change matters here; identity and account contracts are
  thin layers over libraries. They are most of the repository's lines.
- Token contracts are assumed to move what they are told: the whitelist exists for that purpose.
