--------------------------- MODULE A2AAssignment ---------------------------
(***************************************************************************)
(* Who works on an A2A task: the off-chain record of one task in Redis     *)
(* (a2aStore.ts), the HTTP handlers that move it (routes/a2a.ts), the      *)
(* bridge that assigns the worker on the escrow (a2aSettlement.ts) and the *)
(* two sweeps that repair it (a2aExpirySweep.ts).  All keys of the store   *)
(* carry the task's hash, so tasks do not interact here: one task, any     *)
(* number of agents, handlers in flight and assignment transactions.       *)
(*                                                                         *)
(* A handler runs from one await to the next without interruption, and any *)
(* other handler, sweep, transaction or crash may come in between: one     *)
(* action per such stretch.  A Lua script is one step.  updateState is     *)
(* two, Load and Store, because it reads the record, awaits, and writes    *)
(* the whole record back.                                                  *)
(***************************************************************************)
EXTENDS Naturals

CONSTANTS
  Worker,        \* the registered agents that pass the executor gates
  NoWorker,      \* no address
  Request,       \* handlers the backend can have in flight
  NoRequest,
  ExpirySweep, GasSweep,  \* the two timers, each with an inFlight flag
  MaxTx,         \* bound: assignment transactions ever sent
  MaxCrashes,    \* bound: restarts of the backend
  Happens        \* the optional events of a run, a subset of Events

(* "reindex": the poster lists the task again; "release", "force" and      *)
(* "rewind": the three ways to hand a task back; "direct": the poster      *)
(* calls assignWorker on the escrow; "cancel": the poster takes the        *)
(* payment back; "rpc": a read or a send fails; "lapse": a handler         *)
(* outlives ACCEPT_LOCK_MAX_HOLD_S; "stray": the hash index may name       *)
(* another escrow task; "expiry": the deadline comes within the run, and   *)
(* the sweep that watches it runs.                                         *)
Events == {"reindex", "release", "force", "rewind", "direct", "cancel",
           "rpc", "lapse", "stray", "expiry"}

Process == Request \cup {ExpirySweep, GasSweep}
Tx == 1 .. MaxTx

ASSUME Parameters ==
  /\ NoWorker \notin Worker /\ NoRequest \notin Request
  /\ ExpirySweep # GasSweep /\ {ExpirySweep, GasSweep} \cap Request = {}
  /\ MaxTx \in Nat /\ MaxCrashes \in Nat /\ Happens \subseteq Events

VARIABLES
  state,       \* a2a:state:<task>
  open,        \* whether a2a:open holds the task
  executing,   \* the agents whose a2a:executor:<agent> holds the task
  lock,        \* the request that holds the accept lock
  deadlineKey, \* whether a2a:settlement_deadline:<task> is alive
  reconciled,  \* a2a:assign_reconciled:<task>, 0 when absent
  young,       \* accepted less than five minutes ago
  chain,       \* the escrow's record of the task
  txs,         \* assignment transactions by hash
  mapped,      \* the hash index names this escrow task
  clock,       \* server time: 0 before the deadline, 1 in the grace, 2 after
  late,        \* block time has reached the deadline
  up,          \* the backend runs
  crashes,
  proc,        \* handlers and sweeps
  granted,     \* agents told "accepted" and handed the brief's key
  hLapsed      \* history: requests whose lock ran out under them

store == <<state, open, executing>>
escrow == <<chain, txs, mapped, late>>
keys == <<lock, deadlineKey, reconciled, young, hLapsed>>
host == <<clock, up, crashes>>
vars == <<store, escrow, keys, host, proc, granted>>

TxState == {"unused", "pool", "mined", "reverted", "dropped"}
Missing == [status |-> "missing", executor |-> NoWorker, tx |-> 0,
            error |-> FALSE, reason |-> "none"]
Listed == [Missing EXCEPT !.status = "open"]
TaskState == [status : {"missing", "open", "accepted", "submitted", "failed"},
              executor : Worker \cup {NoWorker}, tx : 0 .. MaxTx, error : BOOLEAN,
              reason : {"none", "expired", "cancelled", "escrow_mismatch"}]

(* A handler's program counter and the locals it carries over an await.    *)
Idle == [at |-> "idle", op |-> "none", caller |-> NoWorker, seen |-> Missing,
         write |-> "none", tx |-> 0, found |-> NoWorker, res |-> "none"]
Step == {"idle", "index", "lock", "read", "cas", "rewrap", "settle", "send", "wait",
         "unconfirmed", "confirm", "clear", "result", "unlock", "load", "store",
         "chain", "reopen", "forceRead", "forceWrite", "resync", "resyncWrite",
         "list", "expire", "gasRead", "receipt", "mark"}
Operation == {"none", "index", "accept", "resume", "submit", "release", "force",
              "rewind", "sweep"}
Patch == {"broadcast", "assignError", "noError", "expired", "cancelled",
          "escrow_mismatch", "reconcile", "submitted", "accepted"}
Outcome == {"none", "success", "error", "reverted", "timeout", "pending", "expired",
            "cancelled", "elsewhere", "escrow_mismatch"}
Handler ==
  [at : Step, op : Operation, caller : Worker \cup {NoWorker}, seen : TaskState,
   write : Patch \cup {"none", "open"}, tx : 0 .. MaxTx, found : Worker \cup {NoWorker},
   res : Outcome]

Init ==
  /\ state = Missing /\ open = FALSE /\ executing = {}
  /\ lock = NoRequest /\ deadlineKey = FALSE /\ reconciled = 0 /\ young = FALSE
  /\ chain = [status |-> "Funded", worker |-> NoWorker]
  /\ txs = [t \in Tx |-> [worker |-> NoWorker, st |-> "unused"]]
  /\ mapped \in IF "stray" \in Happens THEN BOOLEAN ELSE {TRUE}
  /\ clock = 0 /\ late = FALSE /\ up = TRUE /\ crashes = 0
  /\ proc = [p \in Process |-> Idle]
  /\ granted = {} /\ hLapsed = {}

At(p, at) == proc[p].at = at
Goto(p, local) == proc' = [proc EXCEPT ![p] = local]
Move(p, at) == Goto(p, [proc[p] EXCEPT !.at = at])
Done(p) == Goto(p, Idle)
Leave(p) == Goto(p, [Idle EXCEPT !.at = "unlock", !.op = proc[p].op])
Answer(p, res) == Goto(p, [proc[p] EXCEPT !.at = "result", !.res = res])
Fails == "rpc" \in Happens

-----------------------------------------------------------------------------
(* The store *)

(* updateState's patches, by name.                                         *)
Patched(local, old) ==
  CASE local.write = "broadcast" -> [old EXCEPT !.tx = local.tx, !.error = FALSE]
    [] local.write = "assignError" -> [old EXCEPT !.error = TRUE]
    [] local.write = "noError" -> [old EXCEPT !.error = FALSE]
    [] local.write = "expired" -> [old EXCEPT !.status = "failed", !.reason = "expired"]
    [] local.write \in {"cancelled", "escrow_mismatch"} ->
         [old EXCEPT !.status = "failed", !.reason = local.write, !.executor = NoWorker]
    [] local.write = "reconcile" -> [old EXCEPT !.executor = local.found]
    [] local.write \in {"submitted", "accepted"} -> [old EXCEPT !.status = local.write]

(* The caller's next step once updateState returns.                        *)
AfterStore(p) ==
  LET write == proc[p].write
      next(at) == Goto(p, [proc[p] EXCEPT !.at = at, !.seen = Missing, !.write = "none"])
  IN \/ p = GasSweep /\ next("mark")
     \/ p # GasSweep /\ write = "broadcast" /\ next("wait")
     \/ p # GasSweep /\ write \in {"assignError", "noError"} /\ next("result")
     \/ /\ p # GasSweep /\ write \notin {"broadcast", "assignError", "noError"}
        /\ IF proc[p].op = "accept" THEN Leave(p) ELSE Done(p)

Update(p, local, write) == Goto(p, [local EXCEPT !.at = "load", !.write = write])

Load(p) ==
  /\ At(p, "load")
  /\ Goto(p, [proc[p] EXCEPT !.at = "store", !.seen = state])
  /\ UNCHANGED <<store, escrow, keys, host, granted>>

Store(p) ==
  LET old == proc[p].seen  new == Patched(proc[p], old)
  IN /\ At(p, "store")
     /\ state' = new
     /\ open' = (open /\ ~(old.status = "open" /\ new.status # "open"))
     /\ executing' = IF old.executor = new.executor THEN executing
                     ELSE (executing \ {old.executor}) \cup ({new.executor} \ {NoWorker})
     /\ AfterStore(p)
     /\ UNCHANGED <<escrow, keys, host, granted>>

(* tryExpire: open becomes failed, in one step.                            *)
TryExpire ==
  IF state.status = "open"
  THEN /\ state' = [state EXCEPT !.status = "failed", !.reason = "expired"]
       /\ open' = FALSE /\ UNCHANGED executing
  ELSE UNCHANGED store

(* The script compares status, executor and transaction.                   *)
(* mistake: the transaction is not compared *)
StillAcceptedBy(executor, tx, status) == state.status = status /\ state.executor = executor
StillAccepted(executor, tx, status) ==
  state.status = status /\ state.executor = executor /\ state.tx = tx

(* tryReleaseAccepted: back to open if nothing changed since the caller looked. *)
TryRelease(executor, tx, status) ==
  IF StillAccepted(executor, tx, status)
  THEN state' = Listed /\ open' = TRUE /\ executing' = executing \ {executor}
  ELSE UNCHANGED store

(* tryCloseOnChainTerminal, once the escrow reports the refund: from       *)
(* confirm-tx or the TaskCancelled listener, which may deliver it again.   *)
CloseRefunded ==
  /\ up /\ mapped /\ chain.status = "Cancelled"
  /\ state.status \in {"open", "accepted", "submitted"}
  /\ state' = [state EXCEPT !.status = "failed", !.reason = "cancelled"]
  /\ open' = FALSE
  /\ UNCHANGED <<executing, escrow, keys, host, proc, granted>>

-----------------------------------------------------------------------------
(* Listing *)

(* POST /tasks/index and setMeta: whether a state exists is read first.    *)
Index(p) ==
  /\ up /\ At(p, "idle")
  /\ \/ "reindex" \in Happens
     \/ state.status = "missing" /\ \A q \in Request : ~At(q, "index")
  /\ Goto(p, [Idle EXCEPT !.at = "index", !.op = "index", !.seen = state])
  /\ UNCHANGED <<store, escrow, keys, host, granted>>

IndexWrite(p) ==
  /\ At(p, "index")
  /\ state' = IF proc[p].seen.status = "missing" THEN Listed ELSE state
  /\ open' = TRUE
  /\ Done(p)
  /\ UNCHANGED <<executing, escrow, keys, host, granted>>

-----------------------------------------------------------------------------
(* POST /tasks/:id/accept *)

AcceptCheck(p, w) ==
  /\ up /\ At(p, "idle") /\ state.status # "missing" /\ clock = 0
  /\ Goto(p, [Idle EXCEPT !.at = "lock", !.op = "accept", !.caller = w])
  /\ UNCHANGED <<store, escrow, keys, host, granted>>

(* Past the deadline the accept is refused; past the grace it also closes  *)
(* the task.                                                               *)
RefuseExpired ==
  /\ up /\ clock = 2 /\ state.status = "open"
  /\ TryExpire
  /\ UNCHANGED <<escrow, keys, host, proc, granted>>

(* mistake: the lock is set whether or not somebody holds it *)
AcquireLockAnyway(p) ==
  /\ At(p, "lock") /\ lock' = p /\ Move(p, "read")
  /\ UNCHANGED <<store, escrow, deadlineKey, reconciled, young, hLapsed, host, granted>>

AcquireLock(p) ==
  /\ At(p, "lock")
  /\ IF lock = NoRequest THEN lock' = p /\ Move(p, "read")
                         ELSE Done(p) /\ UNCHANGED lock
  /\ UNCHANGED <<store, escrow, deadlineKey, reconciled, young, hLapsed, host, granted>>

(* An agent that holds the task only confirms its assignment again.        *)
ReadHolder(p) ==
  /\ At(p, "read")
  /\ IF state.status = "accepted" /\ state.executor = proc[p].caller
     THEN Goto(p, [proc[p] EXCEPT !.at = "settle", !.op = "resume"])
     ELSE Move(p, "cas")
  /\ UNCHANGED <<store, escrow, keys, host, granted>>

(* mistake: a status the rest of the flow does not know *)
TryAcceptAssigned(p) ==
  /\ At(p, "cas") /\ state.status = "open"
  /\ state' = [state EXCEPT !.status = "assigned", !.executor = proc[p].caller]
  /\ open' = FALSE /\ executing' = executing \cup {proc[p].caller}
  /\ young' = TRUE /\ Move(p, "rewrap")
  /\ UNCHANGED <<escrow, lock, deadlineKey, reconciled, hLapsed, host, granted>>

TryAccept(p) ==
  /\ At(p, "cas")
  /\ IF state.status = "open"
     THEN /\ state' = [state EXCEPT !.status = "accepted", !.executor = proc[p].caller]
          /\ open' = FALSE /\ executing' = executing \cup {proc[p].caller}
          /\ young' = TRUE /\ Move(p, "rewrap")
     ELSE Leave(p) /\ UNCHANGED <<store, young>>
  /\ UNCHANGED <<escrow, lock, deadlineKey, reconciled, hLapsed, host, granted>>

(* The brief's key could not be wrapped again for this agent.              *)
RewrapFailed(p) ==
  /\ At(p, "rewrap") /\ Fails
  /\ TryRelease(proc[p].caller, 0, "accepted")
  /\ Leave(p)
  /\ UNCHANGED <<escrow, keys, host, granted>>

StartDeadline(p) ==
  /\ At(p, "rewrap")
  /\ deadlineKey' = TRUE
  /\ Move(p, "settle")
  /\ UNCHANGED <<store, escrow, lock, reconciled, young, hLapsed, host, granted>>

-----------------------------------------------------------------------------
(* settleAssignment *)

AssignError(p, res) == Update(p, [proc[p] EXCEPT !.res = res], "assignError")

(* The checks before the send, and the call tried without sending.         *)
Settle(p) ==
  /\ At(p, "settle")
  /\ \/ Fails /\ Answer(p, "error")
     \/ Fails /\ AssignError(p, "error")
     \/ ~mapped /\ AssignError(p, "escrow_mismatch")
     \/ mapped /\ chain.status # "Funded" /\ Move(p, "confirm")
     \/ mapped /\ chain.status = "Funded" /\ late /\ Answer(p, "expired")
     \/ mapped /\ chain.status = "Funded" /\ ~late /\ Move(p, "send")
  /\ UNCHANGED <<store, escrow, keys, host, granted>>

(* The signer's queue lets the send through; the transaction is signed for *)
(* this caller, and its hash recorded by an updateState.                   *)
Send(p) ==
  /\ At(p, "send")
  /\ \/ /\ chain.status # "Funded" /\ Move(p, "confirm") /\ UNCHANGED txs
     \/ /\ chain.status = "Funded" /\ late /\ Answer(p, "expired") /\ UNCHANGED txs
     \/ /\ Fails \/ \A t \in Tx : txs[t].st # "unused"
        /\ AssignError(p, "error") /\ UNCHANGED txs
     \/ /\ chain.status = "Funded" /\ ~late
        /\ \E t \in Tx :
             /\ txs[t].st = "unused" /\ \A s \in 1 .. t - 1 : txs[s].st # "unused"
             /\ txs' = [txs EXCEPT ![t] = [worker |-> proc[p].caller, st |-> "pool"]]
             /\ Update(p, [proc[p] EXCEPT !.tx = t], "broadcast")
  /\ UNCHANGED <<store, chain, mapped, late, keys, host, granted>>

(* tx.wait(1, HOLD_TIMEOUT_MS).                                            *)
Wait(p) ==
  /\ At(p, "wait")
  /\ LET st == txs[proc[p].tx].st
     IN \/ st = "mined" /\ Answer(p, "success")
        \/ st = "reverted" /\ Goto(p, [proc[p] EXCEPT !.at = "unconfirmed", !.res = "reverted"])
        \/ /\ st \in {"pool", "dropped"} \/ Fails
           /\ Goto(p, [proc[p] EXCEPT !.at = "unconfirmed", !.res = "timeout"])
  /\ UNCHANGED <<store, escrow, keys, host, granted>>

Confirmed(p) == Goto(p, [proc[p] EXCEPT !.at = "clear", !.res = "success"])

(* settleUnconfirmedAssignment: the chain decides, if it can be read.      *)
Unconfirmed(p) ==
  /\ At(p, "unconfirmed")
  /\ \/ chain.worker = proc[p].caller /\ Confirmed(p)
     \/ /\ chain.worker # proc[p].caller \/ Fails
        /\ IF proc[p].res = "reverted" THEN AssignError(p, "error") ELSE Answer(p, "pending")
  /\ UNCHANGED <<store, escrow, keys, host, granted>>

(* confirmAssignedWorker: the task is past Funded, but whose is it?        *)
(* mistake: past Funded counts as assigned to the caller *)
ConfirmAnyone(p) ==
  /\ At(p, "confirm")
  /\ \/ Fails /\ AssignError(p, "error")
     \/ chain.worker # NoWorker /\ Confirmed(p)
     \/ chain.worker = NoWorker /\ Answer(p, "cancelled")
  /\ UNCHANGED <<store, escrow, keys, host, granted>>

Confirm(p) ==
  /\ At(p, "confirm")
  /\ \/ Fails /\ AssignError(p, "error")
     \/ chain.worker = proc[p].caller /\ Confirmed(p)
     \/ chain.worker = NoWorker /\ Answer(p, "cancelled")
     \/ /\ chain.worker \notin {proc[p].caller, NoWorker}
        /\ Goto(p, [proc[p] EXCEPT !.at = "result", !.res = "elsewhere", !.found = chain.worker])
  /\ UNCHANGED <<store, escrow, keys, host, granted>>

(* safeClearAssignError.                                                   *)
ClearError(p) ==
  /\ At(p, "clear")
  /\ IF state.error THEN Update(p, proc[p], "noError") ELSE Move(p, "result")
  /\ UNCHANGED <<store, escrow, keys, host, granted>>

-----------------------------------------------------------------------------
(* The accept handler with settleAssignment's answer *)

Grant(p) ==
  /\ At(p, "result") /\ proc[p].res = "success"
  /\ granted' = granted \cup {proc[p].caller}
  /\ deadlineKey' = (deadlineKey /\ proc[p].op = "resume")
  /\ Leave(p)
  /\ UNCHANGED <<store, escrow, lock, reconciled, young, hLapsed, host>>

(* A task that can never be assigned, or is somebody else's, is not        *)
(* offered again; a transaction that may still mine keeps its agent.       *)
Refuse(p) ==
  /\ At(p, "result") /\ proc[p].res # "success"
  /\ IF proc[p].op = "resume" THEN Leave(p) /\ UNCHANGED store
     ELSE \/ /\ proc[p].res \in {"expired", "cancelled", "escrow_mismatch"}
             /\ Update(p, proc[p], proc[p].res) /\ UNCHANGED store
          \/ proc[p].res = "elsewhere" /\ Update(p, proc[p], "reconcile") /\ UNCHANGED store
          \/ proc[p].res = "pending" /\ Leave(p) /\ UNCHANGED store
          \/ /\ proc[p].res = "error"
             /\ TryRelease(proc[p].caller, proc[p].tx, "accepted") /\ Leave(p)
  /\ UNCHANGED <<escrow, keys, host, granted>>

Unlock(p) ==
  /\ At(p, "unlock")
  /\ lock' = IF lock = p THEN NoRequest ELSE lock
  /\ hLapsed' = hLapsed \ {p}
  /\ Done(p)
  /\ UNCHANGED <<store, escrow, deadlineKey, reconciled, young, host, granted>>

-----------------------------------------------------------------------------
(* POST /submit, POST /release, and the administrator's two repairs: read  *)
(* the record, then the chain, then write                                  *)

Submit(p, w) ==
  /\ up /\ At(p, "idle") /\ mapped
  /\ state.status = "accepted" /\ state.executor = w /\ ~state.error
  /\ Goto(p, [Idle EXCEPT !.at = "chain", !.op = "submit", !.caller = w])
  /\ UNCHANGED <<store, escrow, keys, host, granted>>

HandBack(p, op) ==
  /\ up /\ At(p, "idle") /\ op \in Happens
  /\ state.status \in IF op = "rewind" THEN {"submitted"} ELSE {"accepted", "submitted"}
  /\ Goto(p, [Idle EXCEPT !.at = "chain", !.op = op, !.seen = state])
  /\ UNCHANGED <<store, escrow, keys, host, granted>>

(* Through a stray index entry the status read is another task's.          *)
ReadsFunded == ~mapped \/ chain.status = "Funded"
ReadsPastFunded == ~mapped \/ chain.status # "Funded"

CheckChain(p) ==
  LET local == proc[p]
  IN /\ At(p, "chain") /\ p \in Request
     /\ \/ Fails /\ Done(p)
        \/ /\ local.op = "submit"
           /\ IF chain.worker = local.caller THEN Update(p, local, "submitted") ELSE Done(p)
        \/ local.op \in {"release", "force"} /\ ReadsPastFunded /\ Done(p)
        \/ local.op = "release" /\ ReadsFunded /\ Move(p, "reopen")
        \/ local.op = "force" /\ ReadsFunded
           /\ Goto(p, [local EXCEPT !.at = "forceRead", !.seen = Missing])
        \/ /\ local.op = "rewind"
           /\ IF mapped /\ chain = [status |-> "Assigned", worker |-> local.seen.executor]
              THEN Update(p, [local EXCEPT !.seen = Missing], "accepted") ELSE Done(p)
     /\ UNCHANGED <<store, escrow, keys, host, granted>>

Release(p) ==
  /\ At(p, "reopen") /\ p \in Request
  /\ TryRelease(proc[p].seen.executor, proc[p].seen.tx, proc[p].seen.status)
  /\ Done(p)
  /\ UNCHANGED <<escrow, keys, host, granted>>

(* releaseToOpen, which compares nothing.                                  *)
ForceRead(p) ==
  /\ At(p, "forceRead")
  /\ IF state.status = "open" THEN Done(p)
     ELSE Goto(p, [proc[p] EXCEPT !.at = "forceWrite", !.seen = state])
  /\ UNCHANGED <<store, escrow, keys, host, granted>>

ForceWrite(p) ==
  /\ At(p, "forceWrite")
  /\ state' = Listed /\ open' = TRUE /\ executing' = executing \ {proc[p].seen.executor}
  /\ Done(p)
  /\ UNCHANGED <<escrow, keys, host, granted>>

-----------------------------------------------------------------------------
(* The expiry sweep: repair the index of open tasks, then close what is    *)
(* past its deadline and the grace.                                        *)

ResyncRead(p) ==
  /\ "expiry" \in Happens /\ up /\ p = ExpirySweep /\ At(p, "idle")
  /\ state.status # "missing"
  /\ Goto(p, [Idle EXCEPT !.at = "resync", !.op = "sweep",
                        !.write = IF state.status = "open" THEN "open" ELSE "none"])
  /\ UNCHANGED <<store, escrow, keys, host, granted>>

ResyncCompare(p) ==
  /\ At(p, "resync")
  /\ IF open = (proc[p].write = "open") THEN Goto(p, [Idle EXCEPT !.at = "list"])
                                     ELSE Move(p, "resyncWrite")
  /\ UNCHANGED <<store, escrow, keys, host, granted>>

(* mistake: tasks are only taken off the index, never put back *)
ResyncOnlyRemoves(p) ==
  /\ At(p, "resyncWrite")
  /\ open' = FALSE
  /\ Goto(p, [Idle EXCEPT !.at = "list"])
  /\ UNCHANGED <<state, executing, escrow, keys, host, granted>>

ResyncWrite(p) ==
  /\ At(p, "resyncWrite")
  /\ open' = (proc[p].write = "open")
  /\ Goto(p, [Idle EXCEPT !.at = "list"])
  /\ UNCHANGED <<state, executing, escrow, keys, host, granted>>

ListOpen(p) ==
  /\ At(p, "list")
  /\ IF open THEN Move(p, "expire") ELSE Done(p)
  /\ UNCHANGED <<store, escrow, keys, host, granted>>

(* mistake: the grace is left out *)
ExpireEarly(p) ==
  /\ At(p, "expire")
  /\ IF clock >= 1 THEN TryExpire ELSE UNCHANGED store
  /\ Done(p)
  /\ UNCHANGED <<escrow, keys, host, granted>>

Expire(p) ==
  /\ At(p, "expire")
  /\ IF clock = 2 THEN TryExpire ELSE UNCHANGED store
  /\ Done(p)
  /\ UNCHANGED <<escrow, keys, host, granted>>

-----------------------------------------------------------------------------
(* The gas-liveness sweep: an accepted task whose assignment never landed  *)
(* goes back on the board.                                                 *)

GasList(p) ==
  /\ up /\ p = GasSweep /\ At(p, "idle") /\ state.status = "accepted" /\ ~deadlineKey
  /\ Goto(p, [Idle EXCEPT !.at = "gasRead", !.op = "sweep", !.caller = state.executor])
  /\ UNCHANGED <<store, escrow, keys, host, granted>>

(* ASSIGN_RECONCILE_AFTER_MS is ten minutes: a handler that sent the       *)
(* transaction has long answered.                                          *)
Aged(t) == \A q \in Request : proc[q].tx # t

GasRead(p) ==
  /\ At(p, "gasRead")
  /\ IF \/ state.tx # 0 /\ Aged(state.tx) /\ reconciled # state.tx
        \/ state.tx = 0 /\ young
     THEN Goto(p, [proc[p] EXCEPT !.at = "chain", !.seen = state])
     ELSE Done(p)
  /\ UNCHANGED <<store, escrow, keys, host, granted>>

SeenExecutor(p) ==
  IF proc[p].seen.executor = NoWorker THEN proc[p].caller ELSE proc[p].seen.executor

GasChain(p) ==
  LET seen == proc[p].seen
  IN /\ At(p, "chain") /\ p = GasSweep
     /\ \/ Fails /\ Done(p)
        \/ seen.tx # 0 /\ ReadsFunded /\ Move(p, "receipt")
        \/ /\ seen.tx # 0 /\ ReadsPastFunded
           /\ IF chain.worker = SeenExecutor(p) /\ seen.error
              THEN Update(p, [proc[p] EXCEPT !.tx = seen.tx], "noError")
              ELSE Goto(p, [proc[p] EXCEPT !.at = "mark", !.tx = seen.tx])
        \/ seen.tx = 0 /\ ReadsPastFunded /\ Done(p)
        \/ seen.tx = 0 /\ ReadsFunded /\ Move(p, "reopen")
     /\ UNCHANGED <<store, escrow, keys, host, granted>>

(* No receipt and unknown to the node half an hour after the send is       *)
(* dropped; no receipt but known is still pending.                         *)
(* mistake: a transaction the node has forgotten counts as pending *)
ReceiptNeverGone(p) ==
  /\ At(p, "receipt")
  /\ \/ txs[proc[p].seen.tx].st # "reverted" /\ Done(p)
     \/ txs[proc[p].seen.tx].st = "reverted" /\ Move(p, "reopen")
  /\ UNCHANGED <<store, escrow, keys, host, granted>>

Receipt(p) ==
  /\ At(p, "receipt")
  /\ \/ txs[proc[p].seen.tx].st \in {"mined", "pool"} /\ Done(p)
     \/ txs[proc[p].seen.tx].st \in {"reverted", "dropped"} /\ Move(p, "reopen")
     \/ Fails /\ Done(p)
  /\ UNCHANGED <<store, escrow, keys, host, granted>>

GasReopen(p) ==
  /\ At(p, "reopen") /\ p = GasSweep
  /\ TryRelease(SeenExecutor(p), proc[p].seen.tx, "accepted")
  /\ Done(p)
  /\ UNCHANGED <<escrow, keys, host, granted>>

MarkReconciled(p) ==
  /\ At(p, "mark")
  /\ reconciled' = proc[p].tx
  /\ Done(p)
  /\ UNCHANGED <<store, escrow, lock, deadlineKey, young, hLapsed, host, granted>>

-----------------------------------------------------------------------------
(* The escrow, time and the host *)

Funded == chain.status = "Funded"

(* A transaction mines, and reverts unless the task is still to be         *)
(* assigned; or it leaves the pool for good.                               *)
Mine(t) ==
  /\ txs[t].st = "pool"
  /\ IF Funded /\ ~late
     THEN /\ chain' = [status |-> "Assigned", worker |-> txs[t].worker]
          /\ txs' = [txs EXCEPT ![t].st = "mined"]
     ELSE txs' = [txs EXCEPT ![t].st = "reverted"] /\ UNCHANGED chain
  /\ UNCHANGED <<store, mapped, late, keys, host, proc, granted>>

Drop(t) ==
  /\ txs[t].st = "pool"
  /\ txs' = [txs EXCEPT ![t].st = "dropped"]
  /\ UNCHANGED <<store, chain, mapped, late, keys, host, proc, granted>>

SetChain(status, worker) ==
  /\ chain' = [status |-> status, worker |-> worker]
  /\ UNCHANGED <<store, txs, mapped, late, keys, host, proc, granted>>

DirectAssign(w) == "direct" \in Happens /\ Funded /\ ~late /\ SetChain("Assigned", w)
Cancel == "cancel" \in Happens /\ Funded /\ SetChain("Cancelled", NoWorker)
(* Only a rewind tells the two statuses apart.                             *)
SubmitEvidence ==
  "rewind" \in Happens /\ chain.status = "Assigned" /\ ~late /\ SetChain("Submitted", chain.worker)

BlockLate ==
  /\ "expiry" \in Happens /\ ~late /\ late' = TRUE
  /\ UNCHANGED <<store, chain, txs, mapped, keys, host, proc, granted>>

(* The two clocks may differ, by less than EXPIRY_GRACE_SEC.               *)
ServerClock ==
  /\ "expiry" \in Happens /\ clock < 2 /\ (clock = 1 => late)
  /\ clock' = clock + 1
  /\ UNCHANGED <<store, escrow, keys, up, crashes, proc, granted>>

LapseKey ==
  /\ deadlineKey /\ deadlineKey' = FALSE
  /\ UNCHANGED <<store, escrow, lock, reconciled, young, hLapsed, host, proc, granted>>

(* The sweep runs every minute and the key lives for two, so five minutes  *)
(* pass unswept only while the backend is down or cannot read the chain.   *)
Age ==
  /\ young /\ ~deadlineKey /\ (~up \/ Fails)
  /\ young' = FALSE
  /\ UNCHANGED <<store, escrow, lock, deadlineKey, reconciled, hLapsed, host, proc, granted>>

Locked(p) == proc[p].op \in {"accept", "resume"} /\ proc[p].at # "lock"

(* A live handler extends its lock, for ACCEPT_LOCK_MAX_HOLD_S at most.    *)
LapseLock ==
  /\ lock # NoRequest
  /\ Locked(lock) => "lapse" \in Happens
  /\ lock' = NoRequest
  /\ hLapsed' = IF Locked(lock) THEN hLapsed \cup {lock} ELSE hLapsed
  /\ UNCHANGED <<store, escrow, deadlineKey, reconciled, young, host, proc, granted>>

Crash ==
  /\ up /\ crashes < MaxCrashes
  /\ up' = FALSE /\ crashes' = crashes + 1
  /\ proc' = [p \in Process |-> Idle] /\ hLapsed' = {}
  /\ UNCHANGED <<store, escrow, lock, deadlineKey, reconciled, young, clock, granted>>

Restart ==
  /\ ~up /\ up' = TRUE
  /\ UNCHANGED <<store, escrow, keys, clock, crashes, proc, granted>>

-----------------------------------------------------------------------------
Steps(p) ==
  \/ Load(p) \/ Store(p)
  \/ IndexWrite(p)
  \/ AcquireLock(p) \/ ReadHolder(p) \/ TryAccept(p) \/ RewrapFailed(p) \/ StartDeadline(p)
  \/ Settle(p) \/ Send(p) \/ Wait(p) \/ Unconfirmed(p) \/ Confirm(p) \/ ClearError(p)
  \/ Grant(p) \/ Refuse(p) \/ Unlock(p)
  \/ CheckChain(p) \/ Release(p) \/ ForceRead(p) \/ ForceWrite(p)

ExpirySweepStep ==
  LET p == ExpirySweep
  IN ResyncRead(p) \/ ResyncCompare(p) \/ ResyncWrite(p) \/ ListOpen(p) \/ Expire(p)

GasSweepStep ==
  LET p == GasSweep
  IN GasList(p) \/ GasRead(p) \/ GasChain(p) \/ Receipt(p) \/ GasReopen(p)
     \/ MarkReconciled(p) \/ Load(p) \/ Store(p)

Calls(p) ==
  \/ Index(p)
  \/ \E w \in Worker : AcceptCheck(p, w) \/ Submit(p, w)
  \/ \E op \in {"release", "force", "rewind"} : HandBack(p, op)

Escrow ==
  \/ \E t \in Tx : Mine(t) \/ Drop(t)
  \/ \E w \in Worker : DirectAssign(w)
  \/ Cancel \/ SubmitEvidence \/ BlockLate

Next ==
  \/ \E p \in Request : Calls(p) \/ Steps(p)
  \/ ExpirySweepStep \/ GasSweepStep
  \/ RefuseExpired \/ CloseRefunded
  \/ Escrow
  \/ ServerClock \/ LapseKey \/ Age \/ LapseLock \/ Crash \/ Restart

Spec == Init /\ [][Next]_vars

(* A handler that has begun goes on, the timers tick, transactions leave   *)
(* the pool, time passes and the supervisor restarts the backend.  Nobody  *)
(* has to call.                                                            *)
Fairness ==
  /\ \A p \in Request : WF_vars(Steps(p))
  /\ WF_vars(ExpirySweepStep) /\ WF_vars(GasSweepStep)
  /\ \A t \in Tx : WF_vars(Mine(t) \/ Drop(t))
  /\ WF_vars(BlockLate) /\ WF_vars(ServerClock) /\ WF_vars(LapseKey) /\ WF_vars(Restart)

FairSpec == Spec /\ Fairness

-----------------------------------------------------------------------------
(* Properties *)

(* The store, the keys and every handler's locals stay in their domains.   *)
TypeOK ==
  /\ state \in TaskState /\ open \in BOOLEAN /\ executing \subseteq Worker
  /\ lock \in Request \cup {NoRequest} /\ deadlineKey \in BOOLEAN
  /\ reconciled \in 0 .. MaxTx /\ young \in BOOLEAN
  /\ chain \in [status : {"Funded", "Assigned", "Submitted", "Cancelled"},
                worker : Worker \cup {NoWorker}]
  /\ txs \in [Tx -> [worker : Worker \cup {NoWorker}, st : TxState]]
  /\ mapped \in BOOLEAN /\ clock \in 0 .. 2 /\ late \in BOOLEAN /\ up \in BOOLEAN
  /\ crashes \in 0 .. MaxCrashes
  /\ proc \in [Process -> Handler]
  /\ granted \subseteq Worker /\ hLapsed \subseteq Request

(* Only the worker the escrow will pay is told "accepted" and handed the   *)
(* brief's key, whoever else accepts, resumes, or is assigned meanwhile    *)
(* (confirmAssignedWorker and settleUnconfirmedAssignment).                *)
GrantedIsAssigned == \A w \in granted : chain.worker = w

(* While an assignment may still mine, or has mined, neither the accept    *)
(* handler nor a sweep puts its task back on the board; only a release     *)
(* that somebody asked for does.                                           *)
LiveTxKeepsTask ==
  [][ /\ state.status = "accepted" /\ state'.status = "open"
      /\ state.tx # 0 /\ txs[state.tx].st \in {"pool", "mined"}
      => \E p \in Request : proc[p].op \in {"release", "force"} /\ proc'[p] = Idle ]_vars

(* A task the escrow could still assign is never closed as expired,        *)
(* although the server's clock and the chain's disagree (EXPIRY_GRACE_SEC, *)
(* used by the sweep and by accept's early check).                         *)
ExpiredIsUnassignable ==
  [][ (state.status # "failed" /\ state'.status = "failed" /\ state'.reason = "expired") => late ]_vars

(* Two requests settle an accept at the same time only when the lock of    *)
(* one has run out under it (acquireAcceptLock, releaseAcceptLock).        *)
AcceptsAlone ==
  \A p, q \in {r \in Request : Locked(r)} \ hLapsed : p = q

(* A task that nobody may take any more leaves the open state, even when   *)
(* the index that the sweep lists had lost it (resyncOpenIndex).           *)
ExpiredTaskCloses == (clock = 2 /\ state.status = "open") ~> (state.status # "open")

(* An accept whose assignment never lands is undone, whatever becomes of   *)
(* its transaction (sweepGasLiveness).                                     *)
UnsettledAcceptReopens ==
  (state.status = "accepted" /\ Funded) ~> (state.status # "accepted" \/ ~Funded)

=============================================================================
