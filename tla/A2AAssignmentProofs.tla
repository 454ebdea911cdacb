----------------------- MODULE A2AAssignmentProofs -----------------------
(* An agent told "accepted" is the worker the escrow will pay, for any     *)
(* number of agents, requests, transactions and restarts.  The escrow      *)
(* never changes a worker once it has one; what has to be shown is that    *)
(* every handler which answers "success" has seen its own caller there,    *)
(* directly or through a transaction signed for that caller.               *)
EXTENDS A2AAssignment, TLAPS

Settling == {"lock", "read", "cas", "rewrap", "settle", "send", "wait",
             "unconfirmed", "confirm", "clear", "result"}
Updating(local) == local.at \in {"load", "store"}

(* A handler waits for a transaction that was signed for its own caller,   *)
(* and has "success" in hand only when the escrow names that caller.       *)
HandlerOK(p, local) ==
  /\ Updating(local) => local.write \in Patch
  /\ \/ local.at \in Settling
     \/ Updating(local) /\ p # GasSweep /\ local.write \in {"broadcast", "assignError", "noError"}
     => local.caller \in Worker
  /\ local.at = "wait" \/ (Updating(local) /\ local.write = "broadcast")
     => /\ local.tx \in Tx /\ txs[local.tx].st # "unused"
        /\ txs[local.tx].worker = local.caller
  /\ local.res = "success" => local.caller \in Worker /\ chain.worker = local.caller

EscrowOK ==
  /\ Funded => chain.worker = NoWorker
  /\ \A t \in Tx : txs[t].st # "unused" => txs[t].worker \in Worker
  /\ \A t \in Tx : txs[t].st = "mined" => chain.worker = txs[t].worker

IInv ==
  /\ TypeOK
  /\ EscrowOK
  /\ \A p \in Process : HandlerOK(p, proc[p])
  /\ GrantedIsAssigned

LEMMA IdleHandler ==
  /\ Missing \in TaskState /\ Listed \in TaskState
  /\ Idle \in Handler
  /\ \A p : HandlerOK(p, Idle)
<1>1. Missing \in TaskState /\ Listed \in TaskState
  <2>1. Missing \in TaskState
    BY Parameters DEF Missing, TaskState
  <2>. QED
    BY <2>1 DEF Listed, TaskState
<1>2. Idle \in Handler
  BY <1>1, Parameters DEF Idle, Handler, Step, Operation, Outcome
<1>. QED
  BY <1>1, <1>2 DEF Idle, HandlerOK, Updating, Settling

\* One handler goes on: what it carries is in order, so every handler's is.
LEMMA HandlersGoOn ==
  ASSUME IInv, NEW p \in Process, NEW local \in Handler, HandlerOK(p, local),
         Goto(p, local), UNCHANGED <<chain, txs>>
  PROVE  /\ proc' \in [Process -> Handler]
         /\ (\A q \in Process : HandlerOK(q, proc[q]))'
         /\ EscrowOK'
<1>1. proc' = [proc EXCEPT ![p] = local] /\ proc \in [Process -> Handler]
  BY DEF Goto, IInv, TypeOK
<1>2. \A q \in Process : proc'[q] = IF q = p THEN local ELSE proc[q]
  BY <1>1
<1>3. ASSUME NEW q \in Process
      PROVE  HandlerOK(q, proc[q])'
  <2>1. HandlerOK(q, proc'[q])
    BY <1>2 DEF IInv
  <2>. QED
    BY <2>1 DEF HandlerOK, Updating
<1>. QED
  BY <1>1, <1>3 DEF IInv, EscrowOK, Funded

\* ... and writes the store or the keys on its way.
LEMMA HandlerWrites ==
  ASSUME IInv, NEW p \in Process, NEW local \in Handler, HandlerOK(p, local),
         Goto(p, local), UNCHANGED <<escrow, host, granted>>,
         state' \in TaskState, open' \in BOOLEAN, executing' \subseteq Worker,
         lock' \in Request \cup {NoRequest}, deadlineKey' \in BOOLEAN,
         reconciled' \in 0 .. MaxTx, young' \in BOOLEAN, hLapsed' \subseteq Request
  PROVE  IInv'
<1>1. /\ proc' \in [Process -> Handler]
      /\ (\A q \in Process : HandlerOK(q, proc[q]))'
      /\ EscrowOK'
  BY HandlersGoOn DEF escrow
<1>2. TypeOK'
  BY <1>1 DEF TypeOK, IInv, escrow, host
<1>. QED
  BY <1>1, <1>2 DEF IInv, GrantedIsAssigned, escrow

LEMMA HandlerWritesStore ==
  ASSUME IInv, NEW p \in Process, NEW local \in Handler, HandlerOK(p, local),
         Goto(p, local), UNCHANGED <<escrow, keys, host, granted>>,
         state' \in TaskState, open' \in BOOLEAN, executing' \subseteq Worker
  PROVE  IInv'
<1>1. /\ lock' \in Request \cup {NoRequest} /\ deadlineKey' \in BOOLEAN
      /\ reconciled' \in 0 .. MaxTx /\ young' \in BOOLEAN /\ hLapsed' \subseteq Request
  BY DEF IInv, TypeOK, keys
<1>. QED
  BY <1>1, HandlerWrites

LEMMA HandlerReads ==
  ASSUME IInv, NEW p \in Process, NEW local \in Handler, HandlerOK(p, local),
         Goto(p, local), UNCHANGED <<store, escrow, keys, host, granted>>
  PROVE  IInv'
<1>1. state' \in TaskState /\ open' \in BOOLEAN /\ executing' \subseteq Worker
  BY DEF IInv, TypeOK, store
<1>. QED
  BY <1>1, HandlerWritesStore

\* A local set to a value of its domain.
LEMMA LocalSet ==
  ASSUME NEW local \in Handler
  PROVE  /\ \A at \in Step : [local EXCEPT !.at = at] \in Handler
         /\ \A op \in Operation : [local EXCEPT !.op = op] \in Handler
         /\ \A w \in Worker \cup {NoWorker} : [local EXCEPT !.caller = w] \in Handler
         /\ \A old \in TaskState : [local EXCEPT !.seen = old] \in Handler
         /\ \A write \in Patch \cup {"none", "open"} : [local EXCEPT !.write = write] \in Handler
         /\ \A t \in 0 .. MaxTx : [local EXCEPT !.tx = t] \in Handler
         /\ \A w \in Worker \cup {NoWorker} : [local EXCEPT !.found = w] \in Handler
         /\ \A res \in Outcome : [local EXCEPT !.res = res] \in Handler
  BY DEF Handler

\* A handler that begins, or that has nothing left but its lock to give back.
LEMMA FreshHandler ==
  ASSUME NEW p, NEW at \in Step \ {"load", "store", "wait"}, NEW op \in Operation,
         NEW caller \in Worker \cup {NoWorker}, at \in Settling => caller \in Worker,
         NEW seen \in TaskState, NEW write \in {"none", "open"}
  PROVE  /\ [Idle EXCEPT !.at = at, !.op = op, !.caller = caller] \in Handler
         /\ HandlerOK(p, [Idle EXCEPT !.at = at, !.op = op, !.caller = caller])
         /\ at \notin Settling =>
              /\ [Idle EXCEPT !.at = at] \in Handler
              /\ HandlerOK(p, [Idle EXCEPT !.at = at])
              /\ [Idle EXCEPT !.at = at, !.op = op] \in Handler
              /\ HandlerOK(p, [Idle EXCEPT !.at = at, !.op = op])
              /\ [Idle EXCEPT !.at = at, !.op = op, !.seen = seen] \in Handler
              /\ HandlerOK(p, [Idle EXCEPT !.at = at, !.op = op, !.seen = seen])
              /\ [Idle EXCEPT !.at = at, !.op = op, !.write = write] \in Handler
              /\ HandlerOK(p, [Idle EXCEPT !.at = at, !.op = op, !.write = write])
<1>. DEFINE here == [Idle EXCEPT !.at = at]
            there == [here EXCEPT !.op = op]
<1>1. here \in Handler
  BY IdleHandler, LocalSet
<1>2. there \in Handler
  BY <1>1, LocalSet
<1>3. /\ [there EXCEPT !.caller = caller] \in Handler
      /\ [there EXCEPT !.seen = seen] \in Handler
      /\ [there EXCEPT !.write = write] \in Handler
  BY <1>2, LocalSet
<1>4. /\ here.at = at /\ here.res = "none"
      /\ there.at = at /\ there.res = "none"
  BY DEF Idle
<1>. HIDE DEF here, there
<1>5. \A local \in Handler :
        local.at = at /\ local.res = "none" /\ (at \in Settling => local.caller \in Worker)
        => HandlerOK(p, local)
  BY DEF HandlerOK, Updating
<1>6. HandlerOK(p, [there EXCEPT !.caller = caller])
  <2>1. /\ [there EXCEPT !.caller = caller].at = at
        /\ [there EXCEPT !.caller = caller].res = "none"
        /\ [there EXCEPT !.caller = caller].caller = caller
    BY <1>2, <1>4 DEF Handler
  <2>. QED
    BY <2>1, <1>3, <1>5
<1>7. /\ [there EXCEPT !.seen = seen].at = at /\ [there EXCEPT !.seen = seen].res = "none"
      /\ [there EXCEPT !.write = write].at = at /\ [there EXCEPT !.write = write].res = "none"
  BY <1>2, <1>4 DEF Handler
<1>. QED
  <2>1. at \notin Settling =>
          /\ HandlerOK(p, here) /\ HandlerOK(p, there)
          /\ HandlerOK(p, [there EXCEPT !.seen = seen])
          /\ HandlerOK(p, [there EXCEPT !.write = write])
    BY <1>1, <1>2, <1>3, <1>4, <1>5, <1>7
  <2>. QED
    BY <1>1, <1>2, <1>3, <1>6, <2>1 DEF here, there

LEMMA LeaveOK ==
  ASSUME NEW p, NEW local \in Handler
  PROVE  /\ [Idle EXCEPT !.at = "unlock", !.op = local.op] \in Handler
         /\ HandlerOK(p, [Idle EXCEPT !.at = "unlock", !.op = local.op])
<1>1. /\ "unlock" \in Step \ {"load", "store", "wait"} /\ "unlock" \notin Settling
      /\ local.op \in Operation
  BY DEF Step, Settling, Handler
<1>. QED
  BY <1>1, IdleHandler, FreshHandler

\* A handler that goes on with what it has.
LEMMA MoveOK ==
  ASSUME NEW p, NEW local \in Handler, HandlerOK(p, local),
         NEW at \in Step \ {"load", "store", "wait"},
         at \in Settling => local.caller \in Worker
  PROVE  /\ [local EXCEPT !.at = at] \in Handler
         /\ HandlerOK(p, [local EXCEPT !.at = at])
<1>. DEFINE next == [local EXCEPT !.at = at]
<1>1. next \in Handler
  BY LocalSet
<1>2. next.at = at /\ next.res = local.res /\ next.caller = local.caller
  BY DEF Handler
<1>. QED
  BY <1>1, <1>2 DEF HandlerOK, Updating

\* ... or with an outcome.
LEMMA AnswerOK ==
  ASSUME NEW p, NEW local \in Handler, local.caller \in Worker,
         NEW at \in Step \ {"load", "store", "wait"}, NEW res \in Outcome,
         res = "success" => chain.worker = local.caller
  PROVE  /\ [local EXCEPT !.at = at, !.res = res] \in Handler
         /\ HandlerOK(p, [local EXCEPT !.at = at, !.res = res])
<1>. DEFINE here == [local EXCEPT !.at = at]
            next == [here EXCEPT !.res = res]
<1>1. here \in Handler
  BY LocalSet
<1>2. next \in Handler
  BY <1>1, LocalSet
<1>3. next.at = at /\ next.res = res /\ next.caller = local.caller
  BY DEF Handler
<1>. QED
  BY <1>2, <1>3 DEF HandlerOK, Updating

\* ... or turns to updateState.
LEMMA UpdateOK ==
  ASSUME NEW p, NEW local \in Handler, NEW write \in Patch,
         p # GasSweep /\ write \in {"broadcast", "assignError", "noError"}
           => local.caller \in Worker,
         write = "broadcast" => /\ local.tx \in Tx /\ txs[local.tx].st # "unused"
                                /\ txs[local.tx].worker = local.caller,
         local.res = "success" => local.caller \in Worker /\ chain.worker = local.caller
  PROVE  /\ [local EXCEPT !.at = "load", !.write = write] \in Handler
         /\ HandlerOK(p, [local EXCEPT !.at = "load", !.write = write])
<1>. DEFINE here == [local EXCEPT !.at = "load"]
            next == [here EXCEPT !.write = write]
<1>1. here \in Handler
  BY LocalSet DEF Step
<1>2. next \in Handler
  BY <1>1, LocalSet
<1>3. /\ next.at = "load" /\ next.write = write /\ next.res = local.res
      /\ next.caller = local.caller /\ next.tx = local.tx
  BY DEF Handler
<1>. QED
  BY <1>2, <1>3 DEF HandlerOK, Updating, Settling

LEMMA PatchedType ==
  ASSUME NEW local \in Handler, NEW old \in TaskState, local.write \in Patch
  PROVE  Patched(local, old) \in TaskState
<1>1. local.tx \in 0 .. MaxTx /\ local.found \in Worker \cup {NoWorker}
  BY DEF Handler
<1>2. CASE local.write = "broadcast"
  <2>1. Patched(local, old) = [[old EXCEPT !.tx = local.tx] EXCEPT !.error = FALSE]
    BY <1>2 DEF Patched
  <2>2. [old EXCEPT !.tx = local.tx] \in TaskState
    BY <1>1 DEF TaskState
  <2>. QED
    BY <2>1, <2>2 DEF TaskState
<1>3. CASE local.write = "assignError" \/ local.write = "noError"
  BY <1>3 DEF Patched, TaskState
<1>4. CASE local.write = "expired"
  <2>1. Patched(local, old) = [[old EXCEPT !.status = "failed"] EXCEPT !.reason = "expired"]
    BY <1>4 DEF Patched
  <2>2. [old EXCEPT !.status = "failed"] \in TaskState
    BY DEF TaskState
  <2>. QED
    BY <2>1, <2>2 DEF TaskState
<1>5. CASE local.write \in {"cancelled", "escrow_mismatch"}
  <2>. DEFINE failed == [old EXCEPT !.status = "failed"]
              marked == [failed EXCEPT !.reason = local.write]
  <2>1. Patched(local, old) = [marked EXCEPT !.executor = NoWorker]
    BY <1>5 DEF Patched
  <2>2. failed \in TaskState
    BY DEF TaskState
  <2>3. marked \in TaskState
    BY <1>5, <2>2 DEF TaskState
  <2>. QED
    BY <2>1, <2>3 DEF TaskState
<1>6. CASE local.write = "reconcile"
  BY <1>1, <1>6 DEF Patched, TaskState
<1>7. CASE local.write \in {"submitted", "accepted"}
  BY <1>7 DEF Patched, TaskState
<1>. QED
  BY <1>2, <1>3, <1>4, <1>5, <1>6, <1>7 DEF Patch

\* What IInv says of one handler and of the store.
LEMMA HandlerHere ==
  ASSUME IInv, NEW p \in Process
  PROVE  /\ proc[p] \in Handler /\ HandlerOK(p, proc[p])
         /\ state \in TaskState /\ open \in BOOLEAN /\ executing \subseteq Worker
         /\ txs \in [Tx -> [worker : Worker \cup {NoWorker}, st : TxState]]
         /\ EscrowOK
  BY DEF IInv, TypeOK

\* updateState.
LEMMA UpdateSteps ==
  ASSUME IInv, NEW p \in Process, Load(p) \/ Store(p)
  PROVE  IInv'
<1>. DEFINE local == proc[p]
<1>0. local \in Handler /\ HandlerOK(p, local) /\ state \in TaskState
  BY HandlerHere
<1>. HIDE DEF local
<1>1. CASE Load(p)
  <2>. DEFINE here == [local EXCEPT !.at = "store"]
              next == [here EXCEPT !.seen = state]
  <2>1. here \in Handler
    BY <1>0, LocalSet DEF Step
  <2>2. next \in Handler
    BY <1>0, <2>1, LocalSet
  <2>3. /\ next.at = "store" /\ next.write = local.write /\ next.res = local.res
        /\ next.caller = local.caller /\ next.tx = local.tx /\ local.at = "load"
    BY <1>0, <1>1 DEF Handler, Load, At, local
  <2>4. HandlerOK(p, next)
    BY <1>0, <2>3 DEF HandlerOK, Updating, Settling
  <2>5. Goto(p, next) /\ UNCHANGED <<store, escrow, keys, host, granted>>
    BY <1>1 DEF Load, local
  <2>. HIDE DEF next
  <2>. QED
    BY <2>2, <2>4, <2>5, HandlerReads
<1>2. CASE Store(p)
  <2>1. local.at = "store" /\ local.write \in Patch /\ local.seen \in TaskState
    BY <1>0, <1>2 DEF Store, At, local, HandlerOK, Updating, Handler
  <2>2. state' \in TaskState
    <3>1. state' = Patched(local, local.seen)
      BY <1>2 DEF Store, local
    <3>. QED
      BY <3>1, <1>0, <2>1, PatchedType
  <2>3. open' \in BOOLEAN
    BY <1>2 DEF Store, IInv, TypeOK
  <2>4. executing' \subseteq Worker
    <3>1. /\ state' = Patched(local, local.seen)
          /\ executing' = IF local.seen.executor = state'.executor THEN executing
                          ELSE (executing \ {local.seen.executor})
                                 \cup ({state'.executor} \ {NoWorker})
      BY <1>2 DEF Store, local
    <3>2. state'.executor \in Worker \cup {NoWorker}
      BY <2>2 DEF TaskState
    <3>. QED
      BY <3>1, <3>2, HandlerHere
  <2>5. UNCHANGED <<escrow, keys, host, granted>> /\ AfterStore(p)
    BY <1>2 DEF Store
  <2>6. ASSUME NEW next \in Handler, HandlerOK(p, next), Goto(p, next)
        PROVE  IInv'
    BY <2>2, <2>3, <2>4, <2>5, <2>6, HandlerWritesStore
  <2>. DEFINE then(at) == [local EXCEPT !.at = at, !.seen = Missing, !.write = "none"]
  <2>7. ASSUME NEW at \in {"mark", "wait", "result"},
               at # "mark" => p # GasSweep,
               at = "wait" => local.write = "broadcast",
               at = "result" => local.write \in {"assignError", "noError"}
        PROVE  then(at) \in Handler /\ HandlerOK(p, then(at))
    <3>. DEFINE here == [local EXCEPT !.at = at]
                there == [here EXCEPT !.seen = Missing]
    <3>1. here \in Handler
      BY <1>0, LocalSet DEF Step
    <3>2. there \in Handler
      BY <3>1, LocalSet, IdleHandler
    <3>3. then(at) \in Handler
      <4>1. [there EXCEPT !.write = "none"] \in Handler
        BY <3>2, LocalSet
      <4>2. then(at) = [there EXCEPT !.write = "none"]
        OBVIOUS
      <4>. QED
        BY <4>1, <4>2
    <3>4. /\ then(at).at = at /\ then(at).res = local.res
          /\ then(at).caller = local.caller /\ then(at).tx = local.tx
      BY <1>0 DEF Handler
    <3>5. at # "mark" => local.caller \in Worker
      BY <1>0, <2>1, <2>7 DEF HandlerOK, Updating
    <3>6. at = "wait" => /\ local.tx \in Tx /\ txs[local.tx].st # "unused"
                         /\ txs[local.tx].worker = local.caller
      BY <1>0, <2>1, <2>7 DEF HandlerOK, Updating
    <3>. HIDE DEF then
    <3>. QED
      BY <1>0, <3>3, <3>4, <3>5, <3>6 DEF HandlerOK, Updating, Settling
  <2>8. \/ p = GasSweep /\ Goto(p, then("mark"))
        \/ p # GasSweep /\ local.write = "broadcast" /\ Goto(p, then("wait"))
        \/ /\ p # GasSweep /\ local.write \in {"assignError", "noError"}
           /\ Goto(p, then("result"))
        \/ Leave(p)
        \/ Done(p)
    BY <2>5 DEF AfterStore, local
  <2>. HIDE DEF then
  <2>9. CASE Leave(p)
    BY <1>0, <2>6, <2>9, LeaveOK DEF Leave, local
  <2>10. CASE Done(p)
    BY <2>6, <2>10, IdleHandler DEF Done
  <2>. QED
    BY <2>6, <2>7, <2>8, <2>9, <2>10
<1>. QED
  BY <1>1, <1>2

LEMMA StoreScripts ==
  ASSUME IInv
  PROVE  /\ \A executor, tx, status : TryRelease(executor, tx, status) =>
              state' \in TaskState /\ open' \in BOOLEAN /\ executing' \subseteq Worker
         /\ TryExpire =>
              state' \in TaskState /\ open' \in BOOLEAN /\ executing' \subseteq Worker
<1>1. state \in TaskState /\ open \in BOOLEAN /\ executing \subseteq Worker
  BY DEF IInv, TypeOK
<1>2. ASSUME TryExpire, state.status = "open"
      PROVE  state' \in TaskState
  <2>1. state' = [[state EXCEPT !.status = "failed"] EXCEPT !.reason = "expired"]
    BY <1>2 DEF TryExpire
  <2>2. [state EXCEPT !.status = "failed"] \in TaskState
    BY <1>1 DEF TaskState
  <2>. QED
    BY <2>1, <2>2 DEF TaskState
<1>. QED
  BY <1>1, <1>2, IdleHandler DEF TryRelease, TryExpire, store

LEMMA AcceptSteps ==
  ASSUME IInv, NEW p \in Request,
         \/ \E w \in Worker : AcceptCheck(p, w)
         \/ AcquireLock(p) \/ ReadHolder(p) \/ TryAccept(p) \/ RewrapFailed(p)
         \/ StartDeadline(p) \/ Unlock(p)
  PROVE  IInv'
<1>. DEFINE local == proc[p]
<1>0. p \in Process
  BY DEF Process
<1>1. /\ local \in Handler /\ HandlerOK(p, local)
      /\ state \in TaskState /\ open \in BOOLEAN /\ executing \subseteq Worker
  BY <1>0, HandlerHere
<1>2. local.at \in Settling => local.caller \in Worker
  BY <1>1 DEF HandlerOK
<1>. HIDE DEF local
<1>3. ASSUME NEW w \in Worker, AcceptCheck(p, w)
      PROVE  IInv'
  <2>. DEFINE next == [Idle EXCEPT !.at = "lock", !.op = "accept", !.caller = w]
  <2>1. next \in Handler /\ HandlerOK(p, next)
    <3>1. "lock" \in Step \ {"load", "store", "wait"} /\ "accept" \in Operation
      BY DEF Step, Operation
    <3>. QED
      BY <3>1, FreshHandler, IdleHandler
  <2>2. Goto(p, next) /\ UNCHANGED <<store, escrow, keys, host, granted>>
    BY <1>3 DEF AcceptCheck
  <2>. HIDE DEF next
  <2>. QED
    BY <1>0, <2>1, <2>2, HandlerReads
<1>4. CASE AcquireLock(p)
  <2>1. local.at = "lock" /\ (Move(p, "read") \/ Done(p))
    BY <1>4 DEF AcquireLock, At, local
  <2>2. /\ [local EXCEPT !.at = "read"] \in Handler
        /\ HandlerOK(p, [local EXCEPT !.at = "read"])
    BY <1>1, <1>2, <2>1, MoveOK DEF Step, Settling
  <2>3. /\ state' \in TaskState /\ open' \in BOOLEAN /\ executing' \subseteq Worker
        /\ lock' \in Request \cup {NoRequest} /\ deadlineKey' \in BOOLEAN
        /\ reconciled' \in 0 .. MaxTx /\ young' \in BOOLEAN /\ hLapsed' \subseteq Request
        /\ UNCHANGED <<escrow, host, granted>>
    BY <1>4 DEF AcquireLock, IInv, TypeOK, store
  <2>. QED
    BY <1>0, <2>1, <2>2, <2>3, HandlerWrites, IdleHandler DEF Move, Done, local
<1>5. CASE ReadHolder(p)
  <2>1. /\ local.at = "read" /\ UNCHANGED <<store, escrow, keys, host, granted>>
        /\ \/ Goto(p, [local EXCEPT !.at = "settle", !.op = "resume"])
           \/ Goto(p, [local EXCEPT !.at = "cas"])
    BY <1>5 DEF ReadHolder, At, Move, local
  <2>. DEFINE here == [local EXCEPT !.at = "settle"]
              next == [here EXCEPT !.op = "resume"]
  <2>2. here \in Handler /\ HandlerOK(p, here)
    BY <1>1, <1>2, <2>1, MoveOK DEF Step, Settling
  <2>3. next \in Handler
    BY <2>2, LocalSet DEF Operation
  <2>4. HandlerOK(p, next)
    <3>1. next.at = here.at /\ next.res = here.res /\ next.caller = here.caller
          /\ here.at = "settle"
      BY <1>1 DEF Handler
    <3>. QED
      BY <2>2, <3>1 DEF HandlerOK, Updating, Settling
  <2>5. [local EXCEPT !.at = "cas"] \in Handler /\ HandlerOK(p, [local EXCEPT !.at = "cas"])
    BY <1>1, <1>2, <2>1, MoveOK DEF Step, Settling
  <2>. QED
    BY <1>0, <2>1, <2>3, <2>4, <2>5, HandlerReads
<1>6. CASE TryAccept(p)
  <2>1. local.at = "cas" /\ (Goto(p, [local EXCEPT !.at = "rewrap"]) \/ Leave(p))
        /\ local.caller \in Worker
    BY <1>2, <1>6 DEF TryAccept, At, Move, local, Settling
  <2>2. /\ [local EXCEPT !.at = "rewrap"] \in Handler
        /\ HandlerOK(p, [local EXCEPT !.at = "rewrap"])
    BY <1>1, <2>1, MoveOK DEF Step, Settling
  <2>3. /\ state' \in TaskState /\ open' \in BOOLEAN /\ executing' \subseteq Worker
    <3>1. CASE state.status = "open"
      <4>1. state' = [[state EXCEPT !.status = "accepted"] EXCEPT !.executor = local.caller]
        BY <1>6, <3>1 DEF TryAccept, local
      <4>2. [state EXCEPT !.status = "accepted"] \in TaskState
        BY <1>1 DEF TaskState
      <4>3. state' \in TaskState
        BY <4>1, <4>2, <2>1 DEF TaskState
      <4>. QED
        BY <1>1, <1>6, <2>1, <3>1, <4>3 DEF TryAccept, local
    <3>2. CASE state.status # "open"
      BY <1>1, <1>6, <3>2 DEF TryAccept, store
    <3>. QED
      BY <3>1, <3>2
  <2>4. /\ lock' \in Request \cup {NoRequest} /\ deadlineKey' \in BOOLEAN
        /\ reconciled' \in 0 .. MaxTx /\ young' \in BOOLEAN /\ hLapsed' \subseteq Request
        /\ UNCHANGED <<escrow, host, granted>>
    BY <1>6 DEF TryAccept, IInv, TypeOK
  <2>5. CASE Goto(p, [local EXCEPT !.at = "rewrap"])
    BY <1>0, <2>2, <2>3, <2>4, <2>5, HandlerWrites
  <2>6. CASE Leave(p)
    BY <1>0, <1>1, <2>3, <2>4, <2>6, LeaveOK, HandlerWrites DEF Leave, local
  <2>. QED
    BY <2>1, <2>5, <2>6
<1>7. CASE RewrapFailed(p)
  <2>1. Leave(p) /\ UNCHANGED <<escrow, keys, host, granted>>
        /\ state' \in TaskState /\ open' \in BOOLEAN /\ executing' \subseteq Worker
    BY <1>7, StoreScripts DEF RewrapFailed
  <2>. QED
    BY <1>0, <1>1, <2>1, LeaveOK, HandlerWritesStore DEF Leave, local
<1>8. CASE StartDeadline(p)
  <2>1. local.at = "rewrap" /\ Goto(p, [local EXCEPT !.at = "settle"])
    BY <1>8 DEF StartDeadline, At, Move, local
  <2>2. /\ [local EXCEPT !.at = "settle"] \in Handler
        /\ HandlerOK(p, [local EXCEPT !.at = "settle"])
    BY <1>1, <1>2, <2>1, MoveOK DEF Step, Settling
  <2>3. /\ state' \in TaskState /\ open' \in BOOLEAN /\ executing' \subseteq Worker
        /\ lock' \in Request \cup {NoRequest} /\ deadlineKey' \in BOOLEAN
        /\ reconciled' \in 0 .. MaxTx /\ young' \in BOOLEAN /\ hLapsed' \subseteq Request
        /\ UNCHANGED <<escrow, host, granted>>
    BY <1>8 DEF StartDeadline, IInv, TypeOK, store
  <2>. QED
    BY <1>0, <2>1, <2>2, <2>3, HandlerWrites
<1>9. CASE Unlock(p)
  <2>1. /\ state' \in TaskState /\ open' \in BOOLEAN /\ executing' \subseteq Worker
        /\ lock' \in Request \cup {NoRequest} /\ deadlineKey' \in BOOLEAN
        /\ reconciled' \in 0 .. MaxTx /\ young' \in BOOLEAN /\ hLapsed' \subseteq Request
        /\ UNCHANGED <<escrow, host, granted>> /\ Done(p)
    BY <1>9 DEF Unlock, IInv, TypeOK, store
  <2>. QED
    BY <1>0, <2>1, HandlerWrites, IdleHandler DEF Done
<1>. QED
  BY <1>3, <1>4, <1>5, <1>6, <1>7, <1>8, <1>9

\* Where a settling handler may go without touching the store.
LEMMA SettlingMoves ==
  ASSUME IInv, NEW p \in Request, proc[p].at \in Settling,
         UNCHANGED <<store, escrow, keys, host, granted>>,
         \/ \E at \in {"confirm", "send", "result"} : Move(p, at)
         \/ \E res \in Outcome \ {"success"} : Answer(p, res) \/ AssignError(p, res)
         \/ \E at \in {"result", "unconfirmed", "clear"}, res \in Outcome :
              /\ res = "success" => chain.worker = proc[p].caller
              /\ Goto(p, [proc[p] EXCEPT !.at = at, !.res = res])
  PROVE  IInv'
<1>. DEFINE local == proc[p]
<1>0. p \in Process
  BY DEF Process
<1>1. local \in Handler /\ HandlerOK(p, local)
  BY <1>0, HandlerHere
<1>2. local.caller \in Worker
  BY <1>1 DEF HandlerOK
<1>. HIDE DEF local
<1>3. ASSUME NEW at \in {"confirm", "send", "result"}, Move(p, at)
      PROVE  IInv'
  <2>1. [local EXCEPT !.at = at] \in Handler /\ HandlerOK(p, [local EXCEPT !.at = at])
    BY <1>1, <1>2, MoveOK DEF Step
  <2>. QED
    BY <1>0, <1>3, <2>1, HandlerReads DEF Move, local
<1>4. ASSUME NEW at \in {"result", "unconfirmed", "clear"}, NEW res \in Outcome,
             res = "success" => chain.worker = local.caller,
             Goto(p, [local EXCEPT !.at = at, !.res = res])
      PROVE  IInv'
  <2>1. /\ [local EXCEPT !.at = at, !.res = res] \in Handler
        /\ HandlerOK(p, [local EXCEPT !.at = at, !.res = res])
    BY <1>1, <1>2, <1>4, AnswerOK DEF Step
  <2>. QED
    BY <1>0, <1>4, <2>1, HandlerReads
<1>5. ASSUME NEW res \in Outcome \ {"success"}, Answer(p, res)
      PROVE  IInv'
  BY <1>4, <1>5 DEF Answer, local
<1>6. ASSUME NEW res \in Outcome \ {"success"}, AssignError(p, res)
      PROVE  IInv'
  <2>. DEFINE here == [local EXCEPT !.res = res]
              next == [here EXCEPT !.at = "load", !.write = "assignError"]
  <2>1. here \in Handler /\ here.caller \in Worker /\ here.res # "success"
    BY <1>1, <1>2, LocalSet DEF Handler
  <2>. HIDE DEF here
  <2>2. next \in Handler /\ HandlerOK(p, next)
    BY <2>1, UpdateOK DEF Patch
  <2>3. Goto(p, next)
    BY <1>6 DEF AssignError, Update, here, local
  <2>. QED
    BY <1>0, <2>2, <2>3, HandlerReads
<1>. QED
  BY <1>3, <1>4, <1>5, <1>6 DEF local

LEMMA SettleSteps ==
  ASSUME IInv, NEW p \in Request,
         Settle(p) \/ Wait(p) \/ Unconfirmed(p) \/ Confirm(p) \/ ClearError(p)
  PROVE  IInv'
<1>. DEFINE local == proc[p]
<1>0. p \in Process
  BY DEF Process
<1>1. local \in Handler /\ HandlerOK(p, local)
  BY <1>0, HandlerHere
<1>2. local.at \in {"settle", "wait", "unconfirmed", "confirm", "clear"}
  BY DEF Settle, Wait, Unconfirmed, Confirm, ClearError, At
<1>3. local.at \in Settling
  BY <1>2 DEF Settling
<1>4. UNCHANGED <<store, escrow, keys, host, granted>>
  BY DEF Settle, Wait, Unconfirmed, Confirm, ClearError
<1>5. CASE Settle(p)
  BY <1>3, <1>4, <1>5, SettlingMoves DEF Settle, Outcome
<1>6. CASE Wait(p)
  <2>1. local.at = "wait" /\ local.tx \in Tx /\ txs[local.tx].worker = local.caller
    BY <1>1, <1>6 DEF Wait, At, HandlerOK
  <2>2. txs[local.tx].st = "mined" => chain.worker = local.caller
    BY <2>1 DEF IInv, EscrowOK
  <2>3. \/ txs[local.tx].st = "mined" /\ Answer(p, "success")
        \/ Goto(p, [local EXCEPT !.at = "unconfirmed", !.res = "reverted"])
        \/ Goto(p, [local EXCEPT !.at = "unconfirmed", !.res = "timeout"])
    BY <1>6 DEF Wait
  <2>4. "success" \in Outcome /\ "reverted" \in Outcome /\ "timeout" \in Outcome
    BY DEF Outcome
  <2>. QED
    BY <1>3, <1>4, <2>2, <2>3, <2>4, SettlingMoves DEF Answer
<1>7. CASE Unconfirmed(p)
  <2>1. \/ chain.worker = local.caller /\ Confirmed(p)
        \/ AssignError(p, "error") \/ Answer(p, "pending")
    BY <1>7 DEF Unconfirmed
  <2>. QED
    BY <1>3, <1>4, <2>1, SettlingMoves DEF Confirmed, Outcome
<1>8. CASE Confirm(p)
  <2>1. CASE Goto(p, [local EXCEPT !.at = "result", !.res = "elsewhere", !.found = chain.worker])
    <3>. DEFINE here == [local EXCEPT !.at = "result", !.res = "elsewhere"]
                next == [here EXCEPT !.found = chain.worker]
    <3>1. here \in Handler /\ HandlerOK(p, here) /\ here.at = "result" /\ here.res = "elsewhere"
          /\ here.caller \in Worker
      <4>1. local.caller \in Worker
        BY <1>1, <1>3 DEF HandlerOK
      <4>2. here \in Handler /\ HandlerOK(p, here)
        BY <1>1, <4>1, AnswerOK DEF Step, Outcome
      <4>. QED
        BY <1>1, <4>1, <4>2 DEF Handler
    <3>2. Goto(p, next)
      BY <2>1
    <3>. HIDE DEF here
    <3>3. next \in Handler
      BY <3>1, LocalSet DEF IInv, TypeOK
    <3>4. next.at = "result" /\ next.res = "elsewhere" /\ next.caller \in Worker
      BY <3>1 DEF Handler
    <3>5. HandlerOK(p, next)
      BY <3>4 DEF HandlerOK, Updating, Settling
    <3>. QED
      BY <1>0, <1>4, <3>2, <3>3, <3>5, HandlerReads
  <2>2. CASE ~Goto(p, [local EXCEPT !.at = "result", !.res = "elsewhere", !.found = chain.worker])
    <3>1. \/ chain.worker = local.caller /\ Confirmed(p)
          \/ AssignError(p, "error") \/ Answer(p, "cancelled")
      BY <1>8, <2>2 DEF Confirm
    <3>. QED
      BY <1>3, <1>4, <3>1, SettlingMoves DEF Confirmed, Outcome
  <2>. QED
    BY <2>1, <2>2
<1>9. CASE ClearError(p)
  <2>1. CASE Move(p, "result")
    BY <1>3, <1>4, <2>1, SettlingMoves
  <2>2. CASE Update(p, local, "noError")
    <3>1. /\ [local EXCEPT !.at = "load", !.write = "noError"] \in Handler
          /\ HandlerOK(p, [local EXCEPT !.at = "load", !.write = "noError"])
      <4>1. /\ local.caller \in Worker
            /\ local.res = "success" => chain.worker = local.caller
        BY <1>1, <1>3 DEF HandlerOK
      <4>2. "noError" \in Patch
        BY DEF Patch
      <4>. QED
        BY <1>1, <4>1, <4>2, UpdateOK
    <3>. QED
      BY <1>0, <1>4, <2>2, <3>1, HandlerReads DEF Update
  <2>. QED
    BY <1>9, <2>1, <2>2 DEF ClearError
<1>. QED
  BY <1>5, <1>6, <1>7, <1>8, <1>9

\* The one step that makes a transaction, signed for the handler's caller.
LEMMA SendStep ==
  ASSUME IInv, NEW p \in Request, Send(p)
  PROVE  IInv'
<1>. DEFINE local == proc[p]
<1>0. p \in Process
  BY DEF Process
<1>1. /\ local \in Handler /\ HandlerOK(p, local) /\ local.at = "send"
      /\ txs \in [Tx -> [worker : Worker \cup {NoWorker}, st : TxState]] /\ EscrowOK
  BY <1>0, HandlerHere DEF Send, At
<1>2. local.at \in Settling /\ local.caller \in Worker
  BY <1>1 DEF HandlerOK, Settling
<1>3. CASE UNCHANGED txs
  <2>1. UNCHANGED <<store, escrow, keys, host, granted>>
    BY <1>3 DEF Send, escrow
  <2>2. \/ Move(p, "confirm") \/ Answer(p, "expired") \/ AssignError(p, "error")
    <3>. SUFFICES ASSUME NEW t \in Tx, txs[t].st = "unused",
                         txs' = [txs EXCEPT ![t] = [worker |-> local.caller, st |-> "pool"]]
                  PROVE  FALSE
      BY DEF Send
    <3>1. txs'[t].st = "pool"
      BY <1>1
    <3>. QED
      BY <1>3, <3>1
  <2>. QED
    BY <1>2, <2>1, <2>2, SettlingMoves DEF Outcome
<1>4. ASSUME NEW t \in Tx, txs[t].st = "unused",
             txs' = [txs EXCEPT ![t] = [worker |-> local.caller, st |-> "pool"]],
             Update(p, [local EXCEPT !.tx = t], "broadcast")
      PROVE  IInv'
  <2>. DEFINE sent == [local EXCEPT !.tx = t]
              here == [sent EXCEPT !.at = "load"]
              next == [here EXCEPT !.write = "broadcast"]
  <2>1. sent \in Handler
    BY <1>1, LocalSet DEF Tx
  <2>2. here \in Handler
    BY <2>1, LocalSet DEF Step
  <2>3. next \in Handler
    BY <2>2, LocalSet DEF Patch
  <2>4. /\ next.at = "load" /\ next.write = "broadcast" /\ next.tx = t
        /\ next.caller = local.caller /\ next.res = local.res
    BY <1>1 DEF Handler
  <2>5. proc' = [proc EXCEPT ![p] = next]
    BY <1>4 DEF Update, Goto
  <2>. HIDE DEF next
  <2>6. /\ txs' \in [Tx -> [worker : Worker \cup {NoWorker}, st : TxState]]
        /\ txs'[t].worker = local.caller /\ txs'[t].st = "pool"
        /\ \A s \in Tx \ {t} : txs'[s] = txs[s]
    BY <1>1, <1>2, <1>4 DEF TxState
  <2>7. UNCHANGED <<store, chain, mapped, late, keys, host, granted>>
    BY DEF Send
  <2>8. proc \in [Process -> Handler] /\ \A q \in Process : HandlerOK(q, proc[q])
    BY DEF IInv, TypeOK
  <2>9. proc' \in [Process -> Handler]
    BY <2>3, <2>5, <2>8
  <2>10. TypeOK'
    BY <2>6, <2>7, <2>9 DEF IInv, TypeOK, store, keys, host
  <2>11. EscrowOK'
    <3>1. ASSUME NEW s \in Tx
          PROVE  /\ txs'[s].st # "unused" => txs'[s].worker \in Worker
                 /\ txs'[s].st = "mined" => chain'.worker = txs'[s].worker
      BY <1>1, <1>2, <2>6, <2>7 DEF EscrowOK
    <3>. QED
      BY <1>1, <2>7, <3>1 DEF EscrowOK, Funded
  <2>12. ASSUME NEW q \in Process
         PROVE  HandlerOK(q, proc[q])'
    <3>1. CASE q = p
      <4>1. proc'[q] = next
        BY <2>5, <2>8, <3>1
      <4>2. next.res = "success" => chain'.worker = next.caller
        BY <1>1, <2>4, <2>7 DEF HandlerOK
      <4>3. txs'[next.tx].st # "unused" /\ txs'[next.tx].worker = next.caller
        BY <2>4, <2>6
      <4>. QED
        BY <1>2, <2>4, <4>1, <4>2, <4>3 DEF HandlerOK, Updating, Patch
    <3>2. CASE q # p
      <4>1. proc'[q] = proc[q] /\ HandlerOK(q, proc[q])
        BY <2>5, <2>8, <3>2
      <4>2. \A s \in Tx : txs[s].st # "unused" => txs'[s] = txs[s]
        BY <1>4, <2>6
      <4>. QED
        BY <2>7, <4>1, <4>2 DEF HandlerOK, Updating
    <3>. QED
      BY <3>1, <3>2
  <2>. QED
    BY <2>7, <2>10, <2>11, <2>12 DEF IInv, GrantedIsAssigned
<1>. QED
  BY <1>3, <1>4 DEF Send

LEMMA AnswerSteps ==
  ASSUME IInv, NEW p \in Request, Grant(p) \/ Refuse(p)
  PROVE  IInv'
<1>. DEFINE local == proc[p]
<1>0. p \in Process
  BY DEF Process
<1>1. local \in Handler /\ HandlerOK(p, local) /\ local.at = "result"
  BY <1>0, HandlerHere DEF Grant, Refuse, At
<1>2. /\ local.caller \in Worker
      /\ local.res = "success" => chain.worker = local.caller
  BY <1>1 DEF HandlerOK, Settling
<1>. HIDE DEF local
<1>3. CASE Grant(p)
  <2>1. /\ granted' = granted \cup {local.caller} /\ local.res = "success" /\ Leave(p)
        /\ UNCHANGED <<store, escrow, lock, reconciled, young, hLapsed, host>>
    BY <1>3 DEF Grant, local
  <2>. DEFINE next == [Idle EXCEPT !.at = "unlock", !.op = local.op]
  <2>2. next \in Handler /\ HandlerOK(p, next) /\ Goto(p, next)
    BY <1>1, <2>1, LeaveOK DEF Leave, local
  <2>3. /\ proc' \in [Process -> Handler]
        /\ (\A q \in Process : HandlerOK(q, proc[q]))'
        /\ EscrowOK'
    BY <1>0, <2>1, <2>2, HandlersGoOn DEF escrow
  <2>4. deadlineKey' \in BOOLEAN
    BY <1>3 DEF Grant, IInv, TypeOK
  <2>5. TypeOK'
    BY <1>2, <2>1, <2>3, <2>4 DEF IInv, TypeOK, store, escrow, host
  <2>6. GrantedIsAssigned'
    BY <1>2, <2>1 DEF IInv, GrantedIsAssigned, escrow
  <2>. QED
    BY <2>3, <2>5, <2>6 DEF IInv
<1>4. CASE Refuse(p)
  <2>1. UNCHANGED <<escrow, keys, host, granted>> /\ local.res # "success"
    BY <1>4 DEF Refuse, local
  <2>2. state' \in TaskState /\ open' \in BOOLEAN /\ executing' \subseteq Worker
    <3>1. UNCHANGED store => state' \in TaskState /\ open' \in BOOLEAN /\ executing' \subseteq Worker
      BY DEF store, IInv, TypeOK
    <3>. QED
      BY <1>4, <3>1, StoreScripts DEF Refuse
  <2>3. \/ Leave(p)
        \/ \E write \in {"expired", "cancelled", "escrow_mismatch", "reconcile"} :
             Update(p, local, write)
    BY <1>4 DEF Refuse, local
  <2>4. CASE Leave(p)
    BY <1>0, <1>1, <2>1, <2>2, <2>4, LeaveOK, HandlerWritesStore DEF Leave, local
  <2>5. ASSUME NEW write \in {"expired", "cancelled", "escrow_mismatch", "reconcile"},
               Update(p, local, write)
        PROVE  IInv'
    <3>1. write \in Patch /\ write # "broadcast"
      BY DEF Patch
    <3>2. /\ [local EXCEPT !.at = "load", !.write = write] \in Handler
          /\ HandlerOK(p, [local EXCEPT !.at = "load", !.write = write])
      BY <1>1, <1>2, <3>1, UpdateOK
    <3>. QED
      BY <1>0, <2>1, <2>2, <2>5, <3>2, HandlerWritesStore DEF Update
  <2>. QED
    BY <2>3, <2>4, <2>5
<1>. QED
  BY <1>3, <1>4

LEMMA HandBackSteps ==
  ASSUME IInv, NEW p \in Request,
         \/ Index(p) \/ IndexWrite(p)
         \/ \E w \in Worker : Submit(p, w)
         \/ \E op \in {"release", "force", "rewind"} : HandBack(p, op)
         \/ CheckChain(p) \/ Release(p) \/ ForceRead(p) \/ ForceWrite(p)
  PROVE  IInv'
<1>. DEFINE local == proc[p]
<1>0. p \in Process
  BY DEF Process
<1>1. /\ local \in Handler /\ HandlerOK(p, local)
      /\ state \in TaskState /\ open \in BOOLEAN /\ executing \subseteq Worker
  BY <1>0, HandlerHere
<1>2. local.res = "success" => local.caller \in Worker /\ chain.worker = local.caller
  BY <1>1 DEF HandlerOK
<1>. HIDE DEF local
<1>3. \A at \in {"idle", "index", "chain"} :
        at \in Step \ {"load", "store", "wait"} /\ at \notin Settling
  BY DEF Step, Settling
<1>4. CASE Index(p)
  <2>. DEFINE next == [Idle EXCEPT !.at = "index", !.op = "index", !.seen = state]
  <2>1. next \in Handler /\ HandlerOK(p, next)
    BY <1>1, <1>3, FreshHandler, IdleHandler DEF Operation
  <2>2. Goto(p, next) /\ UNCHANGED <<store, escrow, keys, host, granted>>
    BY <1>4 DEF Index
  <2>. HIDE DEF next
  <2>. QED
    BY <1>0, <2>1, <2>2, HandlerReads
<1>5. CASE IndexWrite(p)
  <2>1. Done(p) /\ UNCHANGED <<escrow, keys, host, granted>>
        /\ state' \in TaskState /\ open' \in BOOLEAN /\ executing' \subseteq Worker
    BY <1>1, <1>5, IdleHandler DEF IndexWrite
  <2>. QED
    BY <1>0, <2>1, IdleHandler, HandlerWritesStore DEF Done
<1>6. ASSUME NEW w \in Worker, Submit(p, w)
      PROVE  IInv'
  <2>. DEFINE next == [Idle EXCEPT !.at = "chain", !.op = "submit", !.caller = w]
  <2>1. next \in Handler /\ HandlerOK(p, next)
    BY <1>3, FreshHandler, IdleHandler DEF Operation
  <2>2. Goto(p, next) /\ UNCHANGED <<store, escrow, keys, host, granted>>
    BY <1>6 DEF Submit
  <2>. HIDE DEF next
  <2>. QED
    BY <1>0, <2>1, <2>2, HandlerReads
<1>7. ASSUME NEW op \in {"release", "force", "rewind"}, HandBack(p, op)
      PROVE  IInv'
  <2>. DEFINE next == [Idle EXCEPT !.at = "chain", !.op = op, !.seen = state]
  <2>1. next \in Handler /\ HandlerOK(p, next)
    BY <1>1, <1>3, FreshHandler, IdleHandler DEF Operation
  <2>2. Goto(p, next) /\ UNCHANGED <<store, escrow, keys, host, granted>>
    BY <1>7 DEF HandBack
  <2>. HIDE DEF next
  <2>. QED
    BY <1>0, <2>1, <2>2, HandlerReads
<1>8. CASE CheckChain(p)
  <2>1. UNCHANGED <<store, escrow, keys, host, granted>>
    BY <1>8 DEF CheckChain
  <2>2. p # GasSweep
    BY Parameters
  <2>. DEFINE forget(at) == [local EXCEPT !.at = at, !.seen = Missing]
              blank == [local EXCEPT !.seen = Missing]
  <2>3. \/ Done(p) \/ Update(p, local, "submitted") \/ Move(p, "reopen")
        \/ Goto(p, forget("forceRead")) \/ Update(p, blank, "accepted")
    BY <1>8 DEF CheckChain, local
  <2>4. blank \in Handler /\ blank.caller = local.caller /\ blank.res = local.res
    BY <1>1, LocalSet, IdleHandler DEF Handler
  <2>5. ASSUME NEW here \in Handler, here.caller = local.caller, here.res = local.res,
               NEW write \in {"submitted", "accepted"}, Update(p, here, write)
        PROVE  IInv'
    <3>1. write \in Patch
      BY DEF Patch
    <3>2. /\ [here EXCEPT !.at = "load", !.write = write] \in Handler
          /\ HandlerOK(p, [here EXCEPT !.at = "load", !.write = write])
      BY <1>2, <2>5, <3>1, UpdateOK
    <3>. QED
      BY <1>0, <2>1, <2>5, <3>2, HandlerReads DEF Update
  <2>6. CASE Move(p, "reopen")
    <3>1. "reopen" \in Step \ {"load", "store", "wait"} /\ "reopen" \notin Settling
      BY DEF Step, Settling
    <3>2. /\ [local EXCEPT !.at = "reopen"] \in Handler
          /\ HandlerOK(p, [local EXCEPT !.at = "reopen"])
      BY <1>1, <3>1, MoveOK
    <3>. QED
      BY <1>0, <2>1, <2>6, <3>2, HandlerReads DEF Move, local
  <2>7. CASE Goto(p, forget("forceRead"))
    <3>. DEFINE here == [local EXCEPT !.at = "forceRead"]
    <3>1. "forceRead" \in Step \ {"load", "store", "wait"} /\ "forceRead" \notin Settling
      BY DEF Step, Settling
    <3>2. here \in Handler
      BY <1>1, <3>1, LocalSet
    <3>3. forget("forceRead") \in Handler
      <4>1. [here EXCEPT !.seen = Missing] \in Handler
        BY <3>2, LocalSet, IdleHandler
      <4>2. forget("forceRead") = [here EXCEPT !.seen = Missing]
        OBVIOUS
      <4>. QED
        BY <4>1, <4>2
    <3>4. /\ forget("forceRead").at = "forceRead" /\ forget("forceRead").res = local.res
          /\ forget("forceRead").caller = local.caller
      BY <1>1 DEF Handler
    <3>. HIDE DEF forget
    <3>5. HandlerOK(p, forget("forceRead"))
      BY <1>2, <3>1, <3>4 DEF HandlerOK, Updating
    <3>. QED
      BY <1>0, <2>1, <2>7, <3>3, <3>5, HandlerReads
  <2>8. CASE Done(p)
    BY <1>0, <2>1, <2>8, IdleHandler, HandlerReads DEF Done
  <2>. QED
    BY <1>1, <2>3, <2>4, <2>5, <2>6, <2>7, <2>8
<1>9. CASE Release(p)
  <2>1. Done(p) /\ UNCHANGED <<escrow, keys, host, granted>>
        /\ state' \in TaskState /\ open' \in BOOLEAN /\ executing' \subseteq Worker
    BY <1>9, StoreScripts DEF Release
  <2>. QED
    BY <1>0, <2>1, IdleHandler, HandlerWritesStore DEF Done
<1>10. CASE ForceRead(p)
  <2>1. UNCHANGED <<store, escrow, keys, host, granted>> /\ local.at = "forceRead"
    BY <1>10 DEF ForceRead, At, local
  <2>2. CASE Done(p)
    BY <1>0, <2>1, <2>2, IdleHandler, HandlerReads DEF Done
  <2>3. CASE Goto(p, [local EXCEPT !.at = "forceWrite", !.seen = state])
    <3>. DEFINE here == [local EXCEPT !.at = "forceWrite"]
                next == [here EXCEPT !.seen = state]
    <3>1. "forceWrite" \in Step /\ "forceWrite" \notin Settling
      BY DEF Step, Settling
    <3>2. here \in Handler
      BY <1>1, <3>1, LocalSet
    <3>3. next \in Handler
      BY <1>1, <3>2, LocalSet
    <3>4. next.at = "forceWrite" /\ next.res = local.res /\ next.caller = local.caller
      BY <1>1 DEF Handler
    <3>5. Goto(p, next)
      BY <2>3
    <3>. HIDE DEF next
    <3>6. HandlerOK(p, next)
      BY <1>2, <3>1, <3>4 DEF HandlerOK, Updating
    <3>. QED
      BY <1>0, <2>1, <3>3, <3>5, <3>6, HandlerReads
  <2>. QED
    BY <1>10, <2>2, <2>3 DEF ForceRead, local
<1>11. CASE ForceWrite(p)
  <2>1. Done(p) /\ UNCHANGED <<escrow, keys, host, granted>>
        /\ state' \in TaskState /\ open' \in BOOLEAN /\ executing' \subseteq Worker
    BY <1>1, <1>11, IdleHandler DEF ForceWrite
  <2>. QED
    BY <1>0, <2>1, IdleHandler, HandlerWritesStore DEF Done
<1>. QED
  BY <1>4, <1>5, <1>6, <1>7, <1>8, <1>9, <1>10, <1>11

LEMMA ExpirySweepSteps ==
  ASSUME IInv, ExpirySweepStep
  PROVE  IInv'
<1>. DEFINE p == ExpirySweep
            local == proc[p]
<1>0. p \in Process
  BY DEF Process
<1>1. /\ local \in Handler /\ HandlerOK(p, local)
      /\ state \in TaskState /\ open \in BOOLEAN /\ executing \subseteq Worker
  BY <1>0, HandlerHere
<1>2. \A at \in {"resync", "resyncWrite", "list", "expire"} :
        at \in Step \ {"load", "store", "wait"} /\ at \notin Settling
  BY DEF Step, Settling
<1>. HIDE DEF local
<1>3. [Idle EXCEPT !.at = "list"] \in Handler /\ HandlerOK(p, [Idle EXCEPT !.at = "list"])
  BY <1>2, FreshHandler, IdleHandler DEF Operation
<1>4. CASE ResyncRead(p)
  <2>. DEFINE next(write) == [Idle EXCEPT !.at = "resync", !.op = "sweep", !.write = write]
  <2>1. \A write \in {"none", "open"} : next(write) \in Handler /\ HandlerOK(p, next(write))
    BY <1>2, FreshHandler, IdleHandler DEF Operation
  <2>2. /\ Goto(p, next(IF state.status = "open" THEN "open" ELSE "none"))
        /\ UNCHANGED <<store, escrow, keys, host, granted>>
    BY <1>4 DEF ResyncRead
  <2>3. (IF state.status = "open" THEN "open" ELSE "none") \in {"none", "open"}
    OBVIOUS
  <2>. HIDE DEF next
  <2>. QED
    BY <1>0, <2>1, <2>2, <2>3, HandlerReads
<1>5. CASE ResyncCompare(p)
  <2>1. /\ Goto(p, [Idle EXCEPT !.at = "list"]) \/ Goto(p, [local EXCEPT !.at = "resyncWrite"])
        /\ UNCHANGED <<store, escrow, keys, host, granted>>
    BY <1>5 DEF ResyncCompare, Move, local
  <2>2. /\ [local EXCEPT !.at = "resyncWrite"] \in Handler
        /\ HandlerOK(p, [local EXCEPT !.at = "resyncWrite"])
    BY <1>1, <1>2, MoveOK
  <2>. QED
    BY <1>0, <1>3, <2>1, <2>2, HandlerReads
<1>6. CASE ResyncWrite(p)
  <2>1. /\ Goto(p, [Idle EXCEPT !.at = "list"]) /\ UNCHANGED <<escrow, keys, host, granted>>
        /\ state' \in TaskState /\ open' \in BOOLEAN /\ executing' \subseteq Worker
    BY <1>1, <1>6 DEF ResyncWrite
  <2>. QED
    BY <1>0, <1>3, <2>1, HandlerWritesStore
<1>7. CASE ListOpen(p)
  <2>1. /\ Goto(p, [local EXCEPT !.at = "expire"]) \/ Done(p)
        /\ UNCHANGED <<store, escrow, keys, host, granted>>
    BY <1>7 DEF ListOpen, Move, local
  <2>2. /\ [local EXCEPT !.at = "expire"] \in Handler
        /\ HandlerOK(p, [local EXCEPT !.at = "expire"])
    BY <1>1, <1>2, MoveOK
  <2>. QED
    BY <1>0, <2>1, <2>2, IdleHandler, HandlerReads DEF Done
<1>8. CASE Expire(p)
  <2>1. Done(p) /\ UNCHANGED <<escrow, keys, host, granted>>
        /\ state' \in TaskState /\ open' \in BOOLEAN /\ executing' \subseteq Worker
    BY <1>1, <1>8, StoreScripts DEF Expire, store
  <2>. QED
    BY <1>0, <2>1, IdleHandler, HandlerWritesStore DEF Done
<1>. QED
  BY <1>4, <1>5, <1>6, <1>7, <1>8 DEF ExpirySweepStep

LEMMA GasSweepSteps ==
  ASSUME IInv, GasSweepStep
  PROVE  IInv'
<1>. DEFINE p == GasSweep
            local == proc[p]
<1>0. p \in Process
  BY DEF Process
<1>1. /\ local \in Handler /\ HandlerOK(p, local)
      /\ state \in TaskState /\ open \in BOOLEAN /\ executing \subseteq Worker
  BY <1>0, HandlerHere
<1>2. local.res = "success" => local.caller \in Worker /\ chain.worker = local.caller
  BY <1>1 DEF HandlerOK
<1>3. \A at \in {"gasRead", "chain", "receipt", "reopen", "mark"} :
        at \in Step \ {"load", "store", "wait"} /\ at \notin Settling
  BY DEF Step, Settling
<1>. HIDE DEF local
<1>4. ASSUME NEW at \in {"receipt", "reopen"}, Move(p, at),
             UNCHANGED <<store, escrow, keys, host, granted>>
      PROVE  IInv'
  <2>1. [local EXCEPT !.at = at] \in Handler /\ HandlerOK(p, [local EXCEPT !.at = at])
    BY <1>1, <1>3, MoveOK
  <2>. QED
    BY <1>0, <1>4, <2>1, HandlerReads DEF Move, local
<1>5. ASSUME Done(p), UNCHANGED <<store, escrow, keys, host, granted>>
      PROVE  IInv'
  BY <1>0, <1>5, IdleHandler, HandlerReads DEF Done
<1>6. CASE GasList(p)
  <2>. DEFINE next == [Idle EXCEPT !.at = "gasRead", !.op = "sweep", !.caller = state.executor]
  <2>1. state.executor \in Worker \cup {NoWorker}
    BY <1>1 DEF TaskState
  <2>2. next \in Handler /\ HandlerOK(p, next)
    BY <1>3, <2>1, FreshHandler, IdleHandler DEF Operation
  <2>3. Goto(p, next) /\ UNCHANGED <<store, escrow, keys, host, granted>>
    BY <1>6 DEF GasList
  <2>. HIDE DEF next
  <2>. QED
    BY <1>0, <2>2, <2>3, HandlerReads
<1>7. CASE GasRead(p)
  <2>1. UNCHANGED <<store, escrow, keys, host, granted>>
        /\ (Done(p) \/ Goto(p, [local EXCEPT !.at = "chain", !.seen = state]))
    BY <1>7 DEF GasRead, local
  <2>. DEFINE here == [local EXCEPT !.at = "chain"]
              next == [here EXCEPT !.seen = state]
  <2>2. here \in Handler
    BY <1>1, <1>3, LocalSet
  <2>3. next \in Handler
    BY <1>1, <2>2, LocalSet
  <2>4. next.at = "chain" /\ next.res = local.res /\ next.caller = local.caller
    BY <1>1 DEF Handler
  <2>5. Done(p) \/ Goto(p, next)
    BY <2>1
  <2>. HIDE DEF next
  <2>6. HandlerOK(p, next)
    BY <1>2, <1>3, <2>4 DEF HandlerOK, Updating
  <2>. QED
    BY <1>0, <1>5, <2>1, <2>3, <2>5, <2>6, HandlerReads
<1>8. CASE GasChain(p)
  <2>. DEFINE found == [local EXCEPT !.tx = local.seen.tx]
              here == [local EXCEPT !.at = "mark"]
              marking == [local EXCEPT !.at = "mark", !.tx = local.seen.tx]
  <2>1. UNCHANGED <<store, escrow, keys, host, granted>>
    BY <1>8 DEF GasChain
  <2>2. \/ Done(p) \/ Move(p, "receipt") \/ Move(p, "reopen")
        \/ Update(p, found, "noError") \/ Goto(p, marking)
    BY <1>8 DEF GasChain, local
  <2>3. local.seen.tx \in 0 .. MaxTx
    BY <1>1 DEF Handler, TaskState
  <2>4. found \in Handler /\ found.res = local.res /\ found.caller = local.caller
    BY <1>1, <2>3, LocalSet DEF Handler
  <2>5. marking \in Handler /\ HandlerOK(p, marking)
    <3>1. here \in Handler
      BY <1>1, <1>3, LocalSet
    <3>2. [here EXCEPT !.tx = local.seen.tx] \in Handler
      BY <2>3, <3>1, LocalSet
    <3>3. marking = [here EXCEPT !.tx = local.seen.tx]
      OBVIOUS
    <3>4. marking.at = "mark" /\ marking.res = local.res /\ marking.caller = local.caller
      BY <1>1 DEF Handler
    <3>. HIDE DEF marking
    <3>. QED
      BY <1>2, <1>3, <3>2, <3>3, <3>4 DEF HandlerOK, Updating
  <2>. HIDE DEF found, marking
  <2>6. CASE Update(p, found, "noError")
    <3>1. "noError" \in Patch
      BY DEF Patch
    <3>2. /\ [found EXCEPT !.at = "load", !.write = "noError"] \in Handler
          /\ HandlerOK(p, [found EXCEPT !.at = "load", !.write = "noError"])
      BY <1>2, <2>4, <3>1, UpdateOK
    <3>. QED
      BY <1>0, <2>1, <2>6, <3>2, HandlerReads DEF Update
  <2>7. CASE Goto(p, marking)
    BY <1>0, <2>1, <2>5, <2>7, HandlerReads
  <2>. QED
    BY <1>4, <1>5, <2>1, <2>2, <2>6, <2>7
<1>9. CASE Receipt(p)
  BY <1>4, <1>5, <1>9 DEF Receipt
<1>10. CASE GasReopen(p)
  <2>1. Done(p) /\ UNCHANGED <<escrow, keys, host, granted>>
        /\ state' \in TaskState /\ open' \in BOOLEAN /\ executing' \subseteq Worker
    BY <1>10, StoreScripts DEF GasReopen
  <2>. QED
    BY <1>0, <2>1, IdleHandler, HandlerWritesStore DEF Done
<1>11. CASE MarkReconciled(p)
  <2>1. local.tx \in 0 .. MaxTx
    BY <1>1 DEF Handler
  <2>2. /\ Done(p) /\ UNCHANGED <<escrow, host, granted>>
        /\ state' \in TaskState /\ open' \in BOOLEAN /\ executing' \subseteq Worker
        /\ lock' \in Request \cup {NoRequest} /\ deadlineKey' \in BOOLEAN
        /\ reconciled' \in 0 .. MaxTx /\ young' \in BOOLEAN /\ hLapsed' \subseteq Request
    BY <1>11, <2>1 DEF MarkReconciled, IInv, TypeOK, store, local
  <2>. QED
    BY <1>0, <2>2, IdleHandler, HandlerWrites DEF Done
<1>12. CASE Load(p) \/ Store(p)
  BY <1>0, <1>12, UpdateSteps
<1>. QED
  BY <1>6, <1>7, <1>8, <1>9, <1>10, <1>11, <1>12 DEF GasSweepStep

\* Nobody has been told anything while the escrow can still be assigned.
LEMMA NothingYet ==
  ASSUME IInv, Funded
  PROVE  /\ granted = {}
         /\ \A p \in Process : proc[p].res # "success"
         /\ \A t \in Tx : txs[t].st # "mined"
<1>1. chain.worker = NoWorker /\ NoWorker \notin Worker
  BY Parameters DEF IInv, EscrowOK
<1>2. granted = {}
  BY <1>1 DEF IInv, GrantedIsAssigned, TypeOK
<1>3. \A p \in Process : proc[p].res # "success"
  BY <1>1 DEF IInv, HandlerOK
<1>4. \A t \in Tx : txs[t].st # "mined"
  BY <1>1 DEF IInv, EscrowOK
<1>. QED
  BY <1>2, <1>3, <1>4

\* The escrow's task gets a worker or is closed, once.
LEMMA EscrowChanges ==
  ASSUME IInv, Funded \/ chain'.worker = chain.worker,
         chain'.status \in {"Assigned", "Submitted", "Cancelled"},
         chain' = [status |-> chain'.status, worker |-> chain'.worker],
         chain'.worker \in Worker \cup {NoWorker},
         UNCHANGED <<store, txs, mapped, late, keys, host, proc, granted>>
  PROVE  IInv'
<1>1. TypeOK'
  BY DEF IInv, TypeOK, store, keys, host
<1>2. EscrowOK'
  BY NothingYet DEF IInv, EscrowOK, Funded
<1>3. GrantedIsAssigned'
  BY NothingYet DEF IInv, GrantedIsAssigned
<1>4. ASSUME NEW p \in Process
      PROVE  HandlerOK(p, proc[p])'
  <2>1. HandlerOK(p, proc[p])
    BY DEF IInv
  <2>2. proc[p].res = "success" => chain'.worker = chain.worker
    BY NothingYet
  <2>. QED
    BY <2>1, <2>2 DEF HandlerOK, Updating
<1>. QED
  BY <1>1, <1>2, <1>3, <1>4 DEF IInv

\* A transaction leaves the pool; if it mines, the escrow takes its worker.
LEMMA PoolSteps ==
  ASSUME IInv, NEW t \in Tx, Mine(t) \/ Drop(t)
  PROVE  IInv'
<1>1. txs \in [Tx -> [worker : Worker \cup {NoWorker}, st : TxState]] /\ txs[t].st = "pool"
  BY DEF IInv, TypeOK, Mine, Drop
<1>2. txs[t].worker \in Worker
  BY <1>1 DEF IInv, EscrowOK
<1>3. PICK st \in {"mined", "reverted", "dropped"} :
        /\ txs' = [txs EXCEPT ![t].st = st]
        /\ \/ st # "mined" /\ UNCHANGED chain
           \/ /\ st = "mined" /\ Funded
              /\ chain' = [status |-> "Assigned", worker |-> txs[t].worker]
  BY DEF Mine, Drop
<1>4. /\ txs' \in [Tx -> [worker : Worker \cup {NoWorker}, st : TxState]]
      /\ txs'[t].worker = txs[t].worker /\ txs'[t].st = st
      /\ \A s \in Tx \ {t} : txs'[s] = txs[s]
  BY <1>1, <1>3 DEF TxState
<1>5. UNCHANGED <<store, mapped, late, keys, host, proc, granted>>
  BY DEF Mine, Drop
<1>6. /\ chain' \in [status : {"Funded", "Assigned", "Submitted", "Cancelled"},
                     worker : Worker \cup {NoWorker}]
      /\ chain' = chain \/ (Funded /\ chain'.worker = txs[t].worker /\ chain'.status = "Assigned")
      /\ st = "mined" => chain'.worker = txs[t].worker /\ chain'.status = "Assigned"
  BY <1>2, <1>3 DEF IInv, TypeOK
<1>7. TypeOK'
  BY <1>4, <1>5, <1>6 DEF IInv, TypeOK, store, keys, host
<1>8. EscrowOK'
  <2>1. Funded' => chain' = chain /\ Funded
    BY <1>6 DEF Funded
  <2>2. ASSUME NEW s \in Tx
        PROVE  /\ txs'[s].st # "unused" => txs'[s].worker \in Worker
               /\ txs'[s].st = "mined" => chain'.worker = txs'[s].worker
    <3>1. CASE s = t
      BY <1>2, <1>4, <1>6, <3>1
    <3>2. CASE s # t
      BY <1>4, <1>6, <3>2, NothingYet DEF IInv, EscrowOK
    <3>. QED
      BY <3>1, <3>2
  <2>. QED
    BY <2>1, <2>2 DEF IInv, EscrowOK
<1>9. GrantedIsAssigned'
  BY <1>5, <1>6, NothingYet DEF IInv, GrantedIsAssigned
<1>10. ASSUME NEW p \in Process
       PROVE  HandlerOK(p, proc[p])'
  <2>1. HandlerOK(p, proc[p])
    BY DEF IInv
  <2>2. proc[p].res = "success" => chain'.worker = chain.worker
    BY <1>6, NothingYet
  <2>3. \A s \in Tx : txs[s].st # "unused" =>
          txs'[s].st # "unused" /\ txs'[s].worker = txs[s].worker
    BY <1>4
  <2>. QED
    BY <1>5, <2>1, <2>2, <2>3 DEF HandlerOK, Updating
<1>. QED
  BY <1>7, <1>8, <1>9, <1>10 DEF IInv

\* The steps that leave the handlers and the escrow's task alone.
LEMMA OtherSteps ==
  ASSUME IInv,
         RefuseExpired \/ CloseRefunded \/ BlockLate \/ ServerClock \/ LapseKey \/ Age
           \/ LapseLock \/ Restart \/ UNCHANGED vars
  PROVE  IInv'
<1>1. UNCHANGED <<chain, txs, mapped, proc, granted>>
  BY DEF RefuseExpired, CloseRefunded, BlockLate, ServerClock, LapseKey, Age, LapseLock,
         Restart, vars, escrow
<1>2. (\A p \in Process : HandlerOK(p, proc[p]))' /\ EscrowOK' /\ GrantedIsAssigned'
  BY <1>1 DEF IInv, HandlerOK, Updating, EscrowOK, Funded, GrantedIsAssigned
<1>3. TypeOK'
  <2>1. CASE RefuseExpired
    <3>1. state' \in TaskState /\ open' \in BOOLEAN /\ executing' \subseteq Worker
      BY <2>1, StoreScripts DEF RefuseExpired
    <3>. QED
      BY <2>1, <3>1 DEF RefuseExpired, IInv, TypeOK, escrow, keys, host
  <2>2. CASE CloseRefunded
    <3>. DEFINE failed == [state EXCEPT !.status = "failed"]
    <3>1. failed \in TaskState
      BY DEF IInv, TypeOK, TaskState
    <3>2. state' = [failed EXCEPT !.reason = "cancelled"]
      BY <2>2 DEF CloseRefunded
    <3>. HIDE DEF failed
    <3>3. state' \in TaskState
      BY <3>1, <3>2 DEF TaskState
    <3>. QED
      BY <2>2, <3>3 DEF CloseRefunded, IInv, TypeOK, escrow, keys, host
  <2>3. CASE BlockLate
    BY <2>3 DEF BlockLate, IInv, TypeOK, store, keys, host
  <2>4. CASE ServerClock
    BY <2>4 DEF ServerClock, IInv, TypeOK, store, escrow, keys
  <2>5. CASE LapseKey
    BY <2>5 DEF LapseKey, IInv, TypeOK, store, escrow, host
  <2>6. CASE Age
    BY <2>6 DEF Age, IInv, TypeOK, store, escrow, host
  <2>7. CASE LapseLock
    BY <2>7 DEF LapseLock, IInv, TypeOK, store, escrow, host
  <2>8. CASE Restart
    BY <2>8 DEF Restart, IInv, TypeOK, store, escrow, keys
  <2>9. CASE UNCHANGED vars
    BY <2>9 DEF vars, IInv, TypeOK, store, escrow, keys, host
  <2>. QED
    BY <2>1, <2>2, <2>3, <2>4, <2>5, <2>6, <2>7, <2>8, <2>9
<1>. QED
  BY <1>2, <1>3 DEF IInv

\* A crash forgets every handler; the store, its keys and the chain remain.
LEMMA CrashStep ==
  ASSUME IInv, Crash
  PROVE  IInv'
<1>1. /\ proc' = [p \in Process |-> Idle] /\ hLapsed' = {}
      /\ UNCHANGED <<store, escrow, lock, deadlineKey, reconciled, young, clock, granted>>
  BY DEF Crash
<1>2. up' \in BOOLEAN /\ crashes' \in 0 .. MaxCrashes
  <2>1. crashes < MaxCrashes /\ crashes' = crashes + 1
    BY DEF Crash
  <2>2. crashes \in 0 .. MaxCrashes /\ MaxCrashes \in Nat
    BY Parameters DEF IInv, TypeOK
  <2>3. crashes' \in 0 .. MaxCrashes
    BY <2>1, <2>2
  <2>4. up' \in BOOLEAN
    BY DEF Crash
  <2>. QED
    BY <2>3, <2>4
<1>3. proc' \in [Process -> Handler] /\ \A p \in Process : proc'[p] = Idle
  BY <1>1, IdleHandler
<1>4. TypeOK'
  BY <1>1, <1>2, <1>3 DEF IInv, TypeOK, store, escrow
<1>5. \A p \in Process : HandlerOK(p, proc[p])'
  BY <1>3 DEF HandlerOK, Idle, Updating, Settling
<1>. QED
  BY <1>1, <1>4, <1>5 DEF IInv, EscrowOK, Funded, GrantedIsAssigned, escrow

LEMMA InitIInv == Init => IInv
<1>. SUFFICES ASSUME Init PROVE IInv
  OBVIOUS
<1>1. \A p \in Process : proc[p] = Idle
  BY DEF Init
<1>2. \A p \in Process : HandlerOK(p, proc[p])
  BY <1>1, IdleHandler
<1>3. \A t \in Tx : txs[t].st = "unused"
  BY DEF Init
<1>4. mapped \in BOOLEAN
  BY DEF Init
<1>5. TypeOK
  <2>1. proc \in [Process -> Handler] /\ state \in TaskState
    BY IdleHandler DEF Init
  <2>2. txs \in [Tx -> [worker : Worker \cup {NoWorker}, st : TxState]]
    BY DEF Init, TxState
  <2>3. reconciled \in 0 .. MaxTx /\ clock \in 0 .. 2 /\ crashes \in 0 .. MaxCrashes
    <3>1. reconciled = 0 /\ clock = 0 /\ crashes = 0 /\ MaxTx \in Nat /\ MaxCrashes \in Nat
      BY Parameters DEF Init
    <3>. QED
      BY <3>1
  <2>4. open \in BOOLEAN /\ deadlineKey \in BOOLEAN /\ young \in BOOLEAN
        /\ late \in BOOLEAN /\ up \in BOOLEAN
    BY DEF Init
  <2>5. /\ executing \subseteq Worker /\ granted \subseteq Worker /\ hLapsed \subseteq Request
        /\ lock \in Request \cup {NoRequest}
        /\ chain \in [status : {"Funded", "Assigned", "Submitted", "Cancelled"},
                      worker : Worker \cup {NoWorker}]
    BY DEF Init
  <2>. QED
    BY <1>4, <2>1, <2>2, <2>3, <2>4, <2>5 DEF TypeOK
<1>. QED
  BY <1>2, <1>3, <1>5 DEF Init, IInv, EscrowOK, GrantedIsAssigned

LEMMA NextIInv == IInv /\ [Next]_vars => IInv'
<1>. SUFFICES ASSUME IInv, [Next]_vars PROVE IInv'
  OBVIOUS
<1>1. ASSUME NEW p \in Request, Calls(p)
      PROVE  IInv'
  BY <1>1, AcceptSteps, HandBackSteps DEF Calls
<1>2. ASSUME NEW p \in Request, Steps(p)
      PROVE  IInv'
  <2>1. p \in Process
    BY DEF Process
  <2>. QED
    BY <1>2, <2>1, UpdateSteps, AcceptSteps, SettleSteps, SendStep, AnswerSteps, HandBackSteps
       DEF Steps
<1>3. CASE Escrow
  <2>1. CASE \E t \in Tx : Mine(t) \/ Drop(t)
    BY <2>1, PoolSteps
  <2>2. ASSUME NEW w \in Worker, DirectAssign(w)
        PROVE  IInv'
    BY <2>2, EscrowChanges DEF DirectAssign, SetChain
  <2>3. CASE Cancel
    BY <2>3, EscrowChanges DEF Cancel, SetChain
  <2>4. CASE SubmitEvidence
    <3>1. chain.worker \in Worker \cup {NoWorker}
      BY DEF IInv, TypeOK
    <3>. QED
      BY <2>4, <3>1, EscrowChanges DEF SubmitEvidence, SetChain
  <2>. QED
    BY <1>3, <2>1, <2>2, <2>3, <2>4, OtherSteps DEF Escrow
<1>. QED
  BY <1>1, <1>2, <1>3, ExpirySweepSteps, GasSweepSteps, OtherSteps, CrashStep DEF Next

(* The inductive invariant, of every behaviour of the specification.      *)
THEOREM A2AInvariant == Spec => []IInv
  BY InitIInv, NextIInv, PTL DEF Spec

(* Every key, every record and every handler's locals stay in their        *)
(* domains (a2aStore.ts, routes/a2a.ts).                                   *)
THEOREM A2ATypeCorrect == Spec => []TypeOK
<1>1. IInv => TypeOK
  BY DEF IInv
<1>. QED
  BY <1>1, A2AInvariant, PTL

(* The accept handler tells an agent "accepted", and hands it the brief's  *)
(* key, only when the escrow names that agent, whoever else accepts,       *)
(* resumes, releases or is assigned meanwhile and however often the        *)
(* backend restarts (confirmAssignedWorker, settleUnconfirmedAssignment).  *)
THEOREM GrantedIsAssignedHolds == Spec => []GrantedIsAssigned
<1>1. IInv => GrantedIsAssigned
  BY DEF IInv
<1>. QED
  BY <1>1, A2AInvariant, PTL

-----------------------------------------------------------------------------
(* Closing as expired *)

(* Before the deadline of the chain nobody has "expired" in hand, to store *)
(* or as an answer, and the server's clock is short of the grace's end.    *)
HasExpired(local) ==
  local.seen.reason = "expired" \/ local.write = "expired" \/ local.res = "expired"
InTime ==
  /\ clock # 2 /\ state.reason # "expired"
  /\ \A p \in Process : ~HasExpired(proc[p])
ExpiryInv == ~late => InTime

\* One handler goes on before the deadline, and stores nothing as expired.
GoesInTime(p) ==
  /\ \A q \in Process \ {p} : proc'[q] = proc[q]
  /\ ~HasExpired(proc'[p])
  /\ state'.reason # "expired" /\ UNCHANGED <<clock, late>>

LEMMA InTimeKept ==
  ASSUME InTime, NEW p \in Process, GoesInTime(p)
  PROVE  InTime'
<1>1. \A q \in Process : ~HasExpired(proc'[q])
  BY DEF InTime, GoesInTime
<1>. QED
  BY <1>1 DEF InTime, GoesInTime, HasExpired

LEMMA GotoInTime ==
  ASSUME TypeOK, NEW p \in Process, NEW local, Goto(p, local), ~HasExpired(local),
         state'.reason # "expired", UNCHANGED <<clock, late>>
  PROVE  GoesInTime(p)
<1>1. proc' = [proc EXCEPT ![p] = local] /\ proc \in [Process -> Handler]
  BY DEF Goto, TypeOK
<1>2. proc'[p] = local /\ \A q \in Process \ {p} : proc'[q] = proc[q]
  BY <1>1
<1>. QED
  BY <1>2 DEF GoesInTime

LEMMA FreshInTime ==
  /\ ~HasExpired(Idle)
  /\ \A at : ~HasExpired([Idle EXCEPT !.at = at])
  /\ \A at, op : ~HasExpired([Idle EXCEPT !.at = at, !.op = op])
  /\ \A at, op, caller : ~HasExpired([Idle EXCEPT !.at = at, !.op = op, !.caller = caller])
  /\ \A at, op, seen : seen.reason # "expired" =>
       ~HasExpired([Idle EXCEPT !.at = at, !.op = op, !.seen = seen])
  /\ \A at, op, write : write # "expired" =>
       ~HasExpired([Idle EXCEPT !.at = at, !.op = op, !.write = write])
BY DEF HasExpired, Idle, Missing

\* What a handler carries on is not expired if what it takes up is not.
LEMMA CarriedInTime ==
  ASSUME NEW local \in Handler, ~HasExpired(local)
  PROVE  /\ \A at : ~HasExpired([local EXCEPT !.at = at])
         /\ \A at, op : ~HasExpired([local EXCEPT !.at = at, !.op = op])
         /\ \A at, seen : seen.reason # "expired" => ~HasExpired([local EXCEPT !.at = at, !.seen = seen])
         /\ \A at, t : ~HasExpired([local EXCEPT !.at = at, !.tx = t])
         /\ \A at, write : write # "expired" => ~HasExpired([local EXCEPT !.at = at, !.write = write])
         /\ \A at, res : res # "expired" => ~HasExpired([local EXCEPT !.at = at, !.res = res])
BY DEF HasExpired, Handler

\* Most handlers read, or touch only keys: they go on with what they carry.
LEMMA HandlersInTime ==
  ASSUME IInv, InTime, ~late, UNCHANGED <<clock, late>>, NEW p \in Process,
         \/ \E w \in Worker : AcceptCheck(p, w) \/ Submit(p, w)
         \/ Index(p) \/ \E op \in {"release", "force", "rewind"} : HandBack(p, op)
         \/ Load(p) \/ AcquireLock(p) \/ ReadHolder(p) \/ StartDeadline(p)
         \/ Settle(p) \/ Send(p) \/ Wait(p) \/ Unconfirmed(p) \/ Confirm(p) \/ ClearError(p)
         \/ Grant(p) \/ Unlock(p) \/ CheckChain(p) \/ ForceRead(p)
         \/ ResyncRead(p) \/ ResyncCompare(p) \/ ResyncWrite(p) \/ ListOpen(p)
         \/ GasList(p) \/ GasRead(p) \/ GasChain(p) \/ Receipt(p) \/ MarkReconciled(p)
  PROVE  InTime'
<1>1. proc[p] \in Handler /\ ~HasExpired(proc[p]) /\ state.reason # "expired" /\ TypeOK
  BY DEF IInv, TypeOK, InTime
<1>2. state' = state
  BY DEF AcceptCheck, Submit, Index, HandBack, Load, AcquireLock, ReadHolder, StartDeadline, Settle,
         Send, Wait, Unconfirmed, Confirm, ClearError, Grant, Unlock, CheckChain, ForceRead,
         ResyncRead, ResyncCompare, ResyncWrite, ListOpen, GasList, GasRead, GasChain, Receipt,
         MarkReconciled, store
<1>3. SUFFICES \E local : Goto(p, local) /\ ~HasExpired(local)
  BY <1>1, <1>2, GotoInTime, InTimeKept
<1>4. ASSUME NEW w \in Worker, AcceptCheck(p, w) \/ Submit(p, w)
      PROVE  \E local : Goto(p, local) /\ ~HasExpired(local)
  BY <1>4, FreshInTime DEF AcceptCheck, Submit, Missing
<1>5. CASE Index(p) \/ \E op \in {"release", "force", "rewind"} : HandBack(p, op)
  BY <1>1, <1>5, FreshInTime DEF Index, HandBack, Missing
<1>6. CASE ResyncRead(p) \/ ResyncCompare(p) \/ ResyncWrite(p) \/ ListOpen(p) \/ MarkReconciled(p)
  BY <1>1, <1>6, FreshInTime, CarriedInTime
     DEF ResyncRead, ResyncCompare, ResyncWrite, ListOpen, MarkReconciled, Move, Done, Missing
<1>7. CASE Load(p) \/ AcquireLock(p) \/ ReadHolder(p) \/ StartDeadline(p) \/ Grant(p) \/ Unlock(p)
  BY <1>1, <1>7, FreshInTime, CarriedInTime
     DEF Load, AcquireLock, ReadHolder, StartDeadline, Grant, Unlock, Move, Done, Leave, Missing
<1>8. CASE GasList(p) \/ GasRead(p) \/ Receipt(p)
  BY <1>1, <1>8, FreshInTime, CarriedInTime DEF GasList, GasRead, Receipt, Move, Done, Missing
<1>9. ASSUME NEW res \in Outcome \ {"expired"}, AssignError(p, res)
      PROVE  \E local : Goto(p, local) /\ ~HasExpired(local)
  <2>. DEFINE next == [proc[p] EXCEPT !.res = res, !.at = "load", !.write = "assignError"]
  <2>1. Goto(p, next)
    BY <1>9 DEF AssignError, Update
  <2>2. next.seen = proc[p].seen /\ next.res = res /\ next.write = "assignError"
    BY <1>1 DEF Handler
  <2>. HIDE DEF next
  <2>. QED
    BY <1>1, <2>1, <2>2 DEF HasExpired
<1>10. CASE Settle(p) \/ Send(p) \/ Wait(p) \/ Unconfirmed(p) \/ ClearError(p)
  <2>1. \/ \E at : Move(p, at)
        \/ \E at, res : res # "expired" /\ Goto(p, [proc[p] EXCEPT !.at = at, !.res = res])
        \/ \E res \in Outcome \ {"expired"} : AssignError(p, res)
        \/ \E t \in Tx : Update(p, [proc[p] EXCEPT !.tx = t], "broadcast")
        \/ Update(p, proc[p], "noError")
    BY <1>10 DEF Settle, Send, Wait, Unconfirmed, ClearError, Answer, Confirmed, Outcome
  <2>2. ASSUME NEW t \in Tx, Update(p, [proc[p] EXCEPT !.tx = t], "broadcast")
        PROVE  \E local : Goto(p, local) /\ ~HasExpired(local)
    <3>. DEFINE next == [proc[p] EXCEPT !.tx = t, !.at = "load", !.write = "broadcast"]
    <3>1. Goto(p, next)
      BY <2>2 DEF Update
    <3>2. next.seen = proc[p].seen /\ next.res = proc[p].res /\ next.write = "broadcast"
      BY <1>1 DEF Handler
    <3>. HIDE DEF next
    <3>. QED
      BY <1>1, <3>1, <3>2 DEF HasExpired
  <2>. QED
    BY <1>1, <1>9, <2>1, <2>2, CarriedInTime DEF Move, Update
<1>11. CASE Confirm(p)
  <2>1. \/ Goto(p, [proc[p] EXCEPT !.at = "result", !.res = "elsewhere", !.found = chain.worker])
        \/ Confirmed(p) \/ Answer(p, "cancelled") \/ AssignError(p, "error")
    BY <1>11 DEF Confirm
  <2>2. CASE Goto(p, [proc[p] EXCEPT !.at = "result", !.res = "elsewhere", !.found = chain.worker])
    <3>. DEFINE next == [proc[p] EXCEPT !.at = "result", !.res = "elsewhere", !.found = chain.worker]
    <3>1. next.seen = proc[p].seen /\ next.res = "elsewhere" /\ next.write = proc[p].write
      BY <1>1 DEF Handler
    <3>. QED
      BY <1>1, <2>2, <3>1 DEF HasExpired
  <2>. QED
    BY <1>1, <1>9, <2>1, <2>2, CarriedInTime DEF Confirmed, Answer, Outcome
<1>12. ASSUME NEW write \in {"accepted", "submitted", "noError"},
              NEW local \in Handler, ~HasExpired(local), Update(p, local, write)
       PROVE  \E next : Goto(p, next) /\ ~HasExpired(next)
  BY <1>12, CarriedInTime DEF Update
<1>13. CASE CheckChain(p)
  <2>1. \/ Done(p) \/ Move(p, "reopen") \/ Update(p, proc[p], "submitted")
        \/ Goto(p, [proc[p] EXCEPT !.at = "forceRead", !.seen = Missing])
        \/ Update(p, [proc[p] EXCEPT !.seen = Missing], "accepted")
    BY <1>13 DEF CheckChain
  <2>2. [proc[p] EXCEPT !.seen = Missing] \in Handler /\ ~HasExpired([proc[p] EXCEPT !.seen = Missing])
    <3>1. [proc[p] EXCEPT !.seen = Missing] \in Handler
      BY <1>1, IdleHandler, LocalSet
    <3>. QED
      BY <1>1, <3>1 DEF HasExpired, Handler, Missing
  <2>3. Missing.reason # "expired"
    BY DEF Missing
  <2>. QED
    BY <1>1, <1>12, <2>1, <2>2, <2>3, FreshInTime, CarriedInTime DEF Move, Done
<1>14. CASE ForceRead(p)
  BY <1>1, <1>14, FreshInTime, CarriedInTime DEF ForceRead, Done, Missing
<1>15. CASE GasChain(p)
  <2>. DEFINE t == proc[p].seen.tx
  <2>1. \/ Done(p) \/ \E at : Move(p, at)
        \/ Update(p, [proc[p] EXCEPT !.tx = t], "noError")
        \/ Goto(p, [proc[p] EXCEPT !.at = "mark", !.tx = t])
    BY <1>15 DEF GasChain
  <2>2. [proc[p] EXCEPT !.tx = t] \in Handler /\ ~HasExpired([proc[p] EXCEPT !.tx = t])
    <3>1. t \in 0 .. MaxTx
      BY <1>1 DEF Handler, TaskState
    <3>2. [proc[p] EXCEPT !.tx = t] \in Handler
      BY <1>1, <3>1, LocalSet
    <3>. QED
      BY <1>1, <3>2 DEF HasExpired, Handler
  <2>. HIDE DEF t
  <2>3. CASE Done(p)
    BY <2>3, FreshInTime DEF Done, Missing
  <2>. QED
    BY <1>1, <1>12, <2>1, <2>2, <2>3, CarriedInTime DEF Move
<1>. QED
  BY <1>4, <1>5, <1>6, <1>7, <1>8, <1>10, <1>11, <1>13, <1>14, <1>15

\* The steps that write the record; nothing to be stored closes it as expired.
LEMMA WritersInTime ==
  ASSUME IInv, InTime, ~late, UNCHANGED <<clock, late>>, NEW p \in Process,
         \/ Store(p) \/ IndexWrite(p) \/ TryAccept(p) \/ RewrapFailed(p) \/ Refuse(p)
         \/ Release(p) \/ ForceWrite(p) \/ Expire(p) \/ GasReopen(p)
  PROVE  InTime'
<1>1. proc[p] \in Handler /\ ~HasExpired(proc[p]) /\ HandlerOK(p, proc[p])
      /\ state.reason # "expired" /\ clock # 2 /\ state \in TaskState /\ TypeOK
  BY DEF IInv, TypeOK, InTime
<1>2. Listed.reason # "expired"
  BY DEF Listed, Missing
<1>3. ASSUME NEW executor, NEW tx, NEW status, TryRelease(executor, tx, status)
      PROVE  state'.reason # "expired"
  BY <1>1, <1>2, <1>3 DEF TryRelease, store
<1>4. SUFFICES state'.reason # "expired" /\ \E local : Goto(p, local) /\ ~HasExpired(local)
  BY <1>1, GotoInTime, InTimeKept
<1>5. ASSUME Done(p) \/ Leave(p)
      PROVE  \E local : Goto(p, local) /\ ~HasExpired(local)
  BY <1>5, FreshInTime DEF Done, Leave
<1>6. CASE IndexWrite(p) \/ ForceWrite(p) \/ Expire(p)
  BY <1>1, <1>2, <1>5, <1>6 DEF IndexWrite, ForceWrite, Expire, store
<1>7. CASE RewrapFailed(p) \/ Release(p) \/ GasReopen(p)
  BY <1>3, <1>5, <1>7 DEF RewrapFailed, Release, GasReopen
<1>8. CASE TryAccept(p)
  <2>1. state'.reason # "expired"
    BY <1>1, <1>8 DEF TryAccept, TaskState, store
  <2>2. Leave(p) \/ Move(p, "rewrap")
    BY <1>8 DEF TryAccept
  <2>. QED
    BY <1>1, <1>5, <2>1, <2>2, CarriedInTime DEF Move
<1>9. CASE Refuse(p)
  <2>1. state'.reason # "expired"
    BY <1>1, <1>3, <1>9 DEF Refuse, store
  <2>2. Leave(p) \/ \E write : write # "expired" /\ Update(p, proc[p], write)
    BY <1>1, <1>9 DEF Refuse, HasExpired
  <2>. QED
    BY <1>1, <1>5, <2>1, <2>2, CarriedInTime DEF Update
<1>10. CASE Store(p)
  <2>1. /\ proc[p].write \in Patch \ {"expired"} /\ proc[p].seen \in TaskState
        /\ proc[p].seen.reason # "expired" /\ proc[p].res # "expired"
    BY <1>1, <1>10 DEF Store, At, HandlerOK, Updating, HasExpired, Handler
  <2>2. state' = Patched(proc[p], proc[p].seen)
    BY <1>10 DEF Store
  <2>3. Patched(proc[p], proc[p].seen).reason # "expired"
    <3>. DEFINE old == proc[p].seen
    <3>1. CASE proc[p].write \in {"broadcast", "assignError", "noError", "reconcile", "submitted", "accepted"}
      <4>1. Patched(proc[p], old).reason = old.reason
        BY <2>1, <3>1 DEF Patched, TaskState
      <4>. QED
        BY <2>1, <4>1
    <3>2. CASE proc[p].write \in {"cancelled", "escrow_mismatch"}
      <4>1. Patched(proc[p], old).reason = proc[p].write
        BY <2>1, <3>2 DEF Patched, TaskState
      <4>. QED
        BY <3>2, <4>1
    <3>. QED
      BY <2>1, <3>1, <3>2 DEF Patch
  <2>4. \/ Done(p) \/ Leave(p)
        \/ \E at : Goto(p, [proc[p] EXCEPT !.at = at, !.seen = Missing, !.write = "none"])
    BY <1>10 DEF Store, AfterStore
  <2>5. ASSUME NEW at, Goto(p, [proc[p] EXCEPT !.at = at, !.seen = Missing, !.write = "none"])
        PROVE  \E local : Goto(p, local) /\ ~HasExpired(local)
    <3>. DEFINE next == [proc[p] EXCEPT !.at = at, !.seen = Missing, !.write = "none"]
    <3>1. next.seen = Missing /\ next.write = "none" /\ next.res = proc[p].res
      BY <1>1 DEF Handler
    <3>2. Goto(p, next)
      BY <2>5
    <3>. HIDE DEF next
    <3>. QED
      BY <2>1, <3>1, <3>2 DEF HasExpired, Missing
  <2>. QED
    BY <1>5, <2>2, <2>3, <2>4, <2>5
<1>. QED
  BY <1>6, <1>7, <1>8, <1>9, <1>10

\* Blocks pass the deadline once, in a step of their own.
LEMMA LatePasses == [Next]_vars => UNCHANGED late \/ (late' /\ UNCHANGED state)
BY ZenonT(60) DEF Next, Calls, AcceptCheck, Submit, Index, HandBack, Steps, Load, Store, IndexWrite,
       AcquireLock, ReadHolder, TryAccept, RewrapFailed, StartDeadline, Settle, Send, Wait,
       Unconfirmed, Confirm, ClearError, Grant, Refuse, Unlock, CheckChain, Release, ForceRead,
       ForceWrite, ExpirySweepStep, ResyncRead, ResyncCompare, ResyncWrite, ListOpen, Expire,
       GasSweepStep, GasList, GasRead, GasChain, Receipt, GasReopen, MarkReconciled,
       RefuseExpired, CloseRefunded, Escrow, Mine, Drop, DirectAssign, Cancel, SubmitEvidence,
       SetChain, BlockLate, ServerClock, LapseKey, Age, LapseLock, Crash, Restart, vars, escrow, store

LEMMA NextExpiry == IInv /\ ExpiryInv /\ [Next]_vars => ExpiryInv'
<1>. SUFFICES ASSUME IInv, ExpiryInv, [Next]_vars, ~late' PROVE InTime'
  BY DEF ExpiryInv
<1>1. ~late /\ late' = late
  <2>1. late' = late \/ late'
    BY LatePasses
  <2>2. late \in BOOLEAN /\ late' \in BOOLEAN
    BY NextIInv DEF IInv, TypeOK
  <2>. QED
    BY <2>1, <2>2
<1>2. InTime
  BY <1>1 DEF ExpiryInv
<1>3. ASSUME NEW p \in Request, Calls(p) \/ Steps(p)
      PROVE  InTime'
  <2>1. p \in Process
    BY DEF Process
  <2>2. UNCHANGED clock
    BY <1>3 DEF Calls, AcceptCheck, Submit, Index, HandBack, Steps, Load, Store, IndexWrite,
           AcquireLock, ReadHolder, TryAccept, RewrapFailed, StartDeadline, Settle, Send, Wait,
           Unconfirmed, Confirm, ClearError, Grant, Refuse, Unlock, CheckChain, Release, ForceRead,
           ForceWrite, host
  <2>. QED
    BY <1>1, <1>2, <1>3, <2>1, <2>2, HandlersInTime, WritersInTime DEF Calls, Steps
<1>4. CASE ExpirySweepStep \/ GasSweepStep
  <2>1. ExpirySweep \in Process /\ GasSweep \in Process
    BY DEF Process
  <2>2. UNCHANGED clock
    BY <1>4 DEF ExpirySweepStep, ResyncRead, ResyncCompare, ResyncWrite, ListOpen, Expire,
           GasSweepStep, GasList, GasRead, GasChain, Receipt, GasReopen, MarkReconciled, Load, Store,
           host
  <2>. QED
    BY <1>1, <1>2, <1>4, <2>1, <2>2, HandlersInTime, WritersInTime DEF ExpirySweepStep, GasSweepStep
<1>5. CASE Crash
  <2>1. \A p \in Process : proc'[p] = Idle
    BY <1>5 DEF Crash
  <2>2. UNCHANGED <<state, clock>>
    BY <1>5 DEF Crash, store
  <2>. QED
    BY <1>2, <2>1, <2>2, FreshInTime DEF InTime
<1>6. CASE UNCHANGED proc /\ UNCHANGED clock /\ state'.reason # "expired"
  BY <1>2, <1>6 DEF InTime
<1>7. CASE Escrow \/ LapseKey \/ Age \/ LapseLock \/ Restart \/ UNCHANGED vars
  BY <1>2, <1>6, <1>7
     DEF Escrow, Mine, Drop, DirectAssign, Cancel, SubmitEvidence, SetChain, BlockLate, LapseKey, Age,
         LapseLock, Restart, vars, store, host, InTime
<1>8. CASE RefuseExpired
  BY <1>2, <1>8 DEF RefuseExpired, InTime
<1>9. CASE CloseRefunded
  <2>1. state'.reason = "cancelled"
    BY <1>9 DEF CloseRefunded, IInv, TypeOK, TaskState
  <2>. QED
    BY <1>6, <1>9, <2>1 DEF CloseRefunded, host
<1>10. CASE ServerClock
  <2>1. clock \in 0 .. 2 /\ clock # 1 /\ clock' = clock + 1
    BY <1>1, <1>10 DEF ServerClock, IInv, TypeOK
  <2>2. clock' # 2
    BY <2>1
  <2>. QED
    BY <1>2, <1>10, <2>2 DEF ServerClock, store, InTime
<1>. QED
  BY <1>3, <1>4, <1>5, <1>7, <1>8, <1>9, <1>10 DEF Next

(* No step closes as expired a task that the escrow could still assign,    *)
(* though the record that is stored was read earlier, the answer that the  *)
(* accept handler acts on was given earlier, and the server's clock is not *)
(* the chain's (sweepExpiredTasks, the early check of accept and           *)
(* settleAssignment).                                                      *)
THEOREM ExpiredIsUnassignableHolds == Spec => ExpiredIsUnassignable
<1>1. Init => ExpiryInv
  <2>. SUFFICES ASSUME Init PROVE InTime
    BY DEF ExpiryInv
  <2>1. \A p \in Process : proc[p] = Idle
    BY DEF Init
  <2>2. clock # 2 /\ state.reason # "expired"
    BY DEF Init, Missing
  <2>. QED
    BY <2>1, <2>2, FreshInTime DEF InTime
<1>2. IInv /\ ExpiryInv /\ ExpiryInv' /\ [Next]_vars =>
        [state.status # "failed" /\ state'.status = "failed" /\ state'.reason = "expired" => late]_vars
  <2>. SUFFICES ASSUME ExpiryInv', [Next]_vars, state' # state, state'.reason = "expired"
                PROVE  late
    OBVIOUS
  <2>1. late'
    BY DEF ExpiryInv, InTime
  <2>. QED
    BY <2>1, LatePasses
<1>. QED
  BY <1>1, <1>2, A2AInvariant, NextExpiry, PTL DEF Spec, ExpiredIsUnassignable

=============================================================================
