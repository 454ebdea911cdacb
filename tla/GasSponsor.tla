----------------------------- MODULE GasSponsor -----------------------------
(***************************************************************************)
(* The gas sponsor: one process of the backend (the writer) pays the gas   *)
(* of a hosted agent's escrow call.  A call spends a reservation.  Its     *)
(* transaction is signed with the sponsor's key, stored, and only then     *)
(* broadcast, one at a time through a queue.  A loop (gasSponsorTick)      *)
(* settles or re-sends what is stored and sweeps the reservations, at the  *)
(* same time as the relay handlers and outside their queue, and so do the  *)
(* worker's status reads.                                                  *)
(*                                                                         *)
(* A handler runs from one await to the next without interruption; awaits  *)
(* that nothing done in between could tell apart are one action.  A        *)
(* statement or a transaction of the database is one step.                 *)
(***************************************************************************)
EXTENDS Integers, Sequences, FiniteSets

CONSTANTS
  Reservation,  \* rows of gas_sponsor_reservations, each for one escrow call
  Releases,     \* those of kind 'release'; the others are of kind 'submit'
  Relay,        \* HTTP handlers: a relayed call, or a read of its status
  Tick,         \* the writer's pass
  Nobody,       \* no reservation
  MaxSends,     \* MAX_SENDS_PER_RESERVATION
  MaxTxs,       \* bound: transactions stored
  MaxFaults,    \* bound: faults and outside events in a run
  Happens       \* the optional events of a run, a subset of Events

(* "transient": a broadcast gets no answer, the bytes taken or not;        *)
(* "refuse": a node refuses bytes another node took; "evict": the pool     *)
(* drops a transaction; "lag": a replica does not show a receipt, or the   *)
(* pool's nonces, yet, or a read that then counts as "none" fails;         *)
(* "crash": the backend restarts; "own": someone else lands the signed     *)
(* call; "moved": the task leaves without it; "operator": a person sets or *)
(* lifts the kill, or fills a nonce.                                       *)
Fault == {"transient", "refuse", "evict", "lag", "crash", "own", "moved", "operator"}

(* "bad": bytes no node takes; "noop": a mined call that did nothing.      *)
Events == Fault \cup {"bad", "noop"}

ASSUME Parameters ==
  /\ Releases \subseteq Reservation /\ Tick \notin Relay /\ Nobody \notin Reservation
  /\ MaxSends \in Nat \ {0} /\ MaxTxs \in Nat \ {0} /\ MaxFaults \in Nat
  /\ Happens \subseteq Events

VARIABLES
  res,       \* the reservations' rows: status and how many sends they were charged
  txs,       \* gas_sponsor_txs, in the order stored
  killed,    \* gas_sponsor_controls.killed
  queue,     \* the relayer's send queue; its head is sending
  proc,      \* the handlers and the pass
  suspects,  \* lostSince: transactions seen lost once
  call,      \* each reservation's call on the escrow
  next,      \* the sponsor's next nonce on the chain
  pool,      \* stored transactions waiting in the pool
  mined,     \* stored transactions the chain included
  did,       \* those whose receipt proves the call
  faults,    \* faults and outside events so far
  hUnseen    \* history: mined ones whose handler was told "none" for a receipt

store == <<res, txs, killed>>
memory == <<queue, proc, suspects>>
chain == <<call, next, pool, mined, did>>
history == <<faults, hUnseen>>
vars == <<store, memory, chain, history>>

Process == Relay \cup {Tick}
TxStatus == {"signed", "sent", "confirmed", "reverted", "dropped", "rejected"}
Row == [status : {"none", "reserved", "used", "released", "expired"}, cost : Nat]
Tx == [for : Reservation, nonce : Nat, status : TxStatus, costed : BOOLEAN, bad : BOOLEAN]
Item == [tx : Nat \ {0}, seen : {"signed", "sent"}]

(* A process's program counter and the locals it carries over an await;    *)
(* the pass has its list, and the transaction it is at as it was listed.   *)
Idle == [at |-> "idle", r |-> Nobody, seen |-> "none", tx |-> 0, nonce |-> 0,
         why |-> "none", listed |-> "none", todo |-> {}, latest |-> 0]
Handler ==
  [at : {"idle", "queued", "record", "broadcast", "ack", "forget",
         "poll", "used", "look", "resend", "unack", "sweep"},
   r : Reservation \cup {Nobody}, seen : {"none", "reserved", "used", "released", "expired"},
   tx : Nat, nonce : Nat, why : {"none", "dropped", "rejected", "released", "expired"},
   listed : {"none", "signed", "sent"}, todo : SUBSET Item, latest : Nat]

Init ==
  /\ res = [r \in Reservation |-> [status |-> "none", cost |-> 0]] /\ txs = <<>>
  /\ killed = FALSE /\ queue = <<>> /\ proc = [p \in Process |-> Idle] /\ suspects = {}
  /\ call = [r \in Reservation |-> "waiting"]
  /\ next = 0 /\ pool = {} /\ mined = {} /\ did = {} /\ faults = 0 /\ hUnseen = {}

Stored == 1 .. Len(txs)
Unsettled(i) == txs[i].status \in {"signed", "sent"}
SentFor(r) == {i \in Stored : txs[i].for = r}
Out(r) == {i \in SentFor(r) : Unsettled(i)}
Unacknowledged == {i \in Stored : txs[i].status = "signed"}
NoncesKept == {txs[i].nonce : i \in {j \in Stored : txs[j].status # "rejected"}}

At(p, at) == proc[p].at = at
Goto(p, local) == proc' = [proc EXCEPT ![p] = local]
Move(p, at) == Goto(p, [proc[p] EXCEPT !.at = at])

(* The pass takes the transaction with the lowest nonce of those left.     *)
LookAtNext(p, todo, latest) ==
  \/ todo = {} /\ Goto(p, Idle)
  \/ \E item \in todo :
       /\ \A other \in todo : txs[item.tx].nonce <= txs[other.tx].nonce
       /\ Goto(p, [Idle EXCEPT !.at = "look", !.tx = item.tx, !.listed = item.seen,
                               !.todo = todo \ {item}, !.latest = latest])

(* A handler answers and lets the next one in the queue go; the pass goes  *)
(* on to its next transaction.                                             *)
Holds(p) == queue # <<>> /\ Head(queue) = p
Answer(p) ==
  /\ LookAtNext(p, proc[p].todo, proc[p].latest)
  /\ queue' = IF Holds(p) THEN Tail(queue) ELSE queue

Counts(fault) == fault \in Happens /\ faults < MaxFaults /\ faults' = faults + 1
Fails(fault) == Counts(fault) /\ UNCHANGED hUnseen
Works == UNCHANGED history

-----------------------------------------------------------------------------
(* Reservations *)

(* reserve(): the reservation the agent holds, or a new one, or one given  *)
(* back before any send was charged to it.  A pause, the budgets, the caps *)
(* and the strikes may refuse it: whether to take the step is left open.   *)
Reservable(r) ==
  /\ ~killed
  /\ \/ res[r].status \in {"none", "reserved"}
     \/ res[r].status = "released" /\ res[r].cost = 0

Reserve(r) == res' = [res EXCEPT ![r].status = "reserved"]

(* closeReservation, and markReservationUsed, which asks for no status.    *)
CloseAs(r, status) ==
  res' = IF res[r].status = "reserved" THEN [res EXCEPT ![r].status = status] ELSE res
MarkUsed(r) == res' = [res EXCEPT ![r].status = "used"]

(* /accept reserves for the submit before it assigns the task, and gives   *)
(* the reservation back when the accept fails.                             *)
AcceptReserve(r) ==
  /\ r \notin Releases /\ call[r] = "waiting" /\ Reservable(r) /\ Reserve(r)
  /\ UNCHANGED <<txs, killed, memory, chain, history>>

AcceptGivesBack(r) ==
  /\ r \notin Releases /\ res[r].status = "reserved" /\ SentFor(r) = {} /\ CloseAs(r, "released")
  /\ UNCHANGED <<txs, killed, memory, chain, history>>

-----------------------------------------------------------------------------
(* A relayed call, before the queue *)

(* A transaction of ours already out is waited for.                        *)
Waits(p, r, seen, i) ==
  Goto(p, [Idle EXCEPT !.at = "poll", !.r = r, !.seen = seen, !.tx = i])

(* A handler waits for a transaction of ours already out, whatever changed *)
(* since.  Otherwise eligibility, the escrow's record, the delegation, the *)
(* simulation and the fees may refuse the call (no step).  A submit needs  *)
(* its reservation, and no send if it landed already; a release reserves   *)
(* once its transaction is ready to go.                                    *)
Ask(p, r) ==
  LET holds == res[r].status = "reserved"
      out == holds /\ Out(r) # {}
      Enqueue == /\ Goto(p, [Idle EXCEPT !.at = "queued", !.r = r])
                 /\ queue' = Append(queue, p)
  IN
  /\ p \in Relay /\ At(p, "idle")
  /\ \/ /\ out /\ UNCHANGED <<queue, res>>
        /\ \E i \in Out(r) : Waits(p, r, "reserved", i)
     \/ /\ ~out /\ ~killed
        /\ \/ holds /\ CloseAs(r, "released") /\ UNCHANGED <<proc, queue>>  \* the key was exported
           \/ /\ r \notin Releases /\ holds /\ UNCHANGED res
              /\ \/ call[r] = "waiting" /\ Enqueue
                 \/ /\ call[r] = "done" /\ UNCHANGED queue
                    /\ Goto(p, [Idle EXCEPT !.at = "used", !.r = r])
           \/ r \in Releases /\ call[r] = "waiting" /\ Reservable(r) /\ Reserve(r) /\ Enqueue
  /\ UNCHANGED <<txs, killed, suspects, chain, history>>

-----------------------------------------------------------------------------
(* The send, in the queue *)

(* sendBlocker: the reservation had its sends, or some stored transaction  *)
(* has no node's acknowledgement.                                          *)
Blocked(r) ==
  \/ Cardinality({i \in SentFor(r) : txs[i].status # "rejected"}) >= MaxSends
  \/ Unacknowledged # {}

(* A send that is not made: a release gives its reservation back.          *)
RefuseQueued(p) ==
  /\ Answer(p)
  /\ IF proc[p].r \in Releases THEN CloseAs(proc[p].r, "released") ELSE UNCHANGED res

(* The pool's count of nonces, where a replica may lag, never below what   *)
(* our record keeps.                                                       *)
PendingCount(n) ==
  LET InPool(k) == \E i \in pool : txs[i].nonce = k
  IN /\ \A k \in next .. n - 1 : InPool(k)
     /\ "lag" \in Happens \/ (n >= next /\ ~InPool(n))

NextNonce(n) ==
  /\ \A k \in NoncesKept : k < n
  /\ \/ PendingCount(n)
     \/ n - 1 \in NoncesKept /\ \E pending \in 0 .. n : PendingCount(pending)

(* mistake: the check before the queue is enough *)
NotReadAgain(r) == {}

(* A repeat of a call can queue behind it: what the reservation has out is *)
(* read again.                                                             *)
OutAlready(r) == Out(r)

(* At the head of the queue: what the reservation still owes, read again,  *)
(* then the kill switch, the key, and the call, simulated again.  MaxTxs   *)
(* bounds the run.                                                         *)
Turn(p) ==
  LET r == proc[p].r IN
  /\ At(p, "queued") /\ Holds(p)
  /\ IF res[r].status # "reserved" THEN Answer(p) /\ UNCHANGED res
     ELSE IF OutAlready(r) # {}
     THEN /\ \E i \in OutAlready(r) : Waits(p, r, "reserved", i)
          /\ queue' = Tail(queue) /\ UNCHANGED res
     ELSE \/ RefuseQueued(p)
          \/ Answer(p) /\ CloseAs(r, "released")                  \* the key was exported
          \/ /\ ~Blocked(r) /\ ~killed /\ call[r] = "waiting" /\ Len(txs) < MaxTxs
             /\ \E n \in 0 .. MaxTxs + next :
                  NextNonce(n) /\ Goto(p, [proc[p] EXCEPT !.at = "record", !.nonce = n])
             /\ UNCHANGED <<queue, res>>
  /\ UNCHANGED <<txs, killed, suspects, chain, history>>

(* recordSignedTx: stored before it is broadcast, and only while every     *)
(* stored transaction was acknowledged; a nonce is kept by one only.       *)
Record(p) ==
  LET mayStore == Unacknowledged = {} /\ proc[p].nonce \notin NoncesKept IN
  /\ At(p, "record")
  /\ \/ Unacknowledged # {} /\ RefuseQueued(p) /\ UNCHANGED txs
     \/ Answer(p) /\ UNCHANGED <<txs, res>>                     \* NOT_SENT: a query failed
     \/ /\ mayStore /\ UNCHANGED <<queue, res>>
        /\ \E bad \in IF "bad" \in Happens THEN BOOLEAN ELSE {FALSE} :
             txs' = Append(txs, [for |-> proc[p].r, nonce |-> proc[p].nonce,
                                 status |-> "signed", costed |-> FALSE, bad |-> bad])
        /\ Goto(p, [Idle EXCEPT !.at = "broadcast", !.r = proc[p].r, !.tx = Len(txs) + 1])
  /\ UNCHANGED <<killed, suspects, chain, history>>

(* What a node says to the bytes of transaction i.                         *)
Low(i) == txs[i].nonce < next
Taken(i) == ~Low(i) /\ ~txs[i].bad /\ pool' = pool \cup {i}

(* The first broadcast.  Without an answer, the handler leaves it to the   *)
(* pass.  A nonce that is used may have been used by these bytes, which    *)
(* the pass re-sent: the handler reads the receipt once, where no receipt  *)
(* and no answer are the same.                                             *)
Broadcast(p) ==
  LET i == proc[p].tx IN
  /\ At(p, "broadcast")
  /\ \/ Taken(i) /\ Move(p, "ack") /\ UNCHANGED queue /\ Works
     \/ (Taken(i) \/ UNCHANGED pool) /\ Fails("transient") /\ Answer(p)
     \/ Low(i) /\ i \in mined /\ Waits(p, proc[p].r, "reserved", i) /\ queue' = Tail(queue)
        /\ UNCHANGED pool /\ Works
     \/ /\ Goto(p, [proc[p] EXCEPT !.at = "forget",
                      !.why = IF Low(i) THEN "dropped" ELSE "rejected"])
        /\ UNCHANGED <<queue, pool>>
        /\ \/ (IF Low(i) THEN i \notin mined ELSE txs[i].bad) /\ Works
           \/ Low(i) /\ i \in mined /\ Counts("lag") /\ hUnseen' = hUnseen \cup {i}
  /\ UNCHANGED <<store, suspects, call, next, mined, did>>

(* mistake: the status it was is not asked for *)
SetStatusAnyway(i, status, from) == txs' = [txs EXCEPT ![i].status = status]

(* setTxStatus(status, from).                                              *)
SetStatus(i, status, from) ==
  txs' = IF txs[i].status = from THEN [txs EXCEPT ![i].status = status] ELSE txs

(* The circuit breaker.  A transaction that has not landed for             *)
(* GAS_SPONSOR_STUCK_MINUTES stops every send.                             *)
Kill == killed' = TRUE
EndItem == Answer(Tick) /\ (Kill \/ UNCHANGED killed)

(* A node took the bytes: signed becomes sent.  A handler holds the queue  *)
(* until the transaction is mined, or its wait ends.                       *)
Ack(p) ==
  /\ At(p, "ack")
  /\ SetStatus(proc[p].tx, "sent", "signed")
  /\ IF p = Tick THEN EndItem
     ELSE Waits(p, proc[p].r, "reserved", proc[p].tx) /\ UNCHANGED <<queue, killed>>
  /\ UNCHANGED <<res, suspects, chain, history>>

(* The bytes can never land, or their nonce went to others; but a settle   *)
(* outside the queue may have found them mined.                            *)
Forget(p) ==
  LET i == proc[p].tx
      from == IF p = Tick THEN proc[p].listed ELSE "signed"
  IN
  /\ At(p, "forget")
  /\ SetStatus(i, proc[p].why, from)
  /\ IF txs[i].status = from
     THEN /\ IF proc[p].why = "dropped" THEN Kill ELSE UNCHANGED killed
          /\ IF p = Tick THEN Answer(p) /\ UNCHANGED res ELSE RefuseQueued(p)
     ELSE /\ UNCHANGED <<killed, res>>
          /\ IF p = Tick THEN Answer(p)
             ELSE Waits(p, proc[p].r, "reserved", i) /\ queue' = Tail(queue)
  /\ UNCHANGED <<suspects, chain, history>>

-----------------------------------------------------------------------------
(* Settling a transaction: by its handler, another, a status read, the pass *)

(* The receipt shows the call's event, and the wallet its delegation.      *)
Proved(i) == i \in did

(* settleTx: its status and its cost, once.  Proved, or the same signed    *)
(* call landed from someone else: the reservation is used.                 *)
Settle(p) ==
  LET i == proc[p].tx  r == txs[i].for
      used == Proved(i) \/ (r \notin Releases /\ proc[p].seen = "reserved" /\ call[r] = "done")
  IN
  /\ At(p, "poll") /\ i \in mined
  /\ IF txs[i].costed THEN UNCHANGED <<txs, res>>
     ELSE /\ txs' = [txs EXCEPT ![i].costed = TRUE,
                                ![i].status = IF Proved(i) THEN "confirmed" ELSE "reverted"]
          /\ res' = [res EXCEPT ![r].cost = @ + 1]
  /\ IF used THEN Goto(p, [proc[p] EXCEPT !.at = "used", !.r = r, !.seen = "none"]) /\ UNCHANGED queue
     ELSE Answer(p)
  /\ UNCHANGED <<killed, suspects, chain, history>>

(* PENDING: the wait for the receipt timed out.                            *)
Timeout(p) ==
  /\ At(p, "poll") /\ Answer(p)
  /\ UNCHANGED <<store, suspects, chain, history>>

Used(p) ==
  /\ At(p, "used") /\ MarkUsed(proc[p].r) /\ Answer(p)
  /\ UNCHANGED <<txs, killed, suspects, chain, history>>

(* sponsoredCallStatus, for the worker that was answered PENDING, when it  *)
(* has something to do: a transaction that was mined, or a submit that     *)
(* landed without it.                                                      *)
Status(p, r) ==
  /\ p \in Relay /\ At(p, "idle") /\ res[r].status # "used"
  /\ \E i \in Out(r) :
       IF i \in mined THEN Waits(p, r, res[r].status, i)
       ELSE /\ r \notin Releases /\ call[r] = "done"
            /\ Goto(p, [Idle EXCEPT !.at = "used", !.r = r])
  /\ UNCHANGED <<store, queue, suspects, chain, history>>

-----------------------------------------------------------------------------
(* The writer's pass: recoverSponsorTxs, then sweepReservations *)

(* mistake: the list keeps what is settled *)
AllButRejected ==
  {[tx |-> i, seen |-> txs[i].status] : i \in {j \in Stored : txs[j].status # "rejected"}}

UnsettledTxs == {[tx |-> i, seen |-> txs[i].status] : i \in {j \in Stored : Unsettled(j)}}

(* The chain's count of nonces and the list are read once; each            *)
(* transaction is looked at later.                                         *)
StartPass ==
  /\ At(Tick, "idle") /\ UnsettledTxs # {}
  /\ LookAtNext(Tick, UnsettledTxs, next)
  /\ UNCHANGED <<store, queue, suspects, chain, history>>

(* mistake: one look is enough *)
LostOnce(i) == TRUE

LostBefore(i) == i \in suspects

(* Settled if its receipt is there.  A transaction whose nonce the chain   *)
(* passed is lost only when two passes, far enough apart for any replica   *)
(* to catch up, find no trace of it.                                       *)
Look ==
  LET i == proc[Tick].tx
      Found == /\ Goto(Tick, [proc[Tick] EXCEPT !.at = "poll", !.seen = res[txs[i].for].status])
               /\ suspects' = suspects \ {i} /\ UNCHANGED queue
      NotFound ==
        IF txs[i].nonce >= proc[Tick].latest
        THEN Move(Tick, "resend") /\ UNCHANGED <<suspects, queue>>
        ELSE IF ~LostBefore(i) THEN suspects' = suspects \cup {i} /\ Answer(Tick)
        ELSE /\ Goto(Tick, [proc[Tick] EXCEPT !.at = "forget", !.why = "dropped"])
             /\ suspects' = suspects \ {i} /\ UNCHANGED queue
  IN
  /\ At(Tick, "look")
  /\ \/ i \in mined /\ Found /\ Works
     \/ Answer(Tick) /\ UNCHANGED suspects /\ Works            \* a read that fails is no answer
     \/ i \in mined /\ i \notin suspects /\ Fails("lag") /\ NotFound
     \/ i \notin mined /\ NotFound /\ Works
  /\ UNCHANGED <<store, chain>>

(* The same bytes again.  A refusal now does not free the nonce: another   *)
(* node may have taken them.                                               *)
Resend ==
  LET i == proc[Tick].tx
      listed == proc[Tick].listed
      Known == IF listed = "signed" THEN Move(Tick, "ack") /\ UNCHANGED <<queue, killed>>
               ELSE EndItem
      Refused == IF listed = "sent" THEN Move(Tick, "unack") /\ UNCHANGED <<queue, killed>>
                 ELSE EndItem
  IN
  /\ At(Tick, "resend")
  /\ \/ Taken(i) /\ Known /\ Works
     \/ Low(i) /\ UNCHANGED pool /\ Known /\ Works
     \/ ~Low(i) /\ txs[i].bad /\ UNCHANGED pool /\ Refused /\ Works
     \/ ~Low(i) /\ UNCHANGED pool /\ Fails("refuse") /\ Refused
     \/ (Taken(i) \/ UNCHANGED pool) /\ Fails("transient") /\ EndItem
  /\ UNCHANGED <<res, txs, suspects, call, next, mined, did>>

(* mistake: the refusal frees the nonce *)
FreeNonce ==
  LET i == proc[Tick].tx IN
  /\ At(Tick, "unack") /\ SetStatus(i, "rejected", "sent") /\ EndItem
  /\ UNCHANGED <<res, suspects, chain, history>>

(* Unacknowledged again, which holds every new send.                       *)
Unack ==
  LET i == proc[Tick].tx IN
  /\ At(Tick, "unack") /\ SetStatus(i, "signed", "sent") /\ EndItem
  /\ UNCHANGED <<res, suspects, chain, history>>

(* A held reservation with nothing out is closed at its hour, or when the  *)
(* task moved on, or while draining; as expired (a strike) only when the   *)
(* agent sat on it.  /release closes one the same way when it re-opens the *)
(* task.                                                                   *)
Sweep(r) ==
  LET strike == /\ r \notin Releases /\ call[r] = "waiting"
                /\ ~killed /\ SentFor(r) = {}
  IN
  /\ At(Tick, "idle") /\ res[r].status = "reserved" /\ Out(r) = {}
  /\ \E why \in {"released"} \cup IF strike THEN {"expired"} ELSE {} :
       Goto(Tick, [Idle EXCEPT !.at = "sweep", !.r = r, !.why = why])
  /\ UNCHANGED <<store, queue, suspects, chain, history>>

CloseSwept ==
  /\ At(Tick, "sweep") /\ CloseAs(proc[Tick].r, proc[Tick].why) /\ Answer(Tick)
  /\ UNCHANGED <<txs, killed, suspects, chain, history>>

-----------------------------------------------------------------------------
(* The chain, the operator, faults *)

(* The next transaction of the sponsor is included.  It does the call's    *)
(* job unless the call is gone, or the wallet was not set up.              *)
Mine(i) ==
  LET r == txs[i].for IN
  /\ i \in pool /\ txs[i].nonce = next
  /\ next' = next + 1 /\ pool' = pool \ {i} /\ mined' = mined \cup {i}
  /\ \/ call[r] = "waiting" /\ did' = did \cup {i} /\ call' = [call EXCEPT ![r] = "done"]
     \/ (call[r] # "waiting" \/ "noop" \in Happens) /\ UNCHANGED <<did, call>>
  /\ UNCHANGED <<store, memory, history>>

(* The worker, or anyone, lands the same call; or the task moves on.       *)
LandedElsewhere(r) ==
  /\ Fails("own") /\ call[r] = "waiting" /\ call' = [call EXCEPT ![r] = "done"]
  /\ UNCHANGED <<store, memory, next, pool, mined, did>>

TaskMoves(r) ==
  /\ Fails("moved") /\ call[r] = "waiting" /\ call' = [call EXCEPT ![r] = "moved"]
  /\ UNCHANGED <<store, memory, next, pool, mined, did>>

Evict(i) ==
  /\ i \in pool /\ pool' = pool \ {i} /\ Fails("evict")
  /\ UNCHANGED <<store, memory, call, next, mined, did>>

(* POST /admin/gas-sponsor/controls.                                       *)
SetKilled(kill) ==
  /\ Fails("operator") /\ killed' = kill
  /\ UNCHANGED <<res, txs, memory, chain>>

(* The holder of the sponsor's key fills the nonce of a stuck transaction  *)
(* with a transfer of their own.                                           *)
FillNonce(i) ==
  /\ Fails("operator") /\ killed
  /\ i \in Stored /\ Unsettled(i) /\ txs[i].nonce = next
  /\ next' = next + 1 /\ pool' = pool \ {i}
  /\ UNCHANGED <<store, memory, call, mined, did>>

(* The handlers, the queue and the suspects are in memory.                 *)
Crash ==
  /\ Fails("crash")
  /\ proc' = [p \in Process |-> Idle] /\ queue' = <<>> /\ suspects' = {}
  /\ UNCHANGED <<store, chain>>

HandlerStep(p) ==
  Turn(p) \/ Record(p) \/ Broadcast(p)
SharedStep(p) == Ack(p) \/ Forget(p) \/ Settle(p) \/ Timeout(p) \/ Used(p)
PassStep == Look \/ Resend \/ Unack \/ CloseSwept

Next ==
  \/ \E r \in Reservation :
       \/ AcceptReserve(r) \/ AcceptGivesBack(r) \/ Sweep(r)
       \/ LandedElsewhere(r) \/ TaskMoves(r)
       \/ \E p \in Relay : Ask(p, r) \/ Status(p, r)
  \/ \E p \in Relay : HandlerStep(p)
  \/ \E p \in Process : SharedStep(p)
  \/ StartPass \/ PassStep
  \/ \E i \in Stored : Mine(i) \/ Evict(i) \/ FillNonce(i)
  \/ \E kill \in BOOLEAN : SetKilled(kill)
  \/ Crash

Spec == Init /\ [][Next]_vars

-----------------------------------------------------------------------------
(* Properties *)

TypeOK ==
  /\ res \in [Reservation -> Row] /\ txs \in Seq(Tx)
  /\ killed \in BOOLEAN /\ queue \in Seq(Relay) /\ proc \in [Process -> Handler]
  /\ call \in [Reservation -> {"waiting", "done", "moved"}] /\ next \in Nat
  /\ suspects \subseteq Stored /\ pool \subseteq Stored /\ mined \subseteq Stored
  /\ did \subseteq mined /\ hUnseen \subseteq mined /\ faults \in 0 .. MaxFaults

(* Nothing waits behind a hole: every nonce below an unsettled             *)
(* transaction's that the chain still waits for is kept by a transaction   *)
(* the pass re-sends.  It is what "never store a nonce above bytes no node *)
(* acknowledged" and "never free the nonce of bytes sent before" are for.  *)
NoHole ==
  \A i \in Stored : Unsettled(i) =>
    \A n \in next .. txs[i].nonce - 1 :
      \E j \in Stored : Unsettled(j) /\ txs[j].nonce = n

(* However many handlers ask for the same call, at the same time, after a  *)
(* timeout or a crash, one transaction of a reservation is out at a time.  *)
OneOut == \A r \in Reservation : Cardinality(Out(r)) <= 1

(* A final status tells what the chain did, whichever of the handlers, the *)
(* pass and the status reads wrote it, and nothing final can still land.   *)
(* One status may be untrue: a transaction the pass got mined is "dropped" *)
(* when its own handler reads no receipt for it.                           *)
SettledTruth ==
  \A i \in Stored :
    CASE txs[i].status = "confirmed" -> i \in did
      [] txs[i].status = "reverted" -> i \in mined \ did
      [] txs[i].status = "dropped" -> i \notin (mined \ hUnseen) \cup pool
      [] txs[i].status = "rejected" -> i \notin mined \cup pool
      [] OTHER -> TRUE

(* A reservation is charged once for each of its mined transactions, and   *)
(* for no other, though several settle the same one.                       *)
ChargedOnce ==
  \A r \in Reservation :
    /\ res[r].cost = Cardinality({i \in SentFor(r) : txs[i].status \in {"confirmed", "reverted"}})
    /\ res[r].cost <= Cardinality(SentFor(r) \cap mined)

(* A reservation is used only when its call was done on the escrow, by the *)
(* sponsor's transaction or by someone else's.                             *)
UsedMeansDone ==
  \A r \in Reservation : res[r].status = "used" => call[r] = "done"

=============================================================================
