-------------------------- MODULE GasSponsorProofs --------------------------
(***************************************************************************)
(* Proofs about the gas sponsor, for every set of reservations and         *)
(* handlers and any number of transactions, crashes and outside events:    *)
(* each invariant of its run.                                              *)
(*                                                                         *)
(* The inductive invariant IInv says what the stored transactions and the  *)
(* chain owe each other (TablesOK), that only the head of the queue sends  *)
(* (QueueOK), and that what a process learnt before an await still holds   *)
(* after it (LocalOK).                                                     *)
(***************************************************************************)
EXTENDS GasSponsor, FiniteSetTheorems, TLAPS

(* What the chain included, or can include.                                *)
ChainOK ==
  /\ \A i \in pool : ~txs[i].bad /\ txs[i].nonce >= next
  /\ \A i \in mined : ~txs[i].bad /\ txs[i].nonce < next
  /\ \A i \in did : call[txs[i].for] = "done"

(* Not mined, or mined behind the back of a handler that was told "none".  *)
Untraced(i) == i \notin mined \ hUnseen

(* A status that is final is true, and stays true.                         *)
StatusOK ==
  \A i \in Stored :
    /\ txs[i].costed <=> txs[i].status \in {"confirmed", "reverted"}
    /\ txs[i].status = "confirmed" => i \in did
    /\ txs[i].status = "reverted" => i \in mined \ did
    /\ txs[i].status = "dropped" => txs[i].nonce < next /\ Untraced(i)
    /\ txs[i].status = "rejected" => txs[i].bad

OneEach ==
  \A i, j \in Stored :
    /\ Unsettled(i) /\ Unsettled(j) /\ txs[i].for = txs[j].for => i = j
    /\ txs[i].nonce = txs[j].nonce /\ txs[i].status # "rejected" /\ txs[j].status # "rejected"
         => i = j

(* Every nonce below n the chain waits for is one the pass re-sends.       *)
Covered(n) == \A m \in next .. n - 1 : \E j \in Stored : Unsettled(j) /\ txs[j].nonce = m

(* Bytes no node takes stay unacknowledged, with nothing above them.       *)
Stuck(i) == Unsettled(i) /\ txs[i].bad /\ txs[i].nonce >= next
StuckLast ==
  \A i \in Stored : Stuck(i) =>
    txs[i].status = "signed" /\ \A j \in Stored : Unsettled(j) => txs[j].nonce <= txs[i].nonce

TablesOK == ChainOK /\ StatusOK /\ OneEach /\ StuckLast /\ NoHole

Charged(r) == {i \in SentFor(r) : txs[i].status \in {"confirmed", "reverted"}}
ResOK == UsedMeansDone /\ \A r \in Reservation : res[r].cost = Cardinality(Charged(r))

(* Between the choice of a nonce and the store.                            *)
Recording(r, n) ==
  /\ Out(r) = {} /\ Covered(n) /\ \A k \in NoncesKept : k < n
  /\ \A i \in Stored : ~Stuck(i)

AtTx == {"broadcast", "ack", "forget", "poll", "look", "resend", "unack"}
Sending == {"record", "broadcast", "ack", "forget"}

LocalOK(p, local) ==
  /\ local.at \in AtTx => local.tx \in Stored
  /\ local.latest <= next /\ \A item \in local.todo : item.tx \in Stored
  /\ local.at \in {"queued", "record", "broadcast", "used", "sweep"} => local.r \in Reservation
  /\ p \in Relay =>
       /\ local.todo = {} /\ local.at \notin {"look", "resend", "unack", "sweep"}
       /\ local.at \in {"ack", "forget"} => local.r \in Reservation
  /\ p = Tick =>
       /\ local.at \notin {"queued", "record", "broadcast"}
       /\ local.at \in {"look", "resend", "forget"} => local.listed \in {"signed", "sent"}
  /\ local.at = "forget" =>
       \/ local.why = "dropped" /\ Low(local.tx) /\ Untraced(local.tx)
       \/ local.why = "rejected" /\ txs[local.tx].bad
  /\ local.at = "ack" => ~txs[local.tx].bad \/ Low(local.tx)
  /\ local.at = "used" => call[local.r] = "done"
  /\ local.at = "sweep" => local.why \in {"released", "expired"}
  /\ local.at = "record" => Recording(local.r, local.nonce)

LocalsOK == \A p \in Process : LocalOK(p, proc[p])

QueueOK ==
  /\ \A i, j \in 1 .. Len(queue) : queue[i] = queue[j] => i = j
  /\ \A i \in 1 .. Len(queue) : ~At(queue[i], "idle") /\ (i > 1 => At(queue[i], "queued"))
  /\ \A p \in Relay : proc[p].at \in Sending => Holds(p)

IInv == TypeOK /\ TablesOK /\ ResOK /\ LocalsOK /\ QueueOK

-----------------------------------------------------------------------------
(* Types *)

LEMMA TxType ==
  ASSUME TypeOK, NEW i \in Stored
  PROVE  /\ txs[i] \in Tx /\ txs[i].for \in Reservation /\ txs[i].nonce \in Nat
         /\ txs[i].status \in TxStatus /\ txs[i].costed \in BOOLEAN /\ txs[i].bad \in BOOLEAN
<1>1. txs[i] \in Tx
  BY DEF TypeOK, Stored
<1>. QED
  BY <1>1 DEF Tx

LEMMA IdleType == Idle \in Handler /\ \A p \in Process : LocalOK(p, Idle) <=> 0 <= next
<1>1. Idle \in Handler
  BY Parameters DEF Idle, Handler
<1>. QED
  BY <1>1, Parameters DEF Idle, LocalOK, AtTx

-----------------------------------------------------------------------------
(* One process goes on *)

(* The faults are counted, and what a handler was not shown stays noted.   *)
HistoryStep ==
  /\ faults' \in 0 .. MaxFaults
  /\ hUnseen \subseteq hUnseen' /\ hUnseen' \subseteq mined'

LEMMA SameHistory ==
  ASSUME IInv, UNCHANGED <<chain, history>>
  PROVE  HistoryStep
BY DEF HistoryStep, IInv, TypeOK, chain, history

(* What no step undoes.                                                    *)
Onward ==
  /\ next' \in Nat /\ next <= next' /\ Stored \subseteq Stored'
  /\ \A i \in Stored : /\ txs'[i].nonce = txs[i].nonce /\ txs'[i].bad = txs[i].bad
                       /\ Low(i) /\ Untraced(i) => Untraced(i)'
  /\ \A r \in Reservation : call[r] = "done" => call'[r] = "done"

KeepsRecording == \A r \in Reservation, n \in Nat : Recording(r, n) => Recording(r, n)'

LEMMA LocalKept ==
  ASSUME TypeOK, Onward, NEW p \in Process, NEW local \in Handler, LocalOK(p, local),
         local.at = "record" => KeepsRecording
  PROVE  LocalOK(p, local)'
<1>1. /\ local.tx \in Nat /\ local.nonce \in Nat /\ local.latest \in Nat
      /\ next \in Nat /\ next' \in Nat /\ next <= next'
  BY DEF Handler, TypeOK, Onward
<1>2. local.latest <= next' /\ \A item \in local.todo : item.tx \in Stored'
  BY <1>1 DEF LocalOK, Onward
<1>3. ASSUME local.at \in AtTx
      PROVE  local.tx \in Stored /\ local.tx \in Stored'
  BY <1>3 DEF LocalOK, Onward
<1>4. local.at = "record" => Recording(local.r, local.nonce)'
  BY <1>1 DEF LocalOK, KeepsRecording
<1>5. ASSUME local.at \in {"ack", "forget"}
      PROVE  /\ Low(local.tx) => Low(local.tx)'
             /\ Low(local.tx) /\ Untraced(local.tx) => Untraced(local.tx)'
             /\ txs'[local.tx].bad = txs[local.tx].bad
  <2>1. local.tx \in Stored
    BY <1>3, <1>5 DEF AtTx
  <2>. QED
    BY <1>1, <2>1, TxType DEF Onward, Low
<1>6. local.at = "used" => call'[local.r] = "done"
  BY DEF LocalOK, Onward
<1>. QED
  BY <1>2, <1>3, <1>4, <1>5, <1>6 DEF LocalOK, AtTx

LEMMA Moves ==
  ASSUME TypeOK, LocalsOK, Onward, NEW p \in Process, NEW local \in Handler, Goto(p, local),
         LocalOK(p, local)', KeepsRecording \/ \A q \in Relay \ {p} : ~At(q, "record")
  PROVE  proc' \in [Process -> Handler] /\ LocalsOK'
<1>1. /\ proc' = [proc EXCEPT ![p] = local] /\ proc' \in [Process -> Handler]
      /\ \A q \in Process : proc[q] \in Handler /\ proc'[q] = IF q = p THEN local ELSE proc[q]
  BY DEF Goto, TypeOK
<1>2. ASSUME NEW q \in Process PROVE LocalOK(q, proc[q])'
  <2>1. CASE q = p
    BY <1>1, <2>1
  <2>2. CASE q # p
    <3>1. PICK m \in Handler : m = proc[q] /\ m = proc'[q]
      BY <1>1, <2>2
    <3>2. LocalOK(q, m) /\ (m.at = "record" => q \in Relay)
      BY <3>1 DEF LocalsOK, LocalOK, Process
    <3>3. m.at = "record" => KeepsRecording
      BY <2>2, <3>1, <3>2 DEF At
    <3>4. LocalOK(q, m)'
      BY <3>2, <3>3, LocalKept
    <3>. QED
      BY <3>1, <3>4
  <2>. QED
    BY <2>1, <2>2
<1>. QED
  BY <1>1, <1>2 DEF LocalsOK

Goes(p) ==
  \E local \in Handler : (LocalOK(p, local) \/ LocalOK(p, local)') /\ Goto(p, local)

LEMMA GoesOn ==
  ASSUME TypeOK, LocalsOK, Onward, KeepsRecording, NEW p \in Process, Goes(p)
  PROVE  proc' \in [Process -> Handler] /\ LocalsOK'
<1>1. PICK local \in Handler : (LocalOK(p, local) \/ LocalOK(p, local)') /\ Goto(p, local)
  BY DEF Goes
<1>2. LocalOK(p, local)'
  BY <1>1, LocalKept
<1>. QED
  BY <1>1, <1>2, Moves

LEMMA SameTables ==
  ASSUME TypeOK, HistoryStep, UNCHANGED <<txs, call, next, mined>>
  PROVE  Onward /\ KeepsRecording
<1>1. Onward
  BY DEF TypeOK, Onward, Stored, Low, HistoryStep, Untraced
<1>2. KeepsRecording
  BY DEF KeepsRecording, Recording, Out, SentFor, Stored, Unsettled, Covered, NoncesKept, Stuck
<1>. QED
  BY <1>1, <1>2

-----------------------------------------------------------------------------
(* The queue *)

LEMMA ProcessAt ==
  ASSUME TypeOK, NEW p \in Process, NEW local \in Handler, Goto(p, local)
  PROVE  \A q \in Process : proc'[q] = IF q = p THEN local ELSE proc[q]
BY DEF TypeOK, Goto

LEMMA Queued ==
  ASSUME TypeOK
  PROVE  /\ Len(queue) \in Nat
         /\ \A i \in 1 .. Len(queue) : queue[i] \in Relay /\ queue[i] \in Process /\ queue[i] # Tick
         /\ \A p : Holds(p) <=> Len(queue) > 0 /\ queue[1] = p
BY Parameters DEF TypeOK, Holds, Process

(* The process stays where it is in the queue, or out of it.               *)
LEMMA Stays ==
  ASSUME TypeOK, QueueOK, NEW p \in Process, NEW local \in Handler, Goto(p, local),
         UNCHANGED queue, Holds(p) => local.at # "idle",
         At(p, "queued") => Holds(p),
         p \in Relay /\ local.at \in Sending => Holds(p)
  PROVE  queue' \in Seq(Relay) /\ QueueOK'
<1>1. queue' \in Seq(Relay)
  BY DEF TypeOK
<1>2. \A q : Holds(q)' <=> Holds(q)
  BY DEF Holds
<1>3. ASSUME NEW i \in 1 .. Len(queue)
      PROVE  proc'[queue[i]].at # "idle" /\ (i > 1 => proc'[queue[i]].at = "queued")
  <2>1. queue[i] \in Process /\ (i = 1 => Holds(queue[i]))
    BY Queued, <1>3
  <2>2. proc[queue[i]].at # "idle" /\ (i > 1 => proc[queue[i]].at = "queued")
    BY <1>3 DEF QueueOK, At
  <2>3. CASE queue[i] = p
    <3>1. Holds(p)
      BY <2>1, <2>2, <2>3 DEF At
    <3>2. i = 1
      BY <3>1, <2>3, Queued DEF QueueOK
    <3>. QED
      BY <2>3, <3>1, <3>2, ProcessAt
  <2>4. CASE queue[i] # p
    BY <2>1, <2>2, <2>4, ProcessAt
  <2>. QED
    BY <2>3, <2>4
<1>4. ASSUME NEW q \in Relay, proc'[q].at \in Sending PROVE Holds(q)
  BY <1>4, ProcessAt DEF QueueOK, Process
<1>. QED
  BY <1>1, <1>2, <1>3, <1>4 DEF QueueOK, At

(* The head of the queue lets the next one go.                             *)
LEMMA LetsGo ==
  ASSUME TypeOK, QueueOK, NEW p \in Process, NEW local \in Handler, Goto(p, local),
         Holds(p), queue' = Tail(queue), local.at \notin Sending
  PROVE  queue' \in Seq(Relay) /\ QueueOK'
<1>1. /\ Len(queue) > 0 /\ queue[1] = p /\ queue' \in Seq(Relay) /\ Len(queue') = Len(queue) - 1
      /\ \A i \in 1 .. Len(queue') : queue'[i] = queue[i + 1] /\ i + 1 \in 1 .. Len(queue)
  BY Queued DEF TypeOK
<1>2. \A i, j \in 1 .. Len(queue') : queue'[i] = queue'[j] => i = j
  BY <1>1 DEF QueueOK
<1>3. ASSUME NEW i \in 1 .. Len(queue') PROVE proc'[queue'[i]].at = "queued"
  <2>1. queue'[i] = queue[i + 1] /\ i + 1 \in 1 .. Len(queue) /\ i + 1 > 1 /\ 1 \in 1 .. Len(queue)
    BY <1>1, <1>3
  <2>2. queue[i + 1] \in Process /\ proc[queue[i + 1]].at = "queued" /\ queue[i + 1] # p
    BY <1>1, <2>1, Queued DEF QueueOK, At
  <2>. QED
    BY <2>1, <2>2, ProcessAt
<1>4. \A q \in Relay : proc'[q].at \notin Sending
  <2>. TAKE q \in Relay
  <2>1. CASE q = p
    BY <2>1, ProcessAt
  <2>2. CASE q # p
    <3>1. proc[q].at \notin Sending
      BY <1>1, <2>2, Queued DEF QueueOK
    <3>. QED
      BY <2>2, <3>1, ProcessAt DEF Process
  <2>. QED
    BY <2>1, <2>2
<1>. QED
  BY <1>1, <1>2, <1>3, <1>4 DEF QueueOK, At

LEMMA Enqueued ==
  ASSUME TypeOK, QueueOK, NEW p \in Relay, NEW local \in Handler, Goto(p, local),
         At(p, "idle"), queue' = Append(queue, p), local.at = "queued"
  PROVE  queue' \in Seq(Relay) /\ QueueOK'
<1>1. /\ p \in Process /\ queue' \in Seq(Relay) /\ Len(queue) \in Nat /\ Len(queue') = Len(queue) + 1
      /\ queue'[Len(queue) + 1] = p /\ \A i \in 1 .. Len(queue) : queue'[i] = queue[i]
  BY DEF TypeOK, Process
<1>2. \A i \in 1 .. Len(queue) : queue[i] # p /\ queue[i] \in Process
  BY Queued DEF QueueOK, At
<1>3. \A i, j \in 1 .. Len(queue') : queue'[i] = queue'[j] => i = j
  BY <1>1, <1>2 DEF QueueOK
<1>4. ASSUME NEW i \in 1 .. Len(queue')
      PROVE  proc'[queue'[i]].at # "idle" /\ (i > 1 => proc'[queue'[i]].at = "queued")
  <2>1. CASE i = Len(queue) + 1
    BY <1>1, <2>1, ProcessAt
  <2>2. CASE i \in 1 .. Len(queue)
    <3>1. proc'[queue'[i]] = proc[queue[i]]
      BY <1>1, <1>2, <2>2, ProcessAt
    <3>. QED
      BY <2>2, <3>1 DEF QueueOK, At
  <2>. QED
    BY <1>1, <2>1, <2>2
<1>5. ASSUME NEW q \in Relay, proc'[q].at \in Sending
      PROVE  queue' # <<>> /\ Head(queue') = q
  <2>1. q # p /\ proc[q].at \in Sending
    BY <1>5, <1>1, ProcessAt DEF Sending, Process
  <2>2. Len(queue) > 0 /\ queue[1] = q
    BY <2>1, Queued DEF QueueOK
  <2>. QED
    BY <1>1, <2>2
<1>. QED
  BY <1>1, <1>3, <1>4, <1>5 DEF QueueOK, At, Holds

(* An answer leaves a handler idle, and the pass at its next transaction.  *)
LEMMA AnswerOK ==
  ASSUME TypeOK, LocalsOK, QueueOK, NEW p \in Process, At(p, "queued") => Holds(p), Answer(p)
  PROVE  Goes(p) /\ queue' \in Seq(Relay) /\ QueueOK'
<1>1. PICK local \in Handler : LocalOK(p, local) /\ Goto(p, local) /\ local.at \in {"idle", "look"}
  <2>1. /\ proc[p] \in Handler /\ LocalOK(p, proc[p]) /\ next \in Nat
        /\ proc[p].todo \subseteq Item /\ proc[p].latest \in Nat
    BY DEF TypeOK, LocalsOK, Handler
  <2>2. CASE Goto(p, Idle)
    BY <2>1, <2>2, IdleType DEF Idle
  <2>3. CASE \E item \in proc[p].todo :
               Goto(p, [Idle EXCEPT !.at = "look", !.tx = item.tx, !.listed = item.seen,
                                    !.todo = proc[p].todo \ {item}, !.latest = proc[p].latest])
    <3>1. PICK item \in proc[p].todo :
             Goto(p, [Idle EXCEPT !.at = "look", !.tx = item.tx, !.listed = item.seen,
                                  !.todo = proc[p].todo \ {item}, !.latest = proc[p].latest])
      BY <2>3
    <3>. DEFINE new == [Idle EXCEPT !.at = "look", !.tx = item.tx, !.listed = item.seen,
                                    !.todo = proc[p].todo \ {item}, !.latest = proc[p].latest]
    <3>2. /\ item.tx \in Nat /\ item.seen \in {"signed", "sent"}
          /\ proc[p].todo \ {item} \in SUBSET Item
      BY <2>1 DEF Item
    <3>3. /\ new \in Handler /\ new.at = "look" /\ new.tx = item.tx /\ new.listed = item.seen
          /\ new.todo = proc[p].todo \ {item} /\ new.latest = proc[p].latest
      BY ZenonT(120), <2>1, <3>2, IdleType DEF Handler, Idle
    <3>4. p \notin Relay
      BY <2>1 DEF LocalOK
    <3>5. LocalOK(p, new)
      BY <2>1, <3>2, <3>3, <3>4 DEF LocalOK, AtTx
    <3>. QED
      BY <3>1, <3>3, <3>5
  <2>. QED
    BY <2>2, <2>3 DEF Answer, LookAtNext
<1>2. CASE Holds(p)
  BY <1>1, <1>2, LetsGo DEF Answer, Goes, Sending
<1>3. CASE ~Holds(p)
  BY <1>1, <1>3, Stays DEF Answer, Goes, Sending
<1>. QED
  BY <1>2, <1>3

(* A wait for a stored transaction.                                        *)
LEMMA WaitsOK ==
  ASSUME TypeOK, LocalsOK, QueueOK, NEW p \in Relay, NEW r \in Reservation, NEW i \in Stored,
         NEW seen \in {"none", "reserved", "used", "released", "expired"}, Waits(p, r, seen, i),
         At(p, "queued") => Holds(p), UNCHANGED queue \/ (Holds(p) /\ queue' = Tail(queue))
  PROVE  Goes(p) /\ queue' \in Seq(Relay) /\ QueueOK'
<1>1. next \in Nat /\ i \in Nat /\ p \in Process
  BY DEF TypeOK, Stored, Process
<1>2. [Idle EXCEPT !.at = "poll", !.r = r, !.seen = seen, !.tx = i] \in Handler
  BY <1>1, IdleType DEF Handler, Idle
<1>3. PICK local \in Handler :
        /\ Goto(p, local) /\ local.at = "poll" /\ local.r = r /\ local.tx = i
        /\ local.todo = {} /\ local.latest = 0
  BY <1>2 DEF Waits, Idle
<1>4. LocalOK(p, local)
  BY <1>1, <1>3, Parameters DEF LocalOK, AtTx
<1>5. CASE UNCHANGED queue
  BY <1>1, <1>3, <1>4, <1>5, Stays DEF Sending, Goes
<1>6. CASE Holds(p) /\ queue' = Tail(queue)
  BY <1>1, <1>3, <1>4, <1>6, LetsGo DEF Sending, Goes
<1>. QED
  BY <1>5, <1>6

-----------------------------------------------------------------------------
(* The stored transactions *)

(* A row is rewritten as the code does: acknowledged, unacknowledged again *)
(* or given up while unsettled, or settled after the receipt.              *)
GivenUpOrHeard(i, row) ==
  /\ Unsettled(i) /\ ~row.costed
  /\ \/ row.status = "signed"
     \/ row.status = "sent" /\ (~txs[i].bad \/ Low(i))
     \/ row.status = "dropped" /\ Low(i) /\ Untraced(i)
     \/ row.status = "rejected" /\ txs[i].bad

SettledNow(i, row) ==
  i \in mined /\ row.costed /\ row.status = IF i \in did THEN "confirmed" ELSE "reverted"

Rewritten(i, row) ==
  /\ row.for = txs[i].for /\ row.nonce = txs[i].nonce /\ row.bad = txs[i].bad
  /\ GivenUpOrHeard(i, row) \/ SettledNow(i, row)

LEMMA RowRewritten ==
  ASSUME TypeOK, TablesOK, HistoryStep, NEW i \in Stored, NEW row \in Tx, Rewritten(i, row),
         txs' = [txs EXCEPT ![i] = row], UNCHANGED <<call, next, pool, mined, did>>
  PROVE  txs' \in Seq(Tx) /\ Stored' = Stored /\ TablesOK' /\ Onward /\ KeepsRecording
<1>1. /\ txs' \in Seq(Tx) /\ Len(txs') = Len(txs) /\ Stored' = Stored
      /\ \A j \in Stored : txs'[j] = IF j = i THEN row ELSE txs[j]
  BY DEF TypeOK, Stored
<1>2. \A j \in Stored : /\ txs'[j].for = txs[j].for /\ txs'[j].nonce = txs[j].nonce
                        /\ txs'[j].bad = txs[j].bad
  BY <1>1 DEF Rewritten
<1>3. /\ next \in Nat /\ pool \subseteq Stored /\ mined \subseteq Stored /\ did \subseteq mined
      /\ \A j \in Stored : txs[j].nonce \in Nat /\ txs[j].bad \in BOOLEAN
  BY TxType DEF TypeOK
<1>4. ChainOK'
  BY <1>1, <1>2, <1>3 DEF ChainOK, TablesOK
<1>5. StatusOK'
  <2>1. ASSUME NEW j \in Stored, j # i
        PROVE  /\ txs'[j] = txs[j]
               /\ txs[j].costed <=> txs[j].status \in {"confirmed", "reverted"}
               /\ txs[j].status = "confirmed" => j \in did
               /\ txs[j].status = "reverted" => j \in mined \ did
               /\ txs[j].status = "dropped" => txs[j].nonce < next /\ Untraced(j)
               /\ txs[j].status = "rejected" => txs[j].bad
    BY <1>1, <2>1 DEF StatusOK, TablesOK
  <2>2. /\ row.costed <=> row.status \in {"confirmed", "reverted"}
        /\ row.status = "confirmed" => i \in did
        /\ row.status = "reverted" => i \in mined \ did
        /\ row.status = "dropped" => txs[i].nonce < next /\ Untraced(i)
        /\ row.status = "rejected" => txs[i].bad
    <3>1. row.costed \in BOOLEAN
      BY DEF Tx
    <3>. QED
      BY <3>1 DEF Rewritten, GivenUpOrHeard, SettledNow, Low
  <2>. QED
    BY <1>1, <1>2, <2>1, <2>2 DEF StatusOK, HistoryStep, Untraced
<1>6. \A j \in Stored : Unsettled(j)' => Unsettled(j)
  BY <1>1 DEF Rewritten, GivenUpOrHeard, SettledNow, Unsettled
<1>7. \A j \in Stored : Unsettled(j) /\ ~txs[j].bad /\ txs[j].nonce >= next => Unsettled(j)'
  BY <1>1, <1>3 DEF Rewritten, GivenUpOrHeard, SettledNow, Unsettled, Low, ChainOK, TablesOK
<1>8. \A j \in Stored : txs[j].status = "rejected" => txs'[j].status = "rejected"
  BY <1>1 DEF Rewritten, GivenUpOrHeard, SettledNow, Unsettled, ChainOK, StatusOK, TablesOK
<1>9. OneEach'
  BY <1>1, <1>2, <1>6, <1>8 DEF OneEach, TablesOK
<1>10. \A j \in Stored : Stuck(j)' => Stuck(j)
  BY <1>1, <1>2, <1>6 DEF Stuck
<1>11. StuckLast'
  <2>1. ASSUME NEW j \in Stored, Stuck(j)' PROVE txs'[j].status = "signed"
    BY <1>1, <1>2, <1>3, <1>10, <2>1
       DEF StuckLast, TablesOK, Stuck, Unsettled, Rewritten, GivenUpOrHeard, SettledNow, Low
  <2>. QED
    BY <1>1, <1>2, <1>6, <1>10, <2>1 DEF StuckLast, TablesOK
<1>12. NoHole'
  <2>1. SUFFICES ASSUME NEW k \in Stored, Unsettled(k)', NEW m \in next .. txs[k].nonce - 1
                 PROVE  \E j \in Stored : Unsettled(j)' /\ txs'[j].nonce = m
    BY <1>1, <1>2 DEF NoHole
  <2>2. PICK j \in Stored : Unsettled(j) /\ txs[j].nonce = m
    BY <1>6, <2>1 DEF NoHole, TablesOK
  <2>3. ~Stuck(j)
    BY <1>3, <1>6, <2>1, <2>2 DEF StuckLast, TablesOK
  <2>4. Unsettled(j)'
    BY <1>3, <1>7, <2>1, <2>2, <2>3 DEF Stuck
  <2>. QED
    BY <1>2, <2>2, <2>4
<1>13. Onward
  BY <1>1, <1>2, <1>3 DEF Onward, Low, HistoryStep, Untraced
<1>14. KeepsRecording
  <2>1. SUFFICES ASSUME NEW r \in Reservation, NEW n \in Nat, Recording(r, n)
                 PROVE  Recording(r, n)'
    BY DEF KeepsRecording
  <2>2. Out(r)' = {}
    BY <1>1, <1>2, <1>6, <2>1 DEF Recording, Out, SentFor
  <2>3. Covered(n)'
    <3>1. SUFFICES ASSUME NEW m \in next .. n - 1
                   PROVE  \E j \in Stored : Unsettled(j)' /\ txs'[j].nonce = m
      BY <1>1 DEF Covered
    <3>2. PICK j \in Stored : Unsettled(j) /\ txs[j].nonce = m /\ ~Stuck(j)
      BY <2>1, <3>1 DEF Recording, Covered
    <3>. QED
      BY <1>2, <1>3, <1>7, <3>1, <3>2 DEF Stuck
  <2>4. \A k \in NoncesKept' : k < n
    BY <1>1, <1>2, <1>8, <2>1 DEF Recording, NoncesKept
  <2>. QED
    BY <1>1, <1>10, <2>1, <2>2, <2>3, <2>4 DEF Recording
<1>. QED
  BY <1>1, <1>4, <1>5, <1>9, <1>11, <1>12, <1>13, <1>14 DEF TablesOK

LEMMA NotCharged ==
  ASSUME TypeOK, NEW i \in Stored, NEW row \in Tx, GivenUpOrHeard(i, row), row.for = txs[i].for,
         txs' = [txs EXCEPT ![i] = row]
  PROVE  \A r \in Reservation : Charged(r)' = Charged(r)
<1>1. /\ Stored' = Stored
      /\ \A j \in Stored : txs'[j] = IF j = i THEN row ELSE txs[j]
  BY DEF TypeOK, Stored
<1>. QED
  BY <1>1 DEF Charged, SentFor, GivenUpOrHeard, Unsettled

LEMMA ChargedFinite ==
  ASSUME TypeOK
  PROVE  \A r : IsFiniteSet(Charged(r)) /\ IsFiniteSet(SentFor(r)) /\ Cardinality(Charged(r)) \in Nat
<1>1. Len(txs) \in Nat
  BY DEF TypeOK
<1>2. IsFiniteSet(Stored)
  BY <1>1, FS_Interval DEF Stored
<1>. QED
  BY <1>2, FS_Subset, FS_CardinalityType DEF Charged, SentFor

LEMMA ChargedOneMore ==
  ASSUME TypeOK, NEW i \in Stored, NEW row \in Tx, SettledNow(i, row), row.for = txs[i].for,
         txs[i].status \notin {"confirmed", "reverted"}, txs' = [txs EXCEPT ![i] = row]
  PROVE  \A r \in Reservation :
           Cardinality(Charged(r)') = Cardinality(Charged(r)) + IF r = txs[i].for THEN 1 ELSE 0
<1>1. /\ Stored' = Stored
      /\ \A j \in Stored : txs'[j] = IF j = i THEN row ELSE txs[j]
  BY DEF TypeOK, Stored
<1>2. ASSUME NEW r \in Reservation, r # txs[i].for PROVE Charged(r)' = Charged(r)
  BY <1>1, <1>2 DEF Charged, SentFor
<1>3. /\ Charged(txs[i].for)' = Charged(txs[i].for) \cup {i}
      /\ i \notin Charged(txs[i].for)
  BY <1>1 DEF Charged, SentFor, SettledNow
<1>. QED
  BY <1>2, <1>3, ChargedFinite, FS_AddElement

LEMMA SetStatusOK ==
  ASSUME TypeOK, TablesOK, HistoryStep, NEW i \in Stored, NEW from \in {"signed", "sent"}, NEW status,
         SetStatus(i, status, from), UNCHANGED <<call, next, pool, mined, did>>,
         txs[i].status = from =>
           \/ status = "signed"
           \/ status = "sent" /\ (~txs[i].bad \/ Low(i))
           \/ status = "dropped" /\ Low(i) /\ Untraced(i)
           \/ status = "rejected" /\ txs[i].bad
  PROVE  /\ txs' \in Seq(Tx) /\ Stored' = Stored /\ TablesOK' /\ Onward /\ KeepsRecording
         /\ \A r \in Reservation : Charged(r)' = Charged(r)
<1>1. CASE txs[i].status = from
  <2>1. PICK row : row = [txs[i] EXCEPT !.status = status]
    OBVIOUS
  <2>2. /\ row \in Tx /\ row.for = txs[i].for /\ row.nonce = txs[i].nonce /\ row.bad = txs[i].bad
        /\ row.status = status /\ row.costed = txs[i].costed
    BY <1>1, <2>1, TxType DEF Tx, TxStatus
  <2>3. GivenUpOrHeard(i, row)
    BY <1>1, <2>2 DEF GivenUpOrHeard, Unsettled, TablesOK, StatusOK
  <2>4. txs' = [txs EXCEPT ![i] = row]
    BY <1>1, <2>1 DEF SetStatus, TypeOK, Stored
  <2>. QED
    BY <2>2, <2>3, <2>4, RowRewritten, NotCharged DEF Rewritten
<1>2. CASE txs[i].status # from
  <2>1. UNCHANGED <<txs, call, next, pool, mined, did>>
    BY <1>2 DEF SetStatus
  <2>2. TablesOK'
    BY <2>1
       DEF TablesOK, ChainOK, StatusOK, OneEach, StuckLast, Stuck, NoHole, Stored, Unsettled,
           HistoryStep, Untraced
  <2>. QED
    BY <2>1, <2>2, SameTables DEF Charged, SentFor, Stored, TypeOK
<1>. QED
  BY <1>1, <1>2

-----------------------------------------------------------------------------
(* Reservations *)

(* A reservation is rewritten, and no cost with it.                        *)
Kept(r) ==
  /\ res'[r].cost = res[r].cost
  /\ res'[r].status = "used" => res[r].status = "used" \/ call[r] = "done"

LEMMA ResKept ==
  ASSUME TypeOK, ResOK, Onward, \A r \in Reservation : Charged(r)' = Charged(r) /\ Kept(r)
  PROVE  ResOK'
BY DEF ResOK, UsedMeansDone, Onward, Kept

LEMMA Rewrites ==
  ASSUME TypeOK, NEW r \in Reservation, NEW status \in {"reserved", "used", "released", "expired"},
         status = "used" => call[r] = "done",
         res' = [res EXCEPT ![r].status = status] \/ UNCHANGED res
  PROVE  res' \in [Reservation -> Row] /\ \A s \in Reservation : Kept(s)
<1>1. res \in [Reservation -> Row]
  BY DEF TypeOK
<1>2. \A s \in Reservation : /\ res[s] \in Row /\ res[s].cost \in Nat
                             /\ [res[s] EXCEPT !.status = status] \in Row
  BY <1>1 DEF Row
<1>3. CASE UNCHANGED res
  BY <1>1, <1>3 DEF Kept
<1>4. CASE res' = [res EXCEPT ![r].status = status]
  <2>1. \A s \in Reservation :
          res'[s] = IF s = r THEN [res[s] EXCEPT !.status = status] ELSE res[s]
    BY <1>1, <1>4
  <2>2. \A s \in Reservation : Kept(s)
    BY <1>2, <2>1 DEF Kept, Row
  <2>3. res' \in [Reservation -> Row]
    BY <1>1, <1>2, <1>4
  <2>. QED
    BY <2>2, <2>3
<1>. QED
  BY <1>3, <1>4

LEMMA Closes ==
  ASSUME TypeOK, NEW r \in Reservation, NEW status \in {"released", "expired"},
         CloseAs(r, status) \/ UNCHANGED res
  PROVE  res' \in [Reservation -> Row] /\ \A s \in Reservation : Kept(s)
BY Rewrites DEF CloseAs

-----------------------------------------------------------------------------
(* Steps that leave the transactions and the chain alone *)

LEMMA Untouched ==
  ASSUME IInv, HistoryStep, UNCHANGED <<txs, chain>>
  PROVE  /\ TablesOK' /\ Onward /\ KeepsRecording /\ txs' \in Seq(Tx) /\ Stored' = Stored
         /\ \A r \in Reservation : Charged(r)' = Charged(r)
<1>1. TablesOK'
  BY
     DEF IInv, TablesOK, ChainOK, StatusOK, OneEach, StuckLast, Stuck, NoHole, Stored,
         Unsettled, chain, HistoryStep, Untraced
<1>. QED
  BY <1>1, SameTables DEF Charged, SentFor, Stored, TypeOK, IInv, chain

(* A process goes on, and the rest follows.                                *)
LEMMA ProcessStep ==
  ASSUME IInv, NEW p \in Process, Goes(p), UNCHANGED <<txs, killed, chain>>,
         queue' \in Seq(Relay), QueueOK', suspects' \subseteq Stored, HistoryStep,
         res' \in [Reservation -> Row], \A r \in Reservation : Kept(r)
  PROVE  IInv'
<1>1. proc' \in [Process -> Handler] /\ LocalsOK'
  BY Untouched, GoesOn DEF IInv
<1>2. ResOK'
  BY Untouched, ResKept DEF IInv
<1>3. TypeOK'
  BY <1>1, Untouched DEF IInv, TypeOK, chain, HistoryStep
<1>. QED
  BY <1>1, <1>2, <1>3, Untouched DEF IInv

LEMMA Rests ==
  ASSUME TypeOK, LocalsOK, QueueOK, Onward, KeepsRecording, UNCHANGED <<proc, queue>>
  PROVE  LocalsOK' /\ QueueOK'
<1>1. ASSUME NEW q \in Process PROVE LocalOK(q, proc[q])'
  <2>1. PICK m \in Handler : m = proc[q] /\ m = proc'[q]
    BY DEF TypeOK
  <2>2. LocalOK(q, m)
    BY <2>1 DEF LocalsOK
  <2>3. LocalOK(q, m)'
    BY <2>2, LocalKept
  <2>. QED
    BY <2>1, <2>3
<1>2. QueueOK'
  BY DEF QueueOK, At, Holds
<1>. QED
  BY <1>1, <1>2 DEF LocalsOK

LEMMA Reserves ==
  ASSUME IInv, NEW r \in Reservation, AcceptReserve(r) \/ AcceptGivesBack(r)
  PROVE  IInv'
<1>1. UNCHANGED <<txs, killed, memory, chain, history>> /\ UNCHANGED <<proc, queue, suspects>>
  BY DEF AcceptReserve, AcceptGivesBack, memory
<1>2. res' \in [Reservation -> Row] /\ \A s \in Reservation : Kept(s)
  BY Rewrites, Closes DEF IInv, AcceptReserve, AcceptGivesBack, Reserve
<1>3. LocalsOK' /\ QueueOK'
  BY <1>1, Untouched, Rests, SameHistory DEF IInv
<1>4. ResOK'
  BY <1>1, <1>2, Untouched, ResKept, SameHistory DEF IInv
<1>5. TypeOK'
  BY <1>1, <1>2, Untouched, SameHistory DEF IInv, TypeOK, HistoryStep, chain
<1>. QED
  BY <1>1, <1>3, <1>4, <1>5, Untouched, SameHistory DEF IInv

LEMMA Asks ==
  ASSUME IInv, NEW p \in Relay, NEW r \in Reservation, Ask(p, r)
  PROVE  IInv'
<1>1. p \in Process /\ At(p, "idle") /\ UNCHANGED <<txs, killed, chain, suspects, history>>
  BY DEF Ask, Process
<1>2. UNCHANGED res => res' \in [Reservation -> Row] /\ \A s \in Reservation : Kept(s)
  BY Rewrites DEF IInv, TypeOK, Kept
<1>3. SUFFICES /\ res' \in [Reservation -> Row] /\ \A s \in Reservation : Kept(s)
               /\ Goes(p) /\ queue' \in Seq(Relay) /\ QueueOK'
  BY <1>1, ProcessStep, SameHistory DEF IInv, TypeOK
<1>4. CASE (\E i \in Out(r) : Waits(p, r, "reserved", i)) /\ UNCHANGED <<queue, res>>
  <2>1. PICK i \in Out(r) : Waits(p, r, "reserved", i)
    BY <1>4
  <2>2. i \in Stored
    BY DEF Out, SentFor
  <2>. QED
    BY <1>1, <1>2, <1>4, <2>1, <2>2, WaitsOK DEF IInv, At
<1>5. CASE CloseAs(r, "released") /\ UNCHANGED <<proc, queue>>
  <2>1. proc[p] \in Handler /\ Goto(p, proc[p]) /\ LocalOK(p, proc[p])
    BY <1>1, <1>5 DEF Goto, IInv, TypeOK, LocalsOK
  <2>2. PICK local \in Handler : local = proc[p]
    BY <2>1
  <2>3. Goto(p, local) /\ LocalOK(p, local) /\ local.at = "idle"
    BY <1>1, <2>1, <2>2 DEF At
  <2>4. QueueOK' /\ queue' \in Seq(Relay)
    BY <1>5, Rests, Untouched, <1>1, SameHistory DEF IInv, TypeOK
  <2>. QED
    BY <1>5, <2>3, <2>4, Closes DEF Goes, IInv
<1>6. CASE Goto(p, [Idle EXCEPT !.at = "queued", !.r = r]) /\ queue' = Append(queue, p)
           /\ (UNCHANGED res \/ Reserve(r))
  <2>1. [Idle EXCEPT !.at = "queued", !.r = r] \in Handler
    BY IdleType DEF Handler, Idle
  <2>2. PICK local \in Handler :
          /\ Goto(p, local) /\ local.at = "queued" /\ local.r = r /\ local.todo = {}
          /\ local.latest = 0
    BY <1>6, <2>1 DEF Idle
  <2>3. LocalOK(p, local)
    BY <2>2, Parameters DEF LocalOK, AtTx, IInv, TypeOK
  <2>4. queue' \in Seq(Relay) /\ QueueOK'
    BY <1>1, <1>6, <2>2, Enqueued DEF IInv
  <2>5. res' \in [Reservation -> Row] /\ \A s \in Reservation : Kept(s)
    BY <1>2, <1>6, Rewrites DEF Reserve, IInv
  <2>. QED
    BY <2>2, <2>3, <2>4, <2>5 DEF Goes
<1>7. CASE Goto(p, [Idle EXCEPT !.at = "used", !.r = r]) /\ call[r] = "done" /\ UNCHANGED <<queue, res>>
  <2>1. [Idle EXCEPT !.at = "used", !.r = r] \in Handler
    BY IdleType DEF Handler, Idle
  <2>2. PICK local \in Handler :
          /\ Goto(p, local) /\ local.at = "used" /\ local.r = r /\ local.todo = {}
          /\ local.latest = 0
    BY <1>7, <2>1 DEF Idle
  <2>3. LocalOK(p, local)
    BY <1>7, <2>2, Parameters DEF LocalOK, AtTx, IInv, TypeOK
  <2>4. queue' \in Seq(Relay) /\ QueueOK'
    BY <1>1, <1>7, <2>2, Stays DEF IInv, Sending, At
  <2>. QED
    BY <1>2, <1>7, <2>2, <2>3, <2>4 DEF Goes
<1>. QED
  BY <1>4, <1>5, <1>6, <1>7 DEF Ask

LEMMA NothingRewritten ==
  ASSUME IInv, UNCHANGED res
  PROVE  res' \in [Reservation -> Row] /\ \A r \in Reservation : Kept(r)
BY DEF IInv, TypeOK, Kept

(* A pool's transaction is still to settle.                                *)
LEMMA PoolUnsettled ==
  ASSUME TypeOK, TablesOK
  PROVE  \A i \in pool : i \in Stored /\ Unsettled(i)
<1>. SUFFICES ASSUME NEW i \in pool PROVE i \in Stored /\ Unsettled(i)
  OBVIOUS
<1>1. i \in Stored /\ next \in Nat
  BY DEF TypeOK
<1>2. txs[i].nonce \in Nat /\ txs[i].status \in TxStatus
  BY <1>1, TxType
<1>. QED
  BY <1>1, <1>2 DEF TypeOK, TablesOK, ChainOK, StatusOK, Unsettled, TxStatus

(* The nonce of a send is above all that is kept, and over no hole.        *)
LEMMA NonceFree ==
  ASSUME TypeOK, TablesOK, NEW n \in Nat, NextNonce(n)
  PROVE  Covered(n) /\ \A k \in NoncesKept : k < n
<1>1. next \in Nat
  BY DEF TypeOK
<1>2. CASE PendingCount(n)
  <2>1. \A m \in next .. n - 1 : \E i \in pool : txs[i].nonce = m
    BY <1>2 DEF PendingCount
  <2>. QED
    BY <2>1, PoolUnsettled DEF Covered, NextNonce
<1>3. CASE n - 1 \in NoncesKept
  <2>1. PICK j \in Stored : txs[j].nonce = n - 1 /\ txs[j].status # "rejected"
    BY <1>3 DEF NoncesKept
  <2>2. txs[j].nonce \in Nat /\ txs[j].status \in TxStatus
    BY TxType
  <2>3. CASE Unsettled(j)
    <3>1. SUFFICES ASSUME NEW m \in next .. n - 1
                   PROVE  \E i \in Stored : Unsettled(i) /\ txs[i].nonce = m
      BY DEF Covered, NextNonce
    <3>2. m = n - 1 \/ m \in next .. txs[j].nonce - 1
      BY <1>1, <2>1, <2>2, <3>1
    <3>. QED
      BY <2>1, <2>3, <3>2 DEF NoHole, TablesOK
  <2>4. CASE ~Unsettled(j)
    <3>1. txs[j].status \in {"confirmed", "reverted", "dropped"}
      BY <2>1, <2>2, <2>4 DEF Unsettled, TxStatus
    <3>2. txs[j].nonce < next
      BY <3>1 DEF TypeOK, TablesOK, StatusOK, ChainOK
    <3>3. next .. n - 1 = {}
      BY <1>1, <2>1, <3>2
    <3>. QED
      BY <3>3 DEF Covered, NextNonce
  <2>. QED
    BY <2>3, <2>4
<1>. QED
  BY <1>2, <1>3 DEF NextNonce

LEMMA RefuseOK ==
  ASSUME IInv, NEW p \in Relay, proc[p].r \in Reservation, At(p, "queued") => Holds(p), RefuseQueued(p)
  PROVE  /\ Goes(p) /\ queue' \in Seq(Relay) /\ QueueOK'
         /\ res' \in [Reservation -> Row] /\ \A r \in Reservation : Kept(r)
<1>1. p \in Process
  BY DEF Process
<1>. QED
  BY <1>1, AnswerOK, NothingRewritten, Closes DEF RefuseQueued, IInv

LEMMA Turns ==
  ASSUME IInv, NEW p \in Relay, Turn(p)
  PROVE  IInv'
<1>1. /\ p \in Process /\ At(p, "queued") /\ Holds(p)
      /\ UNCHANGED <<txs, killed, suspects, chain, history>>
      /\ proc[p] \in Handler /\ LocalOK(p, proc[p]) /\ proc[p].at = "queued"
  BY DEF Turn, Process, IInv, TypeOK, LocalsOK, At
<1>2. PICK r \in Reservation : r = proc[p].r
  BY <1>1 DEF LocalOK
<1>3. SUFFICES /\ res' \in [Reservation -> Row] /\ \A s \in Reservation : Kept(s)
               /\ Goes(p) /\ queue' \in Seq(Relay) /\ QueueOK'
  BY <1>1, ProcessStep, SameHistory DEF IInv, TypeOK
<1>4. CASE Answer(p) /\ (UNCHANGED res \/ CloseAs(r, "released"))
  BY <1>1, <1>4, AnswerOK, NothingRewritten, Closes DEF IInv
<1>5. CASE (\E i \in OutAlready(r) : Waits(p, r, "reserved", i)) /\ queue' = Tail(queue) /\ UNCHANGED res
  <2>1. PICK i \in Stored : Waits(p, r, "reserved", i)
    BY <1>5 DEF OutAlready, Out, SentFor
  <2>. QED
    BY <1>1, <1>5, <2>1, WaitsOK, NothingRewritten DEF IInv
<1>6. CASE RefuseQueued(p)
  BY <1>1, <1>2, <1>6, RefuseOK
<1>7. ASSUME ~Blocked(r), OutAlready(r) = {}, UNCHANGED <<queue, res>>,
             NEW n \in 0 .. MaxTxs + next, NextNonce(n),
             Goto(p, [proc[p] EXCEPT !.at = "record", !.nonce = n])
      PROVE  Goes(p) /\ queue' \in Seq(Relay) /\ QueueOK'
  <2>1. n \in Nat
    BY <1>7, Parameters DEF IInv, TypeOK
  <2>2. [proc[p] EXCEPT !.at = "record", !.nonce = n] \in Handler
    BY <1>1, <2>1 DEF Handler
  <2>3. PICK local \in Handler :
          /\ Goto(p, local) /\ local.at = "record" /\ local.nonce = n /\ local.r = r
          /\ local.todo = proc[p].todo /\ local.latest = proc[p].latest
    BY <1>1, <1>2, <1>7, <2>2 DEF Handler
  <2>4. Recording(r, n)
    <3>1. Covered(n) /\ \A k \in NoncesKept : k < n
      BY <1>7, <2>1, NonceFree DEF IInv
    <3>2. \A i \in Stored : ~Stuck(i)
      BY <1>7 DEF Blocked, Unacknowledged, IInv, TablesOK, StuckLast
    <3>. QED
      BY <1>7, <3>1, <3>2 DEF Recording, OutAlready
  <2>5. LocalOK(p, local)
    BY <1>1, <2>3, <2>4, Parameters DEF LocalOK, AtTx
  <2>6. queue' \in Seq(Relay) /\ QueueOK'
    BY <1>1, <1>7, <2>3, Stays DEF IInv
  <2>. QED
    BY <2>3, <2>5, <2>6 DEF Goes
<1>8. CASE /\ ~Blocked(r) /\ OutAlready(r) = {} /\ UNCHANGED <<queue, res>>
           /\ \E n \in 0 .. MaxTxs + next :
                NextNonce(n) /\ Goto(p, [proc[p] EXCEPT !.at = "record", !.nonce = n])
  BY <1>7, <1>8, NothingRewritten
<1>. QED
  BY <1>2, <1>4, <1>5, <1>6, <1>8 DEF Turn

-----------------------------------------------------------------------------
(* Steps that write the transactions *)

Appended(new, r, n) ==
  /\ txs' \in Seq(Tx) /\ Stored' = Stored \cup {new} /\ new \notin Stored /\ new \in Stored'
  /\ \A i \in Stored : txs'[i] = txs[i]
  /\ txs'[new].for = r /\ txs'[new].nonce = n
  /\ txs'[new].status = "signed" /\ txs'[new].costed = FALSE

LEMMA Appends ==
  ASSUME TypeOK, NEW r \in Reservation, NEW n \in Nat, NEW bad \in BOOLEAN,
         txs' = Append(txs, [for |-> r, nonce |-> n, status |-> "signed", costed |-> FALSE,
                             bad |-> bad])
  PROVE  Len(txs) + 1 \in Nat /\ Appended(Len(txs) + 1, r, n)
<1>1. [for |-> r, nonce |-> n, status |-> "signed", costed |-> FALSE, bad |-> bad] \in Tx
  BY DEF Tx, TxStatus
<1>. QED
  BY <1>1 DEF TypeOK, Stored, Appended

LEMMA Stores ==
  ASSUME TypeOK, TablesOK, HistoryStep, NEW r \in Reservation, NEW n \in Nat, Recording(r, n), NEW new,
         Appended(new, r, n), UNCHANGED chain
  PROVE  /\ txs' \in Seq(Tx) /\ Stored' = Stored \cup {new} /\ TablesOK' /\ Onward
         /\ \A s \in Reservation : Charged(s)' = Charged(s)
<1>2. /\ txs' \in Seq(Tx) /\ Stored' = Stored \cup {new} /\ new \notin Stored /\ new \in Stored'
      /\ \A i \in Stored : txs'[i] = txs[i]
      /\ txs'[new].for = r /\ txs'[new].nonce = n
      /\ txs'[new].status = "signed" /\ txs'[new].costed = FALSE
  BY DEF Appended
<1>3. /\ call' = call /\ next' = next /\ pool' = pool /\ mined' = mined /\ did' = did
      /\ next \in Nat /\ n < n + 1 /\ ~(n < n)
      /\ pool \subseteq Stored /\ mined \subseteq Stored /\ did \subseteq mined
      /\ \A i \in Stored : txs[i].nonce \in Nat
  BY TxType DEF TypeOK, chain
<1>4. Onward
  BY <1>2, <1>3 DEF Onward, Low, HistoryStep, Untraced
<1>5. \A s \in Reservation : Charged(s)' = Charged(s)
  BY <1>2 DEF Charged, SentFor
<1>6. \A i \in Stored' : Unsettled(i)' <=> i = new \/ (i \in Stored /\ Unsettled(i))
  BY <1>2 DEF Unsettled
<1>7. \A i \in Stored : txs[i].status # "rejected" => txs[i].nonce < n
  BY DEF Recording, NoncesKept
<1>8. ChainOK'
  BY <1>2, <1>3 DEF TablesOK, ChainOK
<1>9. StatusOK'
  <2>1. \A i \in Stored :
          /\ txs'[i].costed <=> txs'[i].status \in {"confirmed", "reverted"}
          /\ txs'[i].status = "confirmed" => i \in did'
          /\ txs'[i].status = "reverted" => i \in mined' \ did'
          /\ txs'[i].status = "dropped" => txs'[i].nonce < next' /\ Untraced(i)'
          /\ txs'[i].status = "rejected" => txs'[i].bad
    BY <1>2, <1>3 DEF TablesOK, StatusOK, HistoryStep, Untraced
  <2>. QED
    BY <1>2, <2>1 DEF StatusOK
<1>10. OneEach'
  <2>1. \A i \in Stored : ~(Unsettled(i) /\ txs[i].for = r)
    BY DEF Recording, Out, SentFor
  <2>2. ASSUME NEW i \in Stored', NEW j \in Stored'
        PROVE  /\ Unsettled(i)' /\ Unsettled(j)' /\ txs'[i].for = txs'[j].for => i = j
               /\ txs'[i].nonce = txs'[j].nonce /\ txs'[i].status # "rejected"
                    /\ txs'[j].status # "rejected" => i = j
    <3>1. CASE i \in Stored /\ j \in Stored
      BY <1>2, <1>6, <3>1 DEF TablesOK, OneEach
    <3>2. CASE i = new \/ j = new
      BY <1>2, <1>3, <1>6, <1>7, <2>1, <3>2
    <3>. QED
      BY <1>2, <3>1, <3>2
  <2>. QED
    BY <2>2 DEF OneEach
<1>11. StuckLast'
  <2>1. ASSUME NEW i \in Stored', Stuck(i)'
        PROVE  /\ txs'[i].status = "signed"
               /\ \A j \in Stored' : Unsettled(j)' => txs'[j].nonce <= txs'[i].nonce
    <3>1. i = new
      BY <1>2, <1>3, <2>1, <1>6 DEF Stuck, Recording
    <3>2. \A j \in Stored : Unsettled(j) => txs[j].nonce <= n
      BY <1>3, <1>7 DEF Unsettled
    <3>3. n <= n
      OBVIOUS
    <3>. QED
      BY <1>2, <1>6, <3>1, <3>2, <3>3
  <2>. QED
    BY <2>1 DEF StuckLast
<1>12. NoHole'
  <2>1. SUFFICES ASSUME NEW i \in Stored', Unsettled(i)', NEW m \in next .. txs'[i].nonce - 1
                 PROVE  \E j \in Stored' : Unsettled(j)' /\ txs'[j].nonce = m
    BY <1>3 DEF NoHole
  <2>2. \E j \in Stored : Unsettled(j) /\ txs[j].nonce = m
    <3>1. CASE i = new
      BY <1>2, <2>1, <3>1 DEF Recording, Covered
    <3>2. CASE i \in Stored
      BY <1>2, <1>6, <2>1, <3>2 DEF NoHole, TablesOK
    <3>. QED
      BY <1>2, <3>1, <3>2
  <2>. QED
    BY <1>2, <1>6, <2>2
<1>. QED
  BY <1>2, <1>4, <1>5, <1>8, <1>9, <1>10, <1>11, <1>12 DEF TablesOK

(* Only the head of the queue is about to store.                           *)
LEMMA OneSends ==
  ASSUME QueueOK, NEW p, Holds(p)
  PROVE  \A q \in Relay \ {p} : proc[q].at \notin Sending
BY DEF QueueOK, Holds

LEMMA Records ==
  ASSUME IInv, NEW p \in Relay, Record(p)
  PROVE  IInv'
<1>1. /\ p \in Process /\ At(p, "record") /\ Holds(p) /\ UNCHANGED <<killed, suspects, chain, history>>
      /\ proc[p] \in Handler /\ LocalOK(p, proc[p]) /\ proc[p].at = "record"
  BY DEF Record, Process, IInv, TypeOK, LocalsOK, At, QueueOK, Sending
<1>2. PICK r \in Reservation, n \in Nat : r = proc[p].r /\ n = proc[p].nonce /\ Recording(r, n)
  BY <1>1 DEF LocalOK, Handler
<1>3. CASE UNCHANGED txs /\ (RefuseQueued(p) \/ (Answer(p) /\ UNCHANGED res))
  <2>1. /\ Goes(p) /\ queue' \in Seq(Relay) /\ QueueOK'
        /\ res' \in [Reservation -> Row] /\ \A s \in Reservation : Kept(s)
    BY <1>1, <1>2, <1>3, RefuseOK, AnswerOK, NothingRewritten DEF IInv
  <2>. QED
    BY <1>1, <1>3, <2>1, ProcessStep, SameHistory DEF IInv, TypeOK
<1>4. ASSUME NEW bad \in BOOLEAN, UNCHANGED <<queue, res>>,
             txs' = Append(txs, [for |-> r, nonce |-> n, status |-> "signed", costed |-> FALSE,
                                 bad |-> bad]),
             Goto(p, [Idle EXCEPT !.at = "broadcast", !.r = r, !.tx = Len(txs) + 1])
      PROVE  IInv'
  <2>0. PICK new \in Nat : new = Len(txs) + 1 /\ Appended(new, r, n)
    BY <1>4, Appends DEF IInv
  <2>1. /\ txs' \in Seq(Tx) /\ Stored' = Stored \cup {new} /\ TablesOK' /\ Onward
        /\ \A s \in Reservation : Charged(s)' = Charged(s)
    BY <1>1, <1>2, <2>0, Stores, SameHistory DEF IInv
  <2>2. next' \in Nat
    BY <1>1 DEF IInv, TypeOK, chain
  <2>3. [Idle EXCEPT !.at = "broadcast", !.r = r, !.tx = new] \in Handler
    BY IdleType DEF Handler, Idle
  <2>4. PICK local \in Handler :
          /\ Goto(p, local) /\ local.at = "broadcast" /\ local.r = r /\ local.tx = new
          /\ local.todo = {} /\ local.latest = 0
    BY <1>4, <2>0, <2>3 DEF Idle
  <2>5. LocalOK(p, local)'
    BY <2>1, <2>2, <2>4, Parameters DEF LocalOK, AtTx
  <2>6. \A q \in Relay \ {p} : ~At(q, "record")
    BY <1>1, OneSends DEF IInv, At, Sending
  <2>7. proc' \in [Process -> Handler] /\ LocalsOK'
    BY <1>1, <2>1, <2>4, <2>5, <2>6, Moves DEF IInv
  <2>8. queue' \in Seq(Relay) /\ QueueOK'
    BY <1>1, <1>4, <2>4, Stays DEF IInv
  <2>9. res' \in [Reservation -> Row] /\ ResOK'
    BY <1>4, <2>1, NothingRewritten, ResKept DEF IInv
  <2>10. TypeOK'
    BY <1>1, <2>1, <2>7, <2>8, <2>9, SameHistory DEF IInv, TypeOK, chain, HistoryStep
  <2>. QED
    BY <2>1, <2>7, <2>8, <2>9, <2>10 DEF IInv
<1>. QED
  BY <1>1, <1>2, <1>3, <1>4 DEF Record

(* A step that keeps what the tables owe the chain.                        *)
TablesStep ==
  /\ TablesOK' /\ Onward /\ KeepsRecording /\ txs' \in Seq(Tx) /\ Stored' = Stored
  /\ \A r \in Reservation : Charged(r)' = Charged(r)
  /\ pool' \subseteq Stored /\ mined' \subseteq Stored /\ did' \subseteq mined'
  /\ call' \in [Reservation -> {"waiting", "done", "moved"}]

LEMMA Step ==
  ASSUME IInv, TablesStep, suspects' \subseteq Stored, HistoryStep, killed' \in BOOLEAN,
         res' \in [Reservation -> Row], \A r \in Reservation : Kept(r),
         \/ UNCHANGED <<proc, queue>>
         \/ (\E p \in Process : Goes(p)) /\ queue' \in Seq(Relay) /\ QueueOK'
  PROVE  IInv'
<1>1. proc' \in [Process -> Handler] /\ LocalsOK' /\ queue' \in Seq(Relay) /\ QueueOK'
  <2>1. CASE UNCHANGED <<proc, queue>>
    BY <2>1, Rests DEF IInv, TypeOK, TablesStep
  <2>2. CASE (\E p \in Process : Goes(p)) /\ queue' \in Seq(Relay) /\ QueueOK'
    BY <2>2, GoesOn DEF IInv, TablesStep
  <2>. QED
    BY <2>1, <2>2
<1>2. ResOK'
  BY ResKept DEF IInv, TablesStep
<1>3. TypeOK'
  BY <1>1 DEF IInv, TypeOK, TablesStep, Onward, HistoryStep
<1>. QED
  BY <1>1, <1>2, <1>3 DEF IInv, TablesStep

LEMMA PoolChanges ==
  ASSUME IInv, HistoryStep, NEW i \in Stored, Taken(i) \/ pool' \subseteq pool,
         UNCHANGED <<txs, call, next, mined, did>>
  PROVE  TablesStep
<1>1. pool' \subseteq pool \cup {i} /\ (i \in pool' \ pool => ~txs[i].bad /\ ~Low(i))
  BY DEF Taken
<1>2. \A j \in pool' : ~txs[j].bad /\ txs[j].nonce >= next
  BY <1>1, TxType DEF IInv, TypeOK, TablesOK, ChainOK, Low
<1>3. ChainOK'
  BY <1>2 DEF IInv, TablesOK, ChainOK
<1>4. TablesOK'
  BY <1>3
     DEF IInv, TablesOK, StatusOK, OneEach, StuckLast, Stuck, NoHole, Stored, Unsettled,
         HistoryStep, Untraced
<1>5. pool' \subseteq Stored
  BY <1>1 DEF IInv, TypeOK
<1>. QED
  BY <1>4, <1>5, SameTables DEF IInv, TypeOK, TablesStep, Charged, SentFor, Stored

(* A process moves on with its locals.                                     *)
LEMMA MovesTo ==
  ASSUME IInv, NEW p \in Process, NEW at, Move(p, at),
         [proc[p] EXCEPT !.at = at] \in Handler, UNCHANGED queue,
         At(p, "queued") => Holds(p), Holds(p) => at # "idle",
         p \in Relay /\ at \in Sending => Holds(p),
         \A local \in Handler : local = [proc[p] EXCEPT !.at = at] => LocalOK(p, local)
  PROVE  Goes(p) /\ queue' \in Seq(Relay) /\ QueueOK'
<1>1. PICK local \in Handler : local = [proc[p] EXCEPT !.at = at]
  OBVIOUS
<1>2. proc[p] \in Handler /\ local.at = at
  BY <1>1 DEF IInv, TypeOK, Handler
<1>3. Goto(p, local) /\ LocalOK(p, local)
  BY <1>1 DEF Move
<1>. QED
  BY <1>2, <1>3, Stays DEF Goes, IInv

LEMMA Broadcasts ==
  ASSUME IInv, NEW p \in Relay, Broadcast(p)
  PROVE  IInv'
<1>1. /\ p \in Process /\ At(p, "broadcast") /\ Holds(p)
      /\ UNCHANGED <<store, suspects, call, next, mined, did>>
      /\ proc[p] \in Handler /\ LocalOK(p, proc[p]) /\ proc[p].at = "broadcast"
  BY DEF Broadcast, Process, IInv, TypeOK, LocalsOK, At, QueueOK, Sending
<1>2. PICK i \in Stored, r \in Reservation :
        /\ i = proc[p].tx /\ r = proc[p].r /\ proc[p].todo = {} /\ proc[p].latest <= next
        /\ i \in Nat
  BY <1>1 DEF LocalOK, AtTx, Handler
<1>3. HistoryStep
  BY <1>1, Parameters DEF Broadcast, Fails, Counts, Works, history, HistoryStep, IInv, TypeOK
<1>4. TablesStep
  BY <1>1, <1>2, <1>3, PoolChanges DEF Broadcast, store
<1>5. SUFFICES Goes(p) /\ queue' \in Seq(Relay) /\ QueueOK'
  BY <1>1, <1>3, <1>4, Step, NothingRewritten DEF store, IInv, TypeOK
<1>6. CASE Taken(i) /\ Move(p, "ack") /\ UNCHANGED queue
  <2>1. [proc[p] EXCEPT !.at = "ack"] \in Handler
    BY <1>1 DEF Handler
  <2>2. \A local \in Handler : local = [proc[p] EXCEPT !.at = "ack"] => LocalOK(p, local)
    <3>1. SUFFICES ASSUME NEW local \in Handler, local = [proc[p] EXCEPT !.at = "ack"]
                   PROVE  LocalOK(p, local)
      OBVIOUS
    <3>2. /\ local.at = "ack" /\ local.tx = i /\ local.r = r /\ local.todo = {}
          /\ local.latest <= next
      BY <1>1, <1>2, <3>1 DEF Handler
    <3>. QED
      BY <1>6, <3>2, Parameters DEF LocalOK, Taken
  <2>. QED
    BY <1>1, <1>6, <2>1, <2>2, MovesTo DEF At
<1>7. CASE Answer(p)
  BY <1>1, <1>7, AnswerOK DEF IInv
<1>8. CASE Waits(p, r, "reserved", i) /\ queue' = Tail(queue)
  BY <1>1, <1>8, WaitsOK DEF IInv
<1>9. CASE /\ (Low(i) /\ Untraced(i)') \/ (~Low(i) /\ txs[i].bad)
           /\ UNCHANGED queue
           /\ Goto(p, [proc[p] EXCEPT !.at = "forget",
                         !.why = IF Low(i) THEN "dropped" ELSE "rejected"])
  <2>0. PICK why \in {"dropped", "rejected"} : why = IF Low(i) THEN "dropped" ELSE "rejected"
    OBVIOUS
  <2>1. [proc[p] EXCEPT !.at = "forget", !.why = why] \in Handler
    BY <1>1 DEF Handler
  <2>2. PICK local \in Handler : local = [proc[p] EXCEPT !.at = "forget", !.why = why]
    BY <2>1
  <2>4. /\ local.at = "forget" /\ local.tx = i /\ local.r = r /\ local.why = why
        /\ local.todo = {} /\ local.latest <= next
    BY <1>1, <1>2, <2>2 DEF Handler
  <2>5. Goto(p, local)
    BY <1>9, <2>0, <2>2
  <2>3. LocalOK(p, local)'
    BY <1>1, <1>9, <2>0, <2>4, Parameters DEF LocalOK, AtTx, Low, Stored, store
  <2>. QED
    BY <1>1, <1>9, <2>3, <2>4, <2>5, Stays DEF Goes, IInv, At
<1>. QED
  BY <1>1, <1>2, <1>6, <1>7, <1>8, <1>9 DEF Broadcast, Untraced

LEMMA TickTypes ==
  ASSUME IInv
  PROVE  /\ Tick \in Process /\ Tick \notin Relay /\ proc[Tick] \in Handler /\ LocalOK(Tick, proc[Tick])
         /\ ~Holds(Tick) /\ ~At(Tick, "queued")
<1>1. Tick \in Process /\ Tick \notin Relay /\ proc[Tick] \in Handler /\ LocalOK(Tick, proc[Tick])
  BY Parameters DEF Process, IInv, TypeOK, LocalsOK
<1>2. ~Holds(Tick)
  BY Queued, <1>1 DEF IInv
<1>. QED
  BY <1>1, <1>2 DEF LocalOK, At

LEMMA StatusWritten ==
  ASSUME IInv, HistoryStep, NEW i \in Stored, NEW from \in {"signed", "sent"}, NEW status,
         SetStatus(i, status, from), UNCHANGED chain,
         txs[i].status = from =>
           \/ status = "signed"
           \/ status = "sent" /\ (~txs[i].bad \/ Low(i))
           \/ status = "dropped" /\ Low(i) /\ Untraced(i)
           \/ status = "rejected" /\ txs[i].bad
  PROVE  TablesStep
BY SetStatusOK DEF TablesStep, IInv, TypeOK, chain

LEMMA EndsItem ==
  ASSUME IInv, EndItem
  PROVE  Goes(Tick) /\ queue' \in Seq(Relay) /\ QueueOK' /\ killed' \in BOOLEAN
BY TickTypes, AnswerOK DEF EndItem, Kill, IInv, TypeOK

LEMMA Acks ==
  ASSUME IInv, NEW p \in Process, Ack(p)
  PROVE  IInv'
<1>1. /\ At(p, "ack") /\ UNCHANGED <<res, suspects, chain, history>>
      /\ proc[p] \in Handler /\ LocalOK(p, proc[p]) /\ proc[p].at = "ack"
  BY DEF Ack, IInv, TypeOK, LocalsOK, At
<1>2. PICK i \in Stored : i = proc[p].tx /\ (~txs[i].bad \/ Low(i))
  BY <1>1 DEF LocalOK, AtTx
<1>3. TablesStep
  BY <1>1, <1>2, StatusWritten, SameHistory DEF Ack
<1>4. CASE p = Tick
  BY <1>1, <1>3, <1>4, EndsItem, TickTypes, Step, NothingRewritten, SameHistory DEF Ack, IInv, TypeOK
<1>5. CASE p # Tick
  <2>1. p \in Relay /\ proc[p].r \in Reservation /\ Holds(p)
    BY <1>1, <1>5 DEF Process, LocalOK, IInv, QueueOK, Sending
  <2>2. Waits(p, proc[p].r, "reserved", i) /\ UNCHANGED <<queue, killed>>
    BY <1>2, <1>5 DEF Ack
  <2>3. Goes(p) /\ queue' \in Seq(Relay) /\ QueueOK'
    BY <2>1, <2>2, WaitsOK DEF IInv
  <2>. QED
    BY <1>1, <1>3, <2>2, <2>3, Step, NothingRewritten, SameHistory DEF IInv, TypeOK
<1>. QED
  BY <1>4, <1>5

LEMMA Forgets ==
  ASSUME IInv, NEW p \in Process, Forget(p)
  PROVE  IInv'
<1>1. /\ At(p, "forget") /\ UNCHANGED <<suspects, chain, history>>
      /\ proc[p] \in Handler /\ LocalOK(p, proc[p]) /\ proc[p].at = "forget"
  BY DEF Forget, IInv, TypeOK, LocalsOK, At
<1>2. PICK i \in Stored : i = proc[p].tx
  BY <1>1 DEF LocalOK, AtTx
<1>3. PICK from \in {"signed", "sent"} : from = IF p = Tick THEN proc[p].listed ELSE "signed"
  BY <1>1 DEF LocalOK
<1>4. SetStatus(i, proc[p].why, from)
  BY <1>2, <1>3 DEF Forget
<1>5. TablesStep
  BY <1>1, <1>2, <1>4, StatusWritten, SameHistory DEF LocalOK
<1>6. /\ Goes(p) /\ queue' \in Seq(Relay) /\ QueueOK' /\ killed' \in BOOLEAN
      /\ res' \in [Reservation -> Row] /\ \A r \in Reservation : Kept(r)
  <2>1. killed' \in BOOLEAN
    BY DEF Forget, Kill, IInv, TypeOK
  <2>2. CASE p = Tick
    <3>1. Answer(p) /\ UNCHANGED res
      BY <2>2 DEF Forget
    <3>. QED
      BY <2>1, <2>2, <3>1, TickTypes, AnswerOK, NothingRewritten DEF IInv
  <2>3. CASE p # Tick
    <3>1. p \in Relay /\ proc[p].r \in Reservation /\ Holds(p)
      BY <1>1, <2>3 DEF Process, LocalOK, IInv, QueueOK, Sending
    <3>2. CASE RefuseQueued(p)
      BY <2>1, <3>1, <3>2, RefuseOK
    <3>3. CASE Waits(p, proc[p].r, "reserved", i) /\ queue' = Tail(queue) /\ UNCHANGED res
      BY <2>1, <3>1, <3>3, WaitsOK, NothingRewritten DEF IInv
    <3>. QED
      BY <1>2, <2>3, <3>2, <3>3 DEF Forget
  <2>. QED
    BY <2>2, <2>3
<1>. QED
  BY <1>1, <1>5, <1>6, Step, SameHistory DEF IInv, TypeOK

LEMMA UntouchedStep ==
  ASSUME IInv, HistoryStep, UNCHANGED <<txs, chain>>
  PROVE  TablesStep
BY Untouched DEF TablesStep, IInv, TypeOK, chain

LEMMA Settles ==
  ASSUME IInv, NEW p \in Process, Settle(p)
  PROVE  IInv'
<1>1. /\ At(p, "poll") /\ UNCHANGED <<killed, suspects, chain, history>>
      /\ proc[p] \in Handler /\ LocalOK(p, proc[p]) /\ proc[p].at = "poll"
  BY DEF Settle, IInv, TypeOK, LocalsOK, At
<1>2. PICK i \in Stored, r \in Reservation :
        i = proc[p].tx /\ r = txs[i].for /\ i \in mined /\ (Proved(i) => call[r] = "done")
  <2>1. proc[p].tx \in Stored /\ proc[p].tx \in mined
    BY <1>1 DEF LocalOK, AtTx, Settle
  <2>. QED
    BY <2>1, TxType DEF IInv, TablesOK, ChainOK, Proved
<1>3. Goes(p) /\ queue' \in Seq(Relay) /\ QueueOK'
  <2>1. CASE Answer(p)
    BY <1>1, <2>1, AnswerOK DEF IInv, At
  <2>2. CASE /\ call[r] = "done" /\ UNCHANGED queue
             /\ Goto(p, [proc[p] EXCEPT !.at = "used", !.r = r, !.seen = "none"])
    <3>1. [proc[p] EXCEPT !.at = "used", !.r = r, !.seen = "none"] \in Handler
      BY <1>1 DEF Handler
    <3>2. PICK local \in Handler : local = [proc[p] EXCEPT !.at = "used", !.r = r, !.seen = "none"]
      BY <3>1
    <3>3. /\ local.at = "used" /\ local.r = r /\ local.todo = proc[p].todo
          /\ local.latest = proc[p].latest
      BY <1>1, <3>2 DEF Handler
    <3>4. LocalOK(p, local)
      BY <1>1, <2>2, <3>3, Parameters DEF LocalOK, AtTx
    <3>5. Goto(p, local)
      BY <2>2, <3>2
    <3>. QED
      BY <1>1, <2>2, <3>3, <3>4, <3>5, Stays DEF Goes, IInv, Sending, At
  <2>. QED
    BY <1>2, <2>1, <2>2 DEF Settle
<1>4. CASE txs[i].costed
  <2>1. UNCHANGED <<txs, res>>
    BY <1>2, <1>4 DEF Settle
  <2>. QED
    BY <1>1, <1>3, <2>1, UntouchedStep, Step, NothingRewritten, SameHistory DEF IInv, TypeOK
<1>5. CASE ~txs[i].costed
  <2>1. PICK row : row = [txs[i] EXCEPT !.costed = TRUE,
                                        !.status = IF Proved(i) THEN "confirmed" ELSE "reverted"]
    OBVIOUS
  <2>2. /\ row \in Tx /\ row.for = r /\ row.nonce = txs[i].nonce /\ row.bad = txs[i].bad
        /\ SettledNow(i, row)
    <3>1. PICK status \in {"confirmed", "reverted"} :
            status = IF Proved(i) THEN "confirmed" ELSE "reverted"
      OBVIOUS
    <3>2. /\ row = [txs[i] EXCEPT !.costed = TRUE, !.status = status] /\ txs[i] \in Tx
      BY <2>1, <3>1, TxType DEF IInv
    <3>. QED
      BY <1>2, <3>1, <3>2 DEF Tx, TxStatus, SettledNow, Proved
  <2>3. txs' = [txs EXCEPT ![i] = row] /\ res' = [res EXCEPT ![r].cost = @ + 1]
    <3>1. txs[i] \in Tx /\ txs \in Seq(Tx) /\ i \in DOMAIN txs
      BY TxType DEF IInv, TypeOK, Stored
    <3>2. /\ txs' = [txs EXCEPT ![i].costed = TRUE,
                                ![i].status = IF Proved(i) THEN "confirmed" ELSE "reverted"]
          /\ res' = [res EXCEPT ![r].cost = @ + 1]
      BY <1>2, <1>5 DEF Settle
    <3>. QED
      BY <2>1, <3>1, <3>2
  <2>4. txs[i].status \notin {"confirmed", "reverted"}
    BY <1>5 DEF IInv, TablesOK, StatusOK
  <2>5. txs' \in Seq(Tx) /\ Stored' = Stored /\ TablesOK' /\ Onward /\ KeepsRecording
    BY <1>1, <1>2, <2>2, <2>3, RowRewritten, SameHistory DEF IInv, Rewritten, chain
  <2>6. \A s \in Reservation :
          Cardinality(Charged(s)') = Cardinality(Charged(s)) + IF s = r THEN 1 ELSE 0
    BY <1>2, <2>2, <2>3, <2>4, ChargedOneMore DEF IInv
  <2>7. /\ res' \in [Reservation -> Row]
        /\ \A s \in Reservation : /\ res'[s].status = res[s].status
                                  /\ res'[s].cost = res[s].cost + IF s = r THEN 1 ELSE 0
    <3>1. res \in [Reservation -> Row] /\ \A s \in Reservation : res[s] \in Row /\ res[s].cost \in Nat
      BY DEF IInv, TypeOK, Row
    <3>2. \A s \in Reservation : [res[s] EXCEPT !.cost = @ + 1] \in Row
      BY <3>1 DEF Row
    <3>3. \A s \in Reservation : res'[s] = IF s = r THEN [res[s] EXCEPT !.cost = @ + 1] ELSE res[s]
      BY <2>3, <3>1
    <3>4. res' \in [Reservation -> Row]
      BY <2>3, <3>1, <3>2
    <3>5. \A s \in Reservation : res'[s].status = res[s].status
      BY <3>1, <3>3 DEF Row
    <3>6. ASSUME NEW s \in Reservation
          PROVE  res'[s].cost = res[s].cost + IF s = r THEN 1 ELSE 0
      <4>1. CASE s = r
        <5>1. res'[s].cost = res[s].cost + 1
          BY <3>1, <3>3, <4>1 DEF Row
        <5>. QED
          BY <4>1, <5>1
      <4>2. CASE s # r
        <5>1. res'[s] = res[s]
          BY <3>3, <4>2
        <5>2. res[s].cost = res[s].cost + 0
          BY <3>1
        <5>. QED
          BY <4>2, <5>1, <5>2
      <4>. QED
        BY <4>1, <4>2
    <3>. QED
      BY <3>4, <3>5, <3>6
  <2>8. ResOK'
    <3>1. \A s \in Reservation : res'[s].cost = Cardinality(Charged(s)')
      BY <2>6, <2>7 DEF IInv, ResOK
    <3>2. UNCHANGED call
      BY <1>1 DEF chain
    <3>3. UsedMeansDone'
      BY <2>7, <3>2 DEF IInv, ResOK, UsedMeansDone
    <3>. QED
      BY <3>1, <3>3 DEF ResOK
  <2>9. proc' \in [Process -> Handler] /\ LocalsOK'
    BY <1>3, <2>5, GoesOn DEF IInv
  <2>10. TypeOK'
    BY <1>1, <1>3, <2>5, <2>7, <2>9, SameHistory DEF IInv, TypeOK, chain, HistoryStep
  <2>. QED
    BY <1>3, <2>5, <2>8, <2>9, <2>10 DEF IInv
<1>. QED
  BY <1>4, <1>5

LEMMA Timeouts ==
  ASSUME IInv, NEW p \in Process, Timeout(p)
  PROVE  IInv'
<1>1. UNCHANGED <<store, suspects, chain, history>> /\ UNCHANGED <<res, txs, killed>>
  BY DEF Timeout, store
<1>2. Goes(p) /\ queue' \in Seq(Relay) /\ QueueOK'
  BY AnswerOK DEF Timeout, IInv, At
<1>. QED
  BY <1>1, <1>2, ProcessStep, NothingRewritten, SameHistory DEF IInv, TypeOK

LEMMA Uses ==
  ASSUME IInv, NEW p \in Process, Used(p)
  PROVE  IInv'
<1>1. UNCHANGED <<txs, killed, suspects, chain, history>> /\ proc[p].at = "used" /\ LocalOK(p, proc[p])
  BY DEF Used, At, IInv, LocalsOK
<1>2. Goes(p) /\ queue' \in Seq(Relay) /\ QueueOK'
  BY AnswerOK DEF Used, IInv, At
<1>3. PICK r \in Reservation : r = proc[p].r /\ call[r] = "done"
  BY <1>1 DEF LocalOK
<1>4. res' = [res EXCEPT ![r].status = "used"]
  BY <1>3 DEF Used, MarkUsed
<1>5. res' \in [Reservation -> Row] /\ \A s \in Reservation : Kept(s)
  BY <1>3, <1>4, Rewrites DEF IInv
<1>. QED
  BY <1>1, <1>2, <1>5, ProcessStep, SameHistory DEF IInv, TypeOK

LEMMA StatusReads ==
  ASSUME IInv, NEW p \in Relay, NEW r \in Reservation, Status(p, r)
  PROVE  IInv'
<1>1. /\ p \in Process /\ At(p, "idle") /\ res[r].status \in {"none", "reserved", "used", "released", "expired"}
      /\ UNCHANGED <<store, queue, suspects, chain, history>> /\ UNCHANGED <<res, txs, killed>>
  BY DEF Status, Process, store, IInv, TypeOK, Row
<1>2. SUFFICES Goes(p) /\ queue' \in Seq(Relay) /\ QueueOK'
  BY <1>1, ProcessStep, NothingRewritten, SameHistory DEF IInv, TypeOK
<1>3. ASSUME NEW i \in Stored, Waits(p, r, res[r].status, i)
      PROVE  Goes(p) /\ queue' \in Seq(Relay) /\ QueueOK'
  BY <1>1, <1>3, WaitsOK DEF IInv, At
<1>4. CASE Goto(p, [Idle EXCEPT !.at = "used", !.r = r]) /\ call[r] = "done"
  <2>1. [Idle EXCEPT !.at = "used", !.r = r] \in Handler
    BY IdleType DEF Handler, Idle
  <2>2. PICK local \in Handler :
          /\ Goto(p, local) /\ local.at = "used" /\ local.r = r /\ local.todo = {}
          /\ local.latest = 0
    BY <1>4, <2>1 DEF Idle
  <2>3. LocalOK(p, local)
    BY <1>4, <2>2, Parameters DEF LocalOK, AtTx, IInv, TypeOK
  <2>. QED
    BY <1>1, <2>2, <2>3, Stays DEF Goes, IInv, Sending, At
<1>. QED
  BY <1>3, <1>4 DEF Status, Out, SentFor

-----------------------------------------------------------------------------
(* The pass *)

LEMMA PassStarts ==
  ASSUME IInv, StartPass
  PROVE  IInv'
<1>1. /\ UNCHANGED <<store, queue, suspects, chain, history>> /\ UNCHANGED <<res, txs, killed>>
      /\ next \in Nat
  BY DEF StartPass, store, IInv, TypeOK
<1>2. \A item \in UnsettledTxs : item \in Item /\ item.tx \in Stored
  BY DEF UnsettledTxs, Item, Stored, Unsettled, IInv, TypeOK
<1>3. PICK local \in Handler : Goto(Tick, local) /\ LocalOK(Tick, local) /\ local.at \in {"idle", "look"}
  <2>1. CASE Goto(Tick, Idle)
    BY <1>1, <2>1, IdleType, TickTypes DEF Idle
  <2>2. ASSUME NEW item \in UnsettledTxs,
               Goto(Tick, [Idle EXCEPT !.at = "look", !.tx = item.tx, !.listed = item.seen,
                                       !.todo = UnsettledTxs \ {item}, !.latest = next])
        PROVE  \E local \in Handler :
                 Goto(Tick, local) /\ LocalOK(Tick, local) /\ local.at \in {"idle", "look"}
    <3>1. /\ item.tx \in Nat /\ item.seen \in {"signed", "sent"}
          /\ UnsettledTxs \ {item} \in SUBSET Item
      BY <1>2 DEF Item
    <3>2. PICK todo \in SUBSET Item : todo = UnsettledTxs \ {item}
      BY <3>1
    <3>3. [Idle EXCEPT !.at = "look", !.tx = item.tx, !.listed = item.seen, !.todo = todo,
                       !.latest = next] \in Handler
      BY <1>1, <3>1, IdleType DEF Handler, Idle
    <3>4. PICK local \in Handler :
            /\ Goto(Tick, local) /\ local.at = "look" /\ local.tx = item.tx
            /\ local.listed = item.seen /\ local.todo = todo /\ local.latest = next
      BY <2>2, <3>2, <3>3 DEF Idle
    <3>5. LocalOK(Tick, local)
      BY <1>1, <1>2, <3>1, <3>2, <3>4, TickTypes DEF LocalOK, AtTx
    <3>. QED
      BY <3>4, <3>5
  <2>. QED
    BY <2>1, <2>2 DEF StartPass, LookAtNext
<1>4. queue' \in Seq(Relay) /\ QueueOK'
  BY <1>1, <1>3, Stays, TickTypes DEF IInv
<1>. QED
  BY <1>1, <1>3, <1>4, ProcessStep, NothingRewritten, TickTypes, SameHistory DEF Goes, IInv, TypeOK

LEMMA Looks ==
  ASSUME IInv, Look
  PROVE  IInv'
<1>1. /\ UNCHANGED <<res, txs, killed, chain>> /\ proc[Tick].at = "look" /\ next \in Nat
      /\ suspects \subseteq Stored
  BY DEF Look, store, At, IInv, TypeOK
<1>2. PICK i \in Stored : i = proc[Tick].tx
  BY <1>1, TickTypes DEF LocalOK, AtTx
<1>3. HistoryStep
  BY Parameters DEF Look, Fails, Counts, Works, history, HistoryStep, chain, IInv, TypeOK
<1>4. suspects' \subseteq Stored
  BY <1>1, <1>2 DEF Look
<1>5. SUFFICES Goes(Tick) /\ queue' \in Seq(Relay) /\ QueueOK'
  BY <1>1, <1>3, <1>4, ProcessStep, NothingRewritten, TickTypes
<1>6. CASE Answer(Tick)
  BY <1>6, AnswerOK, TickTypes DEF IInv
<1>7. ASSUME NEW at \in {"poll", "resend"}, NEW seen \in {"none", "reserved", "used", "released", "expired"},
             Goto(Tick, [proc[Tick] EXCEPT !.at = at, !.seen = seen]), UNCHANGED queue
      PROVE  Goes(Tick) /\ queue' \in Seq(Relay) /\ QueueOK'
  <2>1. [proc[Tick] EXCEPT !.at = at, !.seen = seen] \in Handler
    BY ZenonT(60), TickTypes DEF Handler
  <2>2. PICK local \in Handler : local = [proc[Tick] EXCEPT !.at = at, !.seen = seen]
    BY <2>1
  <2>3. /\ local.at = at /\ local.tx = i /\ local.listed = proc[Tick].listed
        /\ local.todo = proc[Tick].todo /\ local.latest = proc[Tick].latest
    BY <1>2, <2>2, TickTypes DEF Handler
  <2>4. LocalOK(Tick, local)
    BY <1>1, <2>3, TickTypes DEF LocalOK, AtTx
  <2>. QED
    BY <1>7, <2>2, <2>3, <2>4, Stays, TickTypes DEF Goes, IInv
<1>8. CASE /\ Goto(Tick, [proc[Tick] EXCEPT !.at = "forget", !.why = "dropped"])
           /\ Low(i) /\ Untraced(i) /\ UNCHANGED queue
  <2>1. [proc[Tick] EXCEPT !.at = "forget", !.why = "dropped"] \in Handler
    BY TickTypes DEF Handler
  <2>2. PICK local \in Handler : local = [proc[Tick] EXCEPT !.at = "forget", !.why = "dropped"]
    BY <2>1
  <2>3. /\ local.at = "forget" /\ local.tx = i /\ local.listed = proc[Tick].listed
        /\ local.todo = proc[Tick].todo /\ local.latest = proc[Tick].latest /\ local.why = "dropped"
    BY <1>2, <2>2, TickTypes DEF Handler
  <2>4. LocalOK(Tick, local)
    BY <1>1, <1>8, <2>3, TickTypes DEF LocalOK, AtTx
  <2>. QED
    BY <1>8, <2>2, <2>3, <2>4, Stays, TickTypes DEF Goes, IInv
<1>9. txs[i].nonce >= proc[Tick].latest \/ Low(i)
  BY <1>1, TxType, TickTypes DEF Low, LocalOK, Handler, IInv
<1>11. CASE Move(Tick, "resend") /\ UNCHANGED queue
  <2>1. [proc[Tick] EXCEPT !.at = "resend"] \in Handler
    BY TickTypes DEF Handler
  <2>2. \A local \in Handler : local = [proc[Tick] EXCEPT !.at = "resend"] => LocalOK(Tick, local)
    <3>1. SUFFICES ASSUME NEW local \in Handler, local = [proc[Tick] EXCEPT !.at = "resend"]
                   PROVE  LocalOK(Tick, local)
      OBVIOUS
    <3>2. /\ local.at = "resend" /\ local.tx = i /\ local.listed = proc[Tick].listed
          /\ local.todo = proc[Tick].todo /\ local.latest = proc[Tick].latest
      BY <1>2, <3>1, TickTypes DEF Handler
    <3>. QED
      BY <1>1, <3>2, TickTypes DEF LocalOK, AtTx
  <2>. QED
    BY <1>11, <2>1, <2>2, MovesTo, TickTypes
<1>12. CASE /\ Goto(Tick, [proc[Tick] EXCEPT !.at = "poll", !.seen = res[txs[i].for].status])
            /\ UNCHANGED queue
  <2>1. res[txs[i].for].status \in {"none", "reserved", "used", "released", "expired"}
    BY TxType DEF IInv, TypeOK, Row
  <2>. QED
    BY <1>7, <1>12, <2>1
<1>. QED
  BY <1>2, <1>6, <1>8, <1>9, <1>11, <1>12 DEF Look, LostBefore, Untraced

LEMMA Resends ==
  ASSUME IInv, Resend
  PROVE  IInv'
<1>1. /\ UNCHANGED <<res, txs, suspects, call, next, mined, did>> /\ proc[Tick].at = "resend"
      /\ suspects \subseteq Stored
  BY DEF Resend, At, IInv, TypeOK
<1>2. PICK i \in Stored : i = proc[Tick].tx
  BY <1>1, TickTypes DEF LocalOK, AtTx
<1>3. HistoryStep
  BY Parameters DEF Resend, Fails, Counts, Works, history, HistoryStep, chain, IInv, TypeOK
<1>4. TablesStep
  BY <1>1, <1>2, PoolChanges, <1>3 DEF Resend
<1>5. SUFFICES Goes(Tick) /\ queue' \in Seq(Relay) /\ QueueOK' /\ killed' \in BOOLEAN
  BY <1>1, <1>3, <1>4, Step, NothingRewritten, TickTypes
<1>6. ASSUME NEW at \in {"ack", "unack"}, Move(Tick, at), UNCHANGED <<queue, killed>>,
             at = "ack" => ~txs[i].bad \/ Low(i)
      PROVE  Goes(Tick) /\ queue' \in Seq(Relay) /\ QueueOK' /\ killed' \in BOOLEAN
  <2>1. [proc[Tick] EXCEPT !.at = at] \in Handler
    BY TickTypes DEF Handler
  <2>2. ASSUME NEW local \in Handler, local = [proc[Tick] EXCEPT !.at = at]
        PROVE  LocalOK(Tick, local)
    <3>1. /\ local.at = at /\ local.tx = i /\ local.todo = proc[Tick].todo
          /\ local.latest = proc[Tick].latest
      BY <1>2, <2>2, TickTypes DEF Handler
    <3>. QED
      BY <1>6, <3>1, TickTypes DEF LocalOK, AtTx
  <2>. QED
    BY <1>6, <2>1, <2>2, MovesTo, TickTypes DEF IInv, TypeOK
<1>7. CASE EndItem
  BY <1>7, EndsItem
<1>8. CASE Move(Tick, "ack") /\ UNCHANGED <<queue, killed>> /\ (Taken(i) \/ Low(i))
  BY <1>6, <1>8 DEF Taken
<1>9. CASE Move(Tick, "unack") /\ UNCHANGED <<queue, killed>>
  BY <1>6, <1>9
<1>. QED
  BY <1>2, <1>7, <1>8, <1>9 DEF Resend

LEMMA Unacks ==
  ASSUME IInv, Unack
  PROVE  IInv'
<1>1. UNCHANGED <<res, suspects, chain, history>> /\ proc[Tick].at = "unack"
  BY DEF Unack, At
<1>2. PICK i \in Stored : i = proc[Tick].tx
  BY <1>1, TickTypes DEF LocalOK, AtTx
<1>3. TablesStep
  BY <1>1, <1>2, StatusWritten, SameHistory DEF Unack
<1>4. Goes(Tick) /\ queue' \in Seq(Relay) /\ QueueOK' /\ killed' \in BOOLEAN
  BY EndsItem DEF Unack
<1>. QED
  BY <1>1, <1>3, <1>4, Step, NothingRewritten, TickTypes, SameHistory DEF IInv, TypeOK

LEMMA Sweeps ==
  ASSUME IInv, NEW r \in Reservation, Sweep(r)
  PROVE  IInv'
<1>1. /\ UNCHANGED <<store, queue, suspects, chain, history>> /\ UNCHANGED <<res, txs, killed>>
      /\ next \in Nat
  BY DEF Sweep, store, IInv, TypeOK
<1>2. PICK why \in {"released", "expired"} :
        Goto(Tick, [Idle EXCEPT !.at = "sweep", !.r = r, !.why = why])
  BY DEF Sweep
<1>3. [Idle EXCEPT !.at = "sweep", !.r = r, !.why = why] \in Handler
  BY IdleType DEF Handler, Idle
<1>4. PICK local \in Handler :
        /\ Goto(Tick, local) /\ local.at = "sweep" /\ local.r = r /\ local.why = why
        /\ local.todo = {} /\ local.latest = 0
  BY <1>2, <1>3 DEF Idle
<1>5. LocalOK(Tick, local)
  BY <1>1, <1>4, TickTypes DEF LocalOK, AtTx
<1>6. queue' \in Seq(Relay) /\ QueueOK'
  BY <1>1, <1>4, Stays, TickTypes DEF IInv
<1>. QED
  BY <1>1, <1>4, <1>5, <1>6, ProcessStep, NothingRewritten, TickTypes, SameHistory
     DEF Goes, IInv, TypeOK

LEMMA ClosesSwept ==
  ASSUME IInv, CloseSwept
  PROVE  IInv'
<1>1. UNCHANGED <<txs, killed, suspects, chain, history>> /\ proc[Tick].at = "sweep"
  BY DEF CloseSwept, At
<1>2. proc[Tick].r \in Reservation /\ proc[Tick].why \in {"released", "expired"}
  BY <1>1, TickTypes DEF LocalOK
<1>3. res' \in [Reservation -> Row] /\ \A s \in Reservation : Kept(s)
  BY <1>2, Closes DEF CloseSwept, IInv
<1>4. Goes(Tick) /\ queue' \in Seq(Relay) /\ QueueOK'
  BY AnswerOK, TickTypes DEF CloseSwept, IInv
<1>. QED
  BY <1>1, <1>3, <1>4, ProcessStep, TickTypes, SameHistory DEF IInv, TypeOK

-----------------------------------------------------------------------------
(* The chain, the operator, faults *)

(* The next nonce is passed, by the pool's transaction at it or another's. *)
LEMMA NoncePassed ==
  ASSUME IInv, HistoryStep, NEW i \in Stored, txs[i].nonce = next, txs[i].status # "rejected",
         next' = next + 1, pool' = pool \ {i}, UNCHANGED txs,
         \/ UNCHANGED <<mined, did, call>>
         \/ /\ i \in pool /\ mined' = mined \cup {i}
            /\ \/ UNCHANGED <<did, call>>
               \/ did' = did \cup {i} /\ call' = [call EXCEPT ![txs[i].for] = "done"]
  PROVE  TablesStep
<1>1. /\ next \in Nat /\ next' = next + 1 /\ Stored' = Stored /\ txs' = txs
      /\ pool \subseteq Stored /\ mined \subseteq Stored /\ did \subseteq mined
      /\ \A j \in Stored : txs[j].nonce \in Nat /\ txs[j].status \in TxStatus /\ txs[j].for \in Reservation
      /\ call \in [Reservation -> {"waiting", "done", "moved"}]
  BY TxType DEF IInv, TypeOK, Stored
<1>2. /\ pool' = pool \ {i} /\ mined \subseteq mined' /\ mined' \subseteq mined \cup {i}
      /\ did \subseteq did' /\ did' \subseteq did \cup {i} /\ did' \subseteq mined'
      /\ i \in did' \ did => i \in pool /\ i \in mined' /\ call'[txs[i].for] = "done"
      /\ i \in mined' \ mined => i \in pool
      /\ call' \in [Reservation -> {"waiting", "done", "moved"}]
      /\ \A r \in Reservation : call[r] = "done" => call'[r] = "done"
  BY <1>1
<1>3. \A j \in Stored : Unsettled(j)' <=> Unsettled(j)
  BY <1>1 DEF Unsettled
<1>4. ChainOK'
  <2>1. \A j \in pool' : ~txs[j].bad /\ txs[j].nonce >= next + 1
    <3>1. SUFFICES ASSUME NEW j \in pool, j # i PROVE ~txs[j].bad /\ txs[j].nonce >= next + 1
      BY <1>2
    <3>2. Unsettled(j) /\ ~txs[j].bad /\ txs[j].nonce >= next
      BY PoolUnsettled DEF IInv, TablesOK, ChainOK
    <3>3. txs[j].nonce # next
      BY <1>1, <3>1, <3>2 DEF IInv, TablesOK, OneEach, Unsettled
    <3>. QED
      BY <1>1, <3>2, <3>3
  <2>2. \A j \in mined' : ~txs[j].bad /\ txs[j].nonce < next + 1
    BY <1>1, <1>2 DEF IInv, TablesOK, ChainOK
  <2>3. \A j \in did' : call'[txs[j].for] = "done"
    BY <1>1, <1>2 DEF IInv, TablesOK, ChainOK
  <2>. QED
    BY <1>1, <2>1, <2>2, <2>3 DEF ChainOK
<1>5. StatusOK'
  <2>1. ASSUME NEW j \in Stored
        PROVE  /\ txs[j].costed <=> txs[j].status \in {"confirmed", "reverted"}
               /\ txs[j].status = "confirmed" => j \in did'
               /\ txs[j].status = "reverted" => j \in mined' \ did'
               /\ txs[j].status = "dropped" => txs[j].nonce < next + 1 /\ Untraced(j)'
               /\ txs[j].status = "rejected" => txs[j].bad
    <3>1. j \in pool => Unsettled(j)
      BY PoolUnsettled DEF IInv
    <3>. QED
      BY <1>1, <1>2, <3>1 DEF IInv, TablesOK, StatusOK, Unsettled, HistoryStep, Untraced
  <2>. QED
    BY <1>1, <2>1 DEF StatusOK
<1>6. OneEach'
  BY <1>1, <1>3 DEF OneEach, IInv, TablesOK
<1>7. \A j \in Stored : Stuck(j)' => Stuck(j)
  BY <1>1, <1>3 DEF Stuck
<1>8. StuckLast'
  BY <1>1, <1>3, <1>7 DEF StuckLast, IInv, TablesOK
<1>9. NoHole'
  BY <1>1, <1>3 DEF NoHole, IInv, TablesOK
<1>10. Onward
  BY <1>1, <1>2 DEF Onward, Low, IInv, TablesOK, ChainOK, HistoryStep, Untraced
<1>11. KeepsRecording
  <2>1. SUFFICES ASSUME NEW r \in Reservation, NEW n \in Nat, Recording(r, n)
                 PROVE  Recording(r, n)'
    BY DEF KeepsRecording
  <2>2. Covered(n)'
    BY <1>1, <1>3, <2>1 DEF Recording, Covered
  <2>3. Out(r)' = {}
    BY <1>1, <1>3, <2>1 DEF Recording, Out, SentFor
  <2>. QED
    BY <1>1, <1>7, <2>1, <2>2, <2>3 DEF Recording, NoncesKept
<1>12. \A r \in Reservation : Charged(r)' = Charged(r)
  BY <1>1 DEF Charged, SentFor
<1>13. TablesOK' /\ pool' \subseteq Stored /\ mined' \subseteq Stored /\ txs' \in Seq(Tx)
  BY <1>1, <1>2, <1>4, <1>5, <1>6, <1>8, <1>9 DEF TablesOK, IInv, TypeOK
<1>. QED
  BY <1>1, <1>2, <1>10, <1>11, <1>12, <1>13 DEF TablesStep

LEMMA CallMoves ==
  ASSUME IInv, HistoryStep, NEW r \in Reservation, NEW status \in {"done", "moved"}, call[r] = "waiting",
         call' = [call EXCEPT ![r] = status], UNCHANGED <<txs, next, pool, mined, did>>
  PROVE  TablesStep
<1>1. /\ call' \in [Reservation -> {"waiting", "done", "moved"}]
      /\ \A s \in Reservation : call[s] = "done" => call'[s] = "done"
  BY DEF IInv, TypeOK
<1>2. Stored' = Stored /\ \A i \in Stored : txs[i].for \in Reservation
  BY TxType DEF IInv, Stored
<1>3. ChainOK'
  BY <1>1, <1>2 DEF ChainOK, IInv, TablesOK, TypeOK
<1>4. TablesOK'
  BY <1>3
     DEF IInv, TablesOK, StatusOK, OneEach, StuckLast, Stuck, NoHole, Stored, Unsettled,
         HistoryStep, Untraced
<1>5. Onward
  BY <1>1, <1>2 DEF Onward, IInv, TypeOK, HistoryStep, Untraced
<1>6. KeepsRecording
  BY DEF KeepsRecording, Recording, Out, SentFor, Stored, Unsettled, Covered, NoncesKept, Stuck
<1>. QED
  BY <1>1, <1>2, <1>4, <1>5, <1>6 DEF TablesStep, Charged, SentFor, IInv, TypeOK

LEMMA ChainMoves ==
  ASSUME IInv,
         \/ \E i \in Stored : Mine(i) \/ Evict(i) \/ FillNonce(i)
         \/ \E r \in Reservation : LandedElsewhere(r) \/ TaskMoves(r)
  PROVE  IInv'
<1>1. /\ UNCHANGED <<res, txs, killed, queue, proc, suspects>> /\ HistoryStep
      /\ suspects' \subseteq Stored /\ killed' \in BOOLEAN
  BY Parameters
     DEF Mine, Evict, FillNonce, LandedElsewhere, TaskMoves, Fails, Counts, history,
         HistoryStep, store, memory,
                    IInv, TypeOK
<1>2. TablesStep
  <2>1. ASSUME NEW i \in Stored, Mine(i) PROVE TablesStep
    <3>1. txs[i].status # "rejected"
      BY <2>1, PoolUnsettled DEF Mine, Unsettled, IInv
    <3>. QED
      BY <1>1, <2>1, <3>1, NoncePassed DEF Mine
  <2>2. ASSUME NEW i \in Stored, FillNonce(i) PROVE TablesStep
    <3>1. txs[i].status # "rejected"
      BY <2>2 DEF FillNonce, Unsettled
    <3>. QED
      BY <1>1, <2>2, <3>1, NoncePassed DEF FillNonce
  <2>3. ASSUME NEW i \in Stored, Evict(i) PROVE TablesStep
    BY <1>1, <2>3, PoolChanges DEF Evict
  <2>4. ASSUME NEW r \in Reservation, LandedElsewhere(r) \/ TaskMoves(r) PROVE TablesStep
    BY <1>1, <2>4, CallMoves DEF LandedElsewhere, TaskMoves
  <2>. QED
    BY <2>1, <2>2, <2>3, <2>4
<1>. QED
  BY <1>1, <1>2, Step, NothingRewritten

LEMMA OperatorSets ==
  ASSUME IInv, NEW kill \in BOOLEAN, SetKilled(kill)
  PROVE  IInv'
<1>1. /\ UNCHANGED <<res, txs, queue, proc, suspects, chain>> /\ HistoryStep
      /\ killed' \in BOOLEAN /\ suspects' \subseteq Stored
  BY Parameters DEF SetKilled, Fails, Counts, HistoryStep, memory, chain, IInv, TypeOK
<1>. QED
  BY <1>1, UntouchedStep, Step, NothingRewritten

LEMMA Crashes ==
  ASSUME IInv, Crash
  PROVE  IInv'
<1>1. /\ UNCHANGED <<res, txs, killed, chain>> /\ HistoryStep
      /\ proc' = [p \in Process |-> Idle] /\ queue' = <<>> /\ suspects' = {}
  BY Parameters DEF Crash, Fails, Counts, HistoryStep, store, chain, IInv, TypeOK
<1>2. TablesStep
  BY <1>1, UntouchedStep
<1>3. LocalsOK'
  <2>1. SUFFICES ASSUME NEW p \in Process PROVE LocalOK(p, proc[p])'
    BY DEF LocalsOK
  <2>2. proc'[p] = Idle
    BY <1>1
  <2>. QED
    BY <1>1, <2>2, Parameters DEF LocalOK, Idle, AtTx, chain, IInv, TypeOK
<1>4. QueueOK'
  BY <1>1 DEF QueueOK, Sending, Process, Idle
<1>5. ResOK'
  BY <1>1, <1>2, NothingRewritten, ResKept DEF IInv, TablesStep
<1>6. TypeOK'
  BY <1>1, <1>2, IdleType DEF IInv, TypeOK, TablesStep, Onward, HistoryStep
<1>. QED
  BY <1>2, <1>3, <1>4, <1>5, <1>6 DEF IInv, TablesStep

-----------------------------------------------------------------------------
(* The invariant *)

LEMMA Starts == Init => IInv
<1>. SUFFICES ASSUME Init PROVE IInv
  OBVIOUS
<1>1. /\ Stored = {} /\ next = 0 /\ txs = <<>> /\ queue = <<>> /\ pool = {} /\ mined = {} /\ did = {}
      /\ proc = [p \in Process |-> Idle]
  BY DEF Init, Stored
<1>2. TypeOK
  <2>1. [status |-> "none", cost |-> 0] \in Row
    BY DEF Row
  <2>2. proc \in [Process -> Handler]
    BY <1>1, IdleType
  <2>3. res \in [Reservation -> Row] /\ call \in [Reservation -> {"waiting", "done", "moved"}]
    BY <2>1 DEF Init
  <2>4. txs \in Seq(Tx) /\ queue \in Seq(Relay) /\ faults \in 0 .. MaxFaults /\ hUnseen = {}
    BY <1>1, Parameters DEF Init
  <2>5. killed \in BOOLEAN /\ next \in Nat /\ suspects = {}
    BY DEF Init
  <2>. QED
    BY <1>1, <2>2, <2>3, <2>4, <2>5 DEF TypeOK
<1>3. TablesOK
  BY <1>1 DEF TablesOK, ChainOK, StatusOK, OneEach, StuckLast, NoHole
<1>4. ResOK
  <2>1. \A r : Charged(r) = {}
    BY <1>1 DEF Charged, SentFor
  <2>. QED
    BY <2>1, FS_EmptySet DEF Init, ResOK, UsedMeansDone
<1>5. LocalsOK
  BY <1>1, IdleType DEF LocalsOK
<1>6. QueueOK
  BY <1>1 DEF QueueOK, Sending, Process, Idle
<1>. QED
  BY <1>2, <1>3, <1>4, <1>5, <1>6 DEF IInv

LEMMA Inductive == IInv /\ [Next]_vars => IInv'
<1>. SUFFICES ASSUME IInv, [Next]_vars PROVE IInv'
  OBVIOUS
<1>1. CASE UNCHANGED vars
  <2>1. UNCHANGED <<res, txs, killed, queue, proc, suspects, chain, history>>
    BY <1>1 DEF vars, store, memory
  <2>2. /\ suspects' \subseteq Stored /\ HistoryStep /\ killed' \in BOOLEAN
    BY <2>1, SameHistory DEF IInv, TypeOK
  <2>. QED
    BY <2>1, <2>2, UntouchedStep, Step, NothingRewritten
<1>2. ASSUME NEW r \in Reservation,
             \/ AcceptReserve(r) \/ AcceptGivesBack(r) \/ Sweep(r)
             \/ \E p \in Relay : Ask(p, r) \/ Status(p, r)
      PROVE  IInv'
  BY <1>2, Reserves, Sweeps, Asks, StatusReads
<1>3. ASSUME NEW p \in Relay, HandlerStep(p) PROVE IInv'
  BY <1>3, Turns, Records, Broadcasts DEF HandlerStep
<1>4. ASSUME NEW p \in Process, SharedStep(p) PROVE IInv'
  BY <1>4, Acks, Forgets, Settles, Timeouts, Uses DEF SharedStep
<1>5. CASE StartPass \/ PassStep
  BY <1>5, PassStarts, Looks, Resends, Unacks, ClosesSwept DEF PassStep
<1>6. CASE \/ \E i \in Stored : Mine(i) \/ Evict(i) \/ FillNonce(i)
           \/ \E r \in Reservation : LandedElsewhere(r) \/ TaskMoves(r)
  BY <1>6, ChainMoves
<1>7. CASE (\E kill \in BOOLEAN : SetKilled(kill)) \/ Crash
  BY <1>7, OperatorSets, Crashes
<1>. QED
  BY <1>1, <1>2, <1>3, <1>4, <1>5, <1>6, <1>7 DEF Next

LEMMA Always == Spec => []IInv
BY Starts, Inductive, PTL DEF Spec

-----------------------------------------------------------------------------
(* What follows *)

(* The tables and the locals keep their types through every handler, pass, *)
(* crash and event: what is carried over an await is still a stored row.   *)
THEOREM TypesHold == Spec => []TypeOK
<1>1. IInv => TypeOK
  BY DEF IInv
<1>. QED
  BY <1>1, Always, PTL

(* Nothing waits behind a hole: every nonce below an unsettled             *)
(* transaction's that the chain still waits for is kept by a transaction   *)
(* that recoverSponsorTxs re-sends.                                        *)
THEOREM NeverAHole == Spec => []NoHole
<1>1. IInv => NoHole
  BY DEF IInv, TablesOK
<1>. QED
  BY <1>1, Always, PTL

(* However many handlers relay the same call, at once or after a timeout   *)
(* or a crash, a reservation has one transaction out at a time.            *)
THEOREM NeverTwoOut == Spec => []OneOut
<1>1. ASSUME IInv, NEW r \in Reservation PROVE Cardinality(Out(r)) <= 1
  <2>1. \A i, j \in Out(r) : i = j
    BY <1>1 DEF IInv, TablesOK, OneEach, Out, SentFor
  <2>2. CASE Out(r) = {}
    <3>1. Cardinality(Out(r)) = 0
      BY <2>2, FS_EmptySet
    <3>. QED
      BY <3>1
  <2>3. CASE Out(r) # {}
    <3>1. PICK i : Out(r) = {i}
      BY <2>1, <2>3
    <3>2. Cardinality(Out(r)) = 1
      BY <3>1, FS_Singleton
    <3>. QED
      BY <3>2
  <2>. QED
    BY <2>2, <2>3
<1>2. IInv => OneOut
  BY <1>1 DEF OneOut
<1>. QED
  BY <1>2, Always, PTL

(* A final status is what the chain did, whoever wrote it (settleTx or     *)
(* setTxStatus, in a handler, a status read or the pass); what is dropped  *)
(* or rejected can never land, and had not landed either, except that a    *)
(* transaction the pass got mined is dropped when its own handler, told    *)
(* that the nonce is used, read no receipt for it.                         *)
THEOREM FinalIsTrue == Spec => []SettledTruth
<1>1. ASSUME IInv, NEW i \in Stored
      PROVE  /\ txs[i].status \in {"dropped", "rejected"} => i \notin pool
             /\ txs[i].status = "dropped" => i \notin mined \ hUnseen
             /\ txs[i].status = "rejected" => i \notin mined
  <2>1. txs[i].status \in {"dropped", "rejected"} => i \notin pool
    BY <1>1, PoolUnsettled DEF IInv, Unsettled
  <2>2. /\ txs[i].status = "dropped" => i \notin mined \ hUnseen
        /\ txs[i].status = "rejected" => i \notin mined
    BY <1>1 DEF IInv, TablesOK, StatusOK, ChainOK, Untraced
  <2>. QED
    BY <2>1, <2>2
<1>2. IInv => SettledTruth
  BY <1>1 DEF SettledTruth, IInv, TablesOK, StatusOK
<1>. QED
  BY <1>2, Always, PTL

(* A reservation is charged once for each of its mined transactions,       *)
(* though its handler, a repeat, a status read and the pass may each       *)
(* settle the same one.                                                    *)
THEOREM NeverChargedTwice == Spec => []ChargedOnce
<1>1. ASSUME IInv, NEW r \in Reservation
      PROVE  /\ res[r].cost = Cardinality(Charged(r))
             /\ res[r].cost <= Cardinality(SentFor(r) \cap mined)
  <2>1. Charged(r) \subseteq SentFor(r) \cap mined
    BY <1>1 DEF IInv, TablesOK, StatusOK, TypeOK, Charged, SentFor
  <2>2. IsFiniteSet(SentFor(r) \cap mined)
    BY <1>1, ChargedFinite, FS_Subset DEF IInv
  <2>. QED
    BY <1>1, <2>1, <2>2, FS_Subset DEF IInv, ResOK
<1>2. IInv => ChargedOnce
  BY <1>1 DEF ChargedOnce, Charged
<1>. QED
  BY <1>2, Always, PTL

(* A reservation that reads "used" is of a call that was done on the       *)
(* escrow; no crash, lag or late answer marks one for a call that was not. *)
THEOREM UsedIsDone == Spec => []UsedMeansDone
<1>1. IInv => UsedMeansDone
  BY DEF IInv, ResOK
<1>. QED
  BY <1>1, Always, PTL
=============================================================================
