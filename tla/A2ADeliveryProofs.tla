------------------------ MODULE A2ADeliveryProofs ------------------------
(* A worker is credited at most once and only for a payment that left the  *)
(* escrow, and a record that reads "verified" is of a paid task, for any   *)
(* number of handlers, attempts, transactions and faults, Redis coming     *)
(* back from an older snapshot included.  "Completed" is final; what has   *)
(* to be shown is that every handler on its way to a credit, and every     *)
(* copy of the record that reads "verified" (the store's, a handler's, the *)
(* snapshot's), was formed after the escrow paid.                          *)
(*                                                                         *)
(* From the invariant of that, and one about which rounds have failed and  *)
(* who is docking for them, that the accounts keep MirrorPromise; where no *)
(* claim can be interrupted, that no credit is lost; and, with one request *)
(* at a time, that no round is failed by the verdict of another.           *)
EXTENDS A2ADelivery, TLAPS

Paid == chain.status = "Completed"

(* On the way to a credit, or to the record that follows one.              *)
Paying(local) ==
  \/ local.at \in {"mark", "claim", "unmark"}
  \/ local.at \in {"load", "store"} /\ local.patch = "verified"

(* From a send to what becomes of it.                                      *)
Awaiting(local) ==
  local.at = "wait" \/ (local.at \in {"load", "store"} /\ local.patch = "txHash")

HandlerOK(local) ==
  /\ Paying(local) => Paid
  /\ local.seen.status = "verified" => Paid
  /\ Awaiting(local) /\ local.tx = "success" /\ local.passed => Paid
  /\ local.at = "send" \/ Awaiting(local) => local.op # "ruling"

Owns(local) == Awaiting(local) /\ local.tx = "pool"
Waiting(p) == Owns(proc[p])

(* Only the newest transaction can still be waited for, by the handler     *)
(* that signed it for its own verdict.                                     *)
PoolOK ==
  \A i \in DOMAIN pool : pool[i].by # Nobody =>
    /\ i = Len(pool)
    /\ Waiting(pool[i].by) /\ proc[pool[i].by].passed = pool[i].passed

LedgerOK == credits = (IF row THEN 1 ELSE 0) /\ (row => Paid)

RecordOK ==
  /\ state.status = "verified" => Paid
  /\ backup.state.status = "verified" => Paid
  /\ ruled = "worker" => Paid

EscrowOK == chain.status = "Assigned" => chain.attempts = 0

IInv ==
  /\ TypeOK /\ LedgerOK /\ RecordOK /\ EscrowOK
  /\ \A p \in Process : HandlerOK(proc[p])
  /\ PoolOK

LEMMA IdleHandler == Fresh \in TaskState /\ Idle \in Handler /\ HandlerOK(Idle)
<1>1. Fresh \in TaskState
  BY Parameters DEF Fresh, TaskState
<1>. QED
  BY <1>1 DEF Idle, Handler, HandlerOK, Paying, Awaiting, Fresh, RoundKey, Ruling

LEMMA PoolEntry ==
  ASSUME TypeOK, NEW i \in DOMAIN pool
  PROVE  pool[i] \in Settlement /\ i \in 1 .. Len(pool)
<1>1. pool \in Seq(Settlement) /\ DOMAIN pool = 1 .. Len(pool)
  BY DEF TypeOK
<1>. QED
  BY <1>1

-----------------------------------------------------------------------------
(* One handler goes on *)

(* It keeps a transaction it waits for.                                    *)
KeepsWait(p, local) ==
  Waiting(p) => Awaiting(local) /\ local.tx = "pool" /\ local.passed = proc[p].passed

Proceeds(p) ==
  \E local \in Handler : HandlerOK(local) /\ KeepsWait(p, local) /\ Goto(p, local)

LEMMA HandlersGoOn ==
  ASSUME IInv, NEW p \in Process, Proceeds(p), UNCHANGED chain
  PROVE  /\ proc' \in [Process -> Handler]
         /\ \A q \in Process : HandlerOK(proc[q])'
<1>1. PICK local \in Handler : HandlerOK(local) /\ KeepsWait(p, local) /\ Goto(p, local)
  BY DEF Proceeds
<1>2. proc' = [proc EXCEPT ![p] = local] /\ proc \in [Process -> Handler]
  BY <1>1 DEF Goto, IInv, TypeOK
<1>3. \A q \in Process : proc'[q] = IF q = p THEN local ELSE proc[q]
  BY <1>2
<1>4. \A q \in Process : HandlerOK(proc[q])'
  BY <1>1, <1>3 DEF IInv, HandlerOK, Paid
<1>. QED
  BY <1>2, <1>4

LEMMA ProceedsOK ==
  ASSUME IInv, NEW p \in Process, Proceeds(p), UNCHANGED <<chain, pool>>
  PROVE  /\ proc' \in [Process -> Handler]
         /\ \A q \in Process : HandlerOK(proc[q])'
         /\ PoolOK'
<1>1. PICK local \in Handler : KeepsWait(p, local) /\ Goto(p, local)
  BY DEF Proceeds
<1>2. \A q \in Process : proc'[q] = IF q = p THEN local ELSE proc[q]
  BY <1>1 DEF Goto, IInv, TypeOK
<1>5. \A q \in Process : Waiting(q) => Waiting(q)' /\ proc'[q].passed = proc[q].passed
  BY <1>1, <1>2 DEF KeepsWait, Waiting, Owns
<1>6. \A i \in DOMAIN pool : pool[i].by \in Process \cup {Nobody}
  BY PoolEntry DEF IInv, Settlement
<1>7. ASSUME NEW i \in DOMAIN pool, pool[i].by # Nobody
      PROVE  i = Len(pool) /\ Waiting(pool[i].by)' /\ proc'[pool[i].by].passed = pool[i].passed
  <2>1. /\ i = Len(pool) /\ Waiting(pool[i].by)
        /\ proc[pool[i].by].passed = pool[i].passed
    BY <1>7 DEF IInv, PoolOK
  <2>2. pool[i].by \in Process
    BY <1>6, <1>7
  <2>. DEFINE q == pool[i].by
  <2>3. Waiting(q)' /\ proc'[q].passed = proc[q].passed
    BY <1>5, <2>1, <2>2
  <2>. QED
    BY <2>1, <2>3
<1>8. PoolOK'
  BY <1>7 DEF PoolOK, Waiting, Owns
<1>. QED
  BY <1>8, HandlersGoOn

\* A step of one handler that changes the markers at most.
LEMMA HandlerStep ==
  ASSUME IInv, NEW p \in Process, Proceeds(p),
         UNCHANGED <<mode, state, backup, ledger, escrow>>,
         marks' \in Marks, faults' \in 0 .. MaxFaults
  PROVE  IInv'
<1>1. /\ proc' \in [Process -> Handler]
      /\ \A q \in Process : HandlerOK(proc[q])'
      /\ PoolOK'
  BY ProceedsOK DEF escrow
<1>2. TypeOK'
  BY <1>1 DEF IInv, TypeOK, ledger, escrow
<1>. QED
  BY <1>1, <1>2 DEF IInv, LedgerOK, RecordOK, EscrowOK, Paid, ledger, escrow

LEMMA FaultCounts ==
  ASSUME TypeOK, Works \/ \E fault \in Fault : Fails(fault)
  PROVE  faults' \in 0 .. MaxFaults
BY Parameters DEF TypeOK, Works, Fails

LEMMA DoneProceeds ==
  ASSUME IInv, NEW p \in Process, ~Waiting(p), Done(p)
  PROVE  Proceeds(p)
BY IdleHandler DEF Proceeds, Done, KeepsWait

LEMMA Resumed ==
  ASSUME NEW local \in Handler,
         NEW at \in {"mark", "reread", "claim", "unmark", "round", "dock", "history",
                     "unround", "ruling", "unrule", "done"}
  PROVE  [local EXCEPT !.at = at] \in Handler
BY DEF Handler

LEMMA MoveProceeds ==
  ASSUME IInv, NEW p \in Process, ~Waiting(p), NEW at, Move(p, at),
         at \in {"reread", "claim", "unmark", "round", "dock", "history", "unround",
                 "ruling", "unrule", "done"},
         at \in {"claim", "unmark"} => Paid
  PROVE  Proceeds(p)
<1>. DEFINE local == [proc[p] EXCEPT !.at = at]
<1>1. proc[p] \in Handler /\ HandlerOK(proc[p])
  BY DEF IInv, TypeOK
<1>2. local \in Handler
  BY <1>1, Resumed
<1>3. HandlerOK(local)
  BY <1>1 DEF HandlerOK, Paying, Awaiting, Handler
<1>. QED
  BY <1>2, <1>3 DEF Proceeds, KeepsWait, Move

Patch == {"submitted", "awaiting_verification", "verified", "failed", "txHash", "verifyError"}

LEMMA Written ==
  ASSUME NEW local \in Handler, NEW patch \in Patch
  PROVE  [local EXCEPT !.at = "load", !.patch = patch, !.seen = Fresh, !.marker = "none"]
           \in Handler
<1>1. Fresh \in TaskState
  BY IdleHandler
<1>2. [local EXCEPT !.at = "load", !.patch = patch] \in Handler
  BY ZenonT(60) DEF Handler, Patch
<1>3. \A old \in Handler : [old EXCEPT !.seen = Fresh, !.marker = "none"] \in Handler
  BY ZenonT(60), <1>1 DEF Handler
<1>4. [local EXCEPT !.at = "load", !.patch = patch, !.seen = Fresh, !.marker = "none"]
        = [[local EXCEPT !.at = "load", !.patch = patch] EXCEPT !.seen = Fresh, !.marker = "none"]
  BY DEF Handler
<1>. QED
  BY <1>2, <1>3, <1>4

LEMMA WriteProceeds ==
  ASSUME IInv, NEW p \in Process, ~Waiting(p), NEW local \in Handler, NEW patch \in Patch,
         patch = "verified" => Paid, patch = "txHash" => local.tx # "success" /\ local.op # "ruling",
         Write(p, local, patch)
  PROVE  Proceeds(p)
<1>. DEFINE next == [local EXCEPT !.at = "load", !.patch = patch, !.seen = Fresh, !.marker = "none"]
<1>1. next \in Handler
  BY Written
<1>2. HandlerOK(next)
  BY DEF HandlerOK, Paying, Awaiting, Handler, Fresh
<1>. QED
  BY <1>1, <1>2 DEF Proceeds, KeepsWait, Write

LEMMA AdoptProceeds ==
  ASSUME IInv, NEW p \in Process, ~Waiting(p), NEW local \in Handler,
         local.passed => Paid, Adopt(p, local)
  PROVE  Proceeds(p)
<1>. DEFINE next == [Idle EXCEPT !.op = local.op, !.round = local.round]
<1>1. next \in Handler /\ next.tx = "none"
  BY IdleHandler DEF Handler, Idle
<1>2. CASE local.passed
  <2>1. [next EXCEPT !.at = "mark"] \in Handler
    BY <1>1, Resumed
  <2>2. HandlerOK([next EXCEPT !.at = "mark"])
    BY <1>2 DEF HandlerOK, Paying, Awaiting, Idle, Fresh
  <2>. QED
    BY <1>2, <2>1, <2>2 DEF Adopt, Proceeds, KeepsWait
<1>3. CASE ~local.passed
  BY <1>1, <1>3, WriteProceeds DEF Adopt, Patch
<1>. QED
  BY <1>2, <1>3

\* A handler that only just begins, or gets no further.
LEMMA FreshProceeds ==
  ASSUME IInv, NEW p \in Process, ~Waiting(p), NEW local \in Handler,
         local.at \in {"chain", "mark", "round", "ruling", "done"}, local.tx = "none",
         local.at = "mark" => Paid, local.seen \in {Fresh, state}, Goto(p, local)
  PROVE  Proceeds(p)
<1>1. HandlerOK(local)
  BY DEF HandlerOK, Paying, Awaiting, Fresh, IInv, RecordOK
<1>. QED
  BY <1>1 DEF Proceeds, KeepsWait

-----------------------------------------------------------------------------
(* The routes, up to their first change *)

\* A handler that only goes on leaves everything else as it is.
LEMMA OnlyProc ==
  ASSUME IInv, NEW p \in Process, Proceeds(p), UNCHANGED <<mode, redis, ledger, escrow, faults>>
  PROVE  IInv'
<1>1. marks' \in Marks /\ faults' \in 0 .. MaxFaults
  BY DEF IInv, TypeOK, redis
<1>. QED
  BY <1>1, HandlerStep DEF redis

LEMMA BeginStep ==
  ASSUME IInv, NEW c \in Call, NEW op \in {"submit", "finalize", "verify", "verdict"},
         NEW passed \in BOOLEAN, Begin(c, op, passed)
  PROVE  IInv'
<1>. DEFINE local == [Idle EXCEPT !.at = "chain", !.op = op, !.seen = state, !.passed = passed]
<1>1. c \in Process /\ state \in TaskState /\ ~Waiting(c)
  BY DEF Process, IInv, TypeOK, Waiting, Owns, Awaiting, Begin, At
<1>2. local \in Handler
  <2>1. [Idle EXCEPT !.at = "chain", !.op = op] \in Handler
    BY IdleHandler DEF Handler
  <2>2. \A old \in Handler : [old EXCEPT !.seen = state, !.passed = passed] \in Handler
    BY <1>1 DEF Handler
  <2>3. local = [[Idle EXCEPT !.at = "chain", !.op = op] EXCEPT !.seen = state, !.passed = passed]
    BY DEF Idle
  <2>. QED
    BY <2>1, <2>2, <2>3
<1>3. local.at = "chain" /\ local.seen = state /\ local.tx = "none"
  BY DEF Idle
<1>4. Goto(c, local) /\ UNCHANGED <<mode, redis, ledger, escrow, faults>>
  BY DEF Begin
<1>5. Proceeds(c)
  BY <1>1, <1>2, <1>3, <1>4, FreshProceeds
<1>. QED
  BY <1>1, <1>4, <1>5, OnlyProc

LEMMA RouteSteps ==
  ASSUME IInv, NEW c \in Call, Route(c)
  PROVE  IInv'
<1>1. ASSUME NEW answer \in BOOLEAN, Submit(c, answer) \/ Verify(c, answer) \/ Verdict(c, answer)
      PROVE  IInv'
  BY <1>1, BeginStep DEF Submit, Verify, Verdict
<1>2. CASE Finalize(c)
  <2>1. state.result \in BOOLEAN
    BY DEF IInv, TypeOK, TaskState
  <2>. QED
    BY <1>2, <2>1, BeginStep DEF Finalize
<1>3. CASE Confirm(c)
  <2>. DEFINE local == [Idle EXCEPT !.op = "confirm"]
  <2>1. /\ c \in Process /\ ~Waiting(c) /\ UNCHANGED <<mode, redis, ledger, escrow, faults>>
        /\ \/ Paid /\ Goto(c, [local EXCEPT !.at = "mark"])
           \/ \E r \in Attempt : Goto(c, [local EXCEPT !.at = "round", !.round = r])
    BY <1>3 DEF Process, Waiting, Owns, Awaiting, Confirm, At, Paid
  <2>2. local \in Handler /\ local.tx = "none" /\ local.seen = Fresh
    BY IdleHandler DEF Handler, Idle
  <2>3. CASE Paid /\ Goto(c, [local EXCEPT !.at = "mark"])
    <3>. DEFINE next == [local EXCEPT !.at = "mark"]
    <3>1. next \in Handler /\ next.at = "mark" /\ next.tx = "none" /\ next.seen = Fresh
      BY <2>2 DEF Handler
    <3>2. Proceeds(c)
      BY <2>1, <2>3, <3>1, FreshProceeds
    <3>. QED
      BY <2>1, <3>2, OnlyProc
  <2>4. ASSUME NEW r \in Attempt, Goto(c, [local EXCEPT !.at = "round", !.round = r])
        PROVE  IInv'
    <3>. DEFINE next == [local EXCEPT !.at = "round", !.round = r]
    <3>1. next \in Handler /\ next.at = "round" /\ next.tx = "none" /\ next.seen = Fresh
      BY ZenonT(60), <2>2 DEF Handler, RoundKey
    <3>2. Proceeds(c)
      BY <2>1, <2>4, <3>1, FreshProceeds
    <3>. QED
      BY <2>1, <3>2, OnlyProc
  <2>. QED
    BY <2>1, <2>3, <2>4
<1>. QED
  BY <1>1, <1>2, <1>3 DEF Route

LEMMA ReadChainStep ==
  ASSUME IInv, NEW c \in Process, ReadChain(c)
  PROVE  IInv'
<1>. DEFINE local == [proc[c] EXCEPT !.round = chain.attempts]
            told == [local EXCEPT !.passed = (chain.status = "Completed")]
<1>1. ~Waiting(c) /\ proc[c] \in Handler /\ HandlerOK(proc[c]) /\ proc[c].at = "chain"
  BY DEF ReadChain, At, Waiting, Owns, Awaiting, IInv, TypeOK
<1>2. chain.attempts \in RoundKey /\ (chain.status = "Completed") \in BOOLEAN
  BY Parameters DEF IInv, TypeOK, EscrowTask, RoundKey, Attempt, Ruling
<1>3. local \in Handler /\ told \in Handler
  BY <1>1, <1>2 DEF Handler
<1>4. told.passed => Paid
  BY <1>3 DEF Handler, Paid
<1>5. UNCHANGED <<mode, redis, ledger, escrow, faults>>
  BY DEF ReadChain
<1>6. CASE Write(c, local, "submitted") \/ Write(c, local, "awaiting_verification")
  BY <1>1, <1>3, <1>6, WriteProceeds, <1>5, OnlyProc DEF Patch
<1>7. CASE MaySettle(local) /\ Goto(c, [local EXCEPT !.at = "send"])
  <2>. DEFINE next == [local EXCEPT !.at = "send"]
  <2>1. next \in Handler
    BY ZenonT(60), <1>3 DEF Handler
  <2>2. HandlerOK(next)
    BY <1>1, <1>7 DEF Handler, HandlerOK, Paying, Awaiting, MaySettle, Judges
  <2>3. Proceeds(c)
    BY <1>1, <1>7, <2>1, <2>2 DEF Proceeds, KeepsWait
  <2>. QED
    BY <1>5, <2>3, OnlyProc
<1>8. CASE Adopt(c, told)
  BY <1>1, <1>3, <1>4, <1>5, <1>8, AdoptProceeds, OnlyProc
<1>9. CASE Done(c)
  BY <1>1, <1>5, <1>9, DoneProceeds, OnlyProc
<1>. QED
  BY <1>6, <1>7, <1>8, <1>9 DEF ReadChain

-----------------------------------------------------------------------------
(* The store *)

LEMMA PatchedOK ==
  ASSUME NEW local \in Handler, NEW old \in TaskState
  PROVE  /\ Patched(local, old) \in TaskState
         /\ Patched(local, old).status = "verified" =>
              local.patch = "verified" \/ old.status = "verified"
<1>1. local.round + 1 \in 0 .. MaxAttempts + 1 /\ local.passed \in BOOLEAN
  BY Parameters DEF Handler, RoundKey, Attempt, Ruling
<1>2. CASE local.patch = "submitted"
  BY <1>1, <1>2 DEF Patched, TaskState
<1>3. CASE local.patch \in {"awaiting_verification", "verified", "failed"}
  BY <1>3 DEF Patched, TaskState
<1>4. CASE local.patch \notin {"submitted", "awaiting_verification", "verified", "failed"}
  BY <1>4 DEF Patched
<1>. QED
  BY <1>2, <1>3, <1>4

LEMMA LoadStep ==
  ASSUME IInv, NEW p \in Process, Load(p)
  PROVE  IInv'
<1>. DEFINE next == [proc[p] EXCEPT !.at = "store", !.seen = state]
<1>1. proc[p] \in Handler /\ HandlerOK(proc[p]) /\ proc[p].at = "load" /\ state \in TaskState
  BY DEF IInv, TypeOK, Load, At
<1>2. next \in Handler
  BY <1>1 DEF Handler
<1>3. HandlerOK(next)
  BY <1>1 DEF Handler, HandlerOK, Paying, Awaiting, IInv, RecordOK
<1>4. KeepsWait(p, next)
  BY <1>1 DEF KeepsWait, Waiting, Owns, Awaiting, Handler
<1>5. Proceeds(p) /\ UNCHANGED <<mode, redis, ledger, escrow, faults>>
  BY <1>2, <1>3, <1>4 DEF Load, Proceeds
<1>. QED
  BY <1>5, OnlyProc

LEMMA StoreStep ==
  ASSUME IInv, NEW p \in Process, Store(p)
  PROVE  IInv'
<1>1. proc[p] \in Handler /\ HandlerOK(proc[p]) /\ proc[p].at = "store"
  BY DEF IInv, TypeOK, Store, At
<1>2. state' \in TaskState /\ (state'.status = "verified" => Paid)
  BY <1>1, PatchedOK DEF Store, HandlerOK, Paying, Handler
<1>3. Proceeds(p)
  <2>1. CASE Goto(p, [proc[p] EXCEPT !.at = "wait", !.seen = Fresh]) /\ proc[p].patch = "txHash"
    <3>. DEFINE next == [proc[p] EXCEPT !.at = "wait", !.seen = Fresh]
    <3>1. next \in Handler
      BY <1>1, IdleHandler DEF Handler
    <3>2. HandlerOK(next) /\ KeepsWait(p, next)
      BY <1>1, <2>1 DEF Handler, HandlerOK, Paying, Awaiting, KeepsWait, Waiting, Owns, Fresh
    <3>. QED
      BY <2>1, <3>1, <3>2 DEF Proceeds
  <2>2. CASE proc[p].patch # "txHash"
    <3>1. ~Waiting(p)
      BY <1>1, <2>2 DEF Waiting, Owns, Awaiting
    <3>2. CASE Goto(p, [Idle EXCEPT !.at = "done", !.op = "ruling"])
      <4>. DEFINE next == [Idle EXCEPT !.at = "done", !.op = "ruling"]
      <4>1. next \in Handler /\ next.at = "done" /\ next.tx = "none" /\ next.seen = Fresh
        BY IdleHandler DEF Handler, Idle
      <4>. QED
        BY <3>1, <3>2, <4>1, FreshProceeds
    <3>3. CASE Goto(p, [Idle EXCEPT !.at = "round", !.op = proc[p].op, !.round = proc[p].round])
      <4>. DEFINE next == [Idle EXCEPT !.at = "round", !.op = proc[p].op, !.round = proc[p].round]
      <4>1. next \in Handler /\ next.at = "round" /\ next.tx = "none" /\ next.seen = Fresh
        BY <1>1, IdleHandler DEF Handler, Idle
      <4>. QED
        BY <3>1, <3>3, <4>1, FreshProceeds
    <3>4. CASE Done(p)
      BY <3>1, <3>4, DoneProceeds
    <3>. QED
      BY <2>2, <3>2, <3>3, <3>4 DEF Store
  <2>3. proc[p].op = "ruling" => proc[p].patch # "txHash"
    BY <1>1 DEF HandlerOK, Awaiting
  <2>. QED
    BY <2>1, <2>2, <2>3 DEF Store
<1>4. handed' \in BOOLEAN /\ UNCHANGED <<mode, marks, backup, ledger, chain, late, pool, ruled, hJudged, faults>>
  BY DEF Store, IInv, TypeOK
<1>5. /\ proc' \in [Process -> Handler]
      /\ \A q \in Process : HandlerOK(proc[q])'
      /\ PoolOK'
  BY <1>3, <1>4, ProceedsOK
<1>6. TypeOK'
  BY <1>2, <1>4, <1>5 DEF IInv, TypeOK, ledger
<1>. QED
  BY <1>2, <1>4, <1>5, <1>6 DEF IInv, LedgerOK, RecordOK, EscrowOK, Paid, ledger

-----------------------------------------------------------------------------
(* settleVerification *)

LEMMA SendStep ==
  ASSUME IInv, NEW c \in Process, Send(c)
  PROVE  IInv'
<1>1. proc[c] \in Handler /\ HandlerOK(proc[c]) /\ proc[c].at = "send" /\ ~Waiting(c)
  BY DEF IInv, TypeOK, Send, At, Waiting, Owns, Awaiting
<1>2. faults' \in 0 .. MaxFaults /\ UNCHANGED <<mode, redis, ledger, chain, late, handed, ruled, hJudged>>
  BY FaultCounts DEF Send, IInv, Fault
<1>3. CASE UNCHANGED pool /\ (Move(c, "reread") \/ Write(c, proc[c], "verifyError"))
  <2>1. Proceeds(c)
    BY <1>1, <1>3, MoveProceeds, WriteProceeds DEF Patch
  <2>. QED
    BY <1>2, <1>3, <2>1, HandlerStep DEF redis, escrow, IInv, TypeOK
<1>4. CASE /\ pool' = Append(pool, [passed |-> proc[c].passed, on |-> proc[c].seen.round, by |-> c])
           /\ Write(c, [proc[c] EXCEPT !.tx = "pool"], "txHash")
  <2>. DEFINE sent == [passed |-> proc[c].passed, on |-> proc[c].seen.round, by |-> c]
              local == [proc[c] EXCEPT !.tx = "pool"]
              next == [local EXCEPT !.at = "load", !.patch = "txHash", !.seen = Fresh,
                                    !.marker = "none"]
  <2>1. sent \in Settlement /\ pool \in Seq(Settlement)
    BY <1>1 DEF Settlement, Handler, TaskState, IInv, TypeOK
  <2>2. /\ pool' \in Seq(Settlement) /\ Len(pool') = Len(pool) + 1
        /\ \A i \in DOMAIN pool : i \in DOMAIN pool' /\ pool'[i] = pool[i]
        /\ pool'[Len(pool')] = sent
        /\ \A i \in DOMAIN pool' : i \in DOMAIN pool \/ i = Len(pool')
    BY <1>4, <2>1
  <2>3. local \in Handler /\ local.tx = "pool" /\ local.op # "ruling"
    BY <1>1 DEF Handler, HandlerOK
  <2>4. Proceeds(c)
    BY <1>1, <1>4, <2>3, WriteProceeds DEF Patch
  <2>5. proc' = [proc EXCEPT ![c] = next] /\ next.at = "load" /\ next.patch = "txHash"
        /\ next.tx = "pool" /\ next.passed = proc[c].passed
    BY <1>1, <1>4, <2>3 DEF Write, Goto, Handler
  <2>6. /\ proc' \in [Process -> Handler]
        /\ \A q \in Process : HandlerOK(proc[q])'
    BY <1>2, <2>4, HandlersGoOn
  <2>7. PoolOK'
    <3>1. \A i \in DOMAIN pool : pool[i].by = Nobody
      BY DEF Send
    <3>2. proc'[c] = next
      BY <2>5 DEF IInv, TypeOK
    <3>3. Waiting(c)' /\ proc'[c].passed = sent.passed
      BY <2>5, <3>2 DEF Waiting, Owns, Awaiting
    <3>4. ASSUME NEW i \in DOMAIN pool', pool'[i].by # Nobody
          PROVE  /\ i = Len(pool')
                 /\ Waiting(c)' /\ proc'[c].passed = pool'[i].passed /\ pool'[i].by = c
      BY <2>2, <3>1, <3>3, <3>4
    <3>. QED
      BY <3>4 DEF PoolOK, Waiting, Owns
  <2>8. TypeOK'
    BY <1>2, <2>2, <2>6 DEF IInv, TypeOK, redis, ledger
  <2>. QED
    BY <1>2, <2>6, <2>7, <2>8 DEF IInv, LedgerOK, RecordOK, EscrowOK, Paid, redis, ledger
<1>. QED
  BY <1>3, <1>4 DEF Send

LEMMA RereadStep ==
  ASSUME IInv, NEW c \in Process, Reread(c)
  PROVE  IInv'
<1>1. proc[c] \in Handler /\ ~Waiting(c) /\ UNCHANGED <<mode, redis, ledger, escrow, faults>>
  BY DEF IInv, TypeOK, Reread, At, Waiting, Owns, Awaiting
<1>2. CASE chain.status = Outcome(proc[c].passed) /\ Adopt(c, proc[c])
  <2>1. proc[c].passed => Paid
    BY <1>2 DEF Outcome, Paid
  <2>. QED
    BY <1>1, <1>2, <2>1, AdoptProceeds, OnlyProc
<1>3. CASE Write(c, proc[c], "verifyError")
  BY <1>1, <1>3, WriteProceeds, OnlyProc DEF Patch
<1>. QED
  BY <1>2, <1>3 DEF Reread

LEMMA ReceiptStep ==
  ASSUME IInv, NEW c \in Process, Receipt(c)
  PROVE  IInv'
<1>1. proc[c] \in Handler /\ HandlerOK(proc[c]) /\ ~Waiting(c) /\ proc[c].at = "wait"
      /\ UNCHANGED <<mode, redis, ledger, escrow, faults>>
  BY DEF IInv, TypeOK, Receipt, At, Waiting, Owns
<1>2. CASE proc[c].tx = "success" /\ Adopt(c, proc[c])
  <2>1. proc[c].passed => Paid
    BY <1>1, <1>2 DEF HandlerOK, Awaiting
  <2>. QED
    BY <1>1, <1>2, <2>1, AdoptProceeds, OnlyProc
<1>3. CASE Write(c, proc[c], "verifyError")
  BY <1>1, <1>3, WriteProceeds, OnlyProc DEF Patch
<1>. QED
  BY <1>2, <1>3 DEF Receipt

LEMMA AbandonOK ==
  ASSUME NEW txs \in Seq(Settlement), NEW who
  PROVE  /\ Abandon(txs, who) \in Seq(Settlement)
         /\ DOMAIN Abandon(txs, who) = DOMAIN txs /\ Len(Abandon(txs, who)) = Len(txs)
         /\ \A i \in DOMAIN txs :
              /\ txs[i].by \in who => Abandon(txs, who)[i].by = Nobody
              /\ txs[i].by \notin who => Abandon(txs, who)[i] = txs[i]
<1>. DEFINE n == Len(txs)
            left == [i \in 1 .. n |-> IF txs[i].by \in who THEN [txs[i] EXCEPT !.by = Nobody]
                                      ELSE txs[i]]
<1>1. DOMAIN txs = 1 .. n /\ n \in Nat /\ \A i \in 1 .. n : txs[i] \in Settlement
  OBVIOUS
<1>2. Abandon(txs, who) = left
  BY <1>1 DEF Abandon
<1>3. \A i \in 1 .. n : [txs[i] EXCEPT !.by = Nobody] \in Settlement
  BY <1>1 DEF Settlement
<1>4. \A i \in 1 .. n : left[i] \in Settlement
  BY <1>1, <1>3
<1>5. left \in Seq(Settlement) /\ DOMAIN left = 1 .. n /\ Len(left) = n
  BY <1>1, <1>4
<1>6. \A i \in 1 .. n : /\ txs[i].by \in who => left[i].by = Nobody
                        /\ txs[i].by \notin who => left[i] = txs[i]
  BY <1>1 DEF Settlement
<1>. QED
  BY <1>1, <1>2, <1>5, <1>6

LEMMA WaitTimeoutStep ==
  ASSUME IInv, NEW c \in Process, WaitTimeout(c)
  PROVE  IInv'
<1>. DEFINE local == [proc[c] EXCEPT !.tx = "none"]
            next == [local EXCEPT !.at = "load", !.patch = "verifyError", !.seen = Fresh,
                                  !.marker = "none"]
<1>1. proc[c] \in Handler
  BY DEF IInv, TypeOK
<1>2. faults' \in 0 .. MaxFaults /\ UNCHANGED <<mode, redis, ledger, chain, late, handed, ruled, hJudged>>
  BY FaultCounts DEF WaitTimeout, IInv, Fault
<1>3. local \in Handler /\ next \in Handler
  <2>1. local \in Handler
    BY <1>1 DEF Handler
  <2>. QED
    BY <2>1, Written DEF Patch
<1>4. proc' = [proc EXCEPT ![c] = next]
  BY DEF WaitTimeout, Write, Goto
<1>5. proc' \in [Process -> Handler] /\ \A q \in Process \ {c} : proc'[q] = proc[q]
  BY <1>3, <1>4 DEF IInv, TypeOK
<1>6. HandlerOK(next)
  BY <1>3 DEF HandlerOK, Paying, Awaiting, Handler, Fresh
<1>7. \A q \in Process : HandlerOK(proc[q])'
  BY <1>2, <1>4, <1>6 DEF IInv, TypeOK, HandlerOK, Paid
<1>8. pool' = Abandon(pool, {c})
  BY DEF WaitTimeout
<1>9. pool' \in Seq(Settlement) /\ PoolOK'
  <2>1. \A i \in DOMAIN pool : pool[i] \in Settlement
    BY PoolEntry DEF IInv
  <2>2. /\ DOMAIN pool' = DOMAIN pool /\ Len(pool') = Len(pool)
        /\ \A i \in DOMAIN pool : /\ pool'[i] \in Settlement
                                  /\ pool'[i].by # Nobody => pool'[i] = pool[i] /\ pool[i].by # c
        /\ pool' \in Seq(Settlement)
    BY <1>8, AbandonOK, <2>1 DEF IInv, TypeOK
  <2>3. ASSUME NEW i \in DOMAIN pool', pool'[i].by # Nobody
        PROVE  /\ i = Len(pool')
               /\ Owns(proc'[pool'[i].by]) /\ proc'[pool'[i].by].passed = pool'[i].passed
    <3>1. /\ i \in DOMAIN pool /\ pool'[i] = pool[i] /\ pool[i].by # c /\ pool[i].by # Nobody
      BY <2>2, <2>3
    <3>2. pool[i].by \in Process
      BY <2>1, <3>1 DEF Settlement
    <3>3. i = Len(pool) /\ Owns(proc[pool[i].by]) /\ proc[pool[i].by].passed = pool[i].passed
      BY <3>1 DEF IInv, PoolOK, Waiting
    <3>4. proc'[pool[i].by] = proc[pool[i].by]
      BY <1>5, <3>1, <3>2
    <3>. QED
      BY <2>2, <3>1, <3>3, <3>4
  <2>. QED
    BY <2>2, <2>3 DEF PoolOK, Waiting, Owns, Awaiting
<1>10. TypeOK'
  BY <1>2, <1>5, <1>9 DEF IInv, TypeOK, redis, ledger
<1>. QED
  BY <1>2, <1>7, <1>9, <1>10 DEF IInv, LedgerOK, RecordOK, EscrowOK, Paid, redis, ledger

-----------------------------------------------------------------------------
(* The accounting *)

LEMMA CreditedProceeds ==
  ASSUME IInv, NEW p \in Process, ~Waiting(p), Paid, Credited(p, proc[p])
  PROVE  Proceeds(p)
<1>1. proc[p] \in Handler
  BY DEF IInv, TypeOK
<1>. QED
  BY <1>1, WriteProceeds, DoneProceeds DEF Credited, Patch

LEMMA MarkStep ==
  ASSUME IInv, NEW p \in Process, Mark(p)
  PROVE  IInv'
<1>1. proc[p] \in Handler /\ HandlerOK(proc[p]) /\ ~Waiting(p) /\ proc[p].at = "mark"
  BY DEF IInv, TypeOK, Mark, At, Waiting, Owns, Awaiting
<1>2. Paid
  BY <1>1 DEF HandlerOK, Paying
<1>3. marks' \in Marks
  BY DEF Mark, IInv, TypeOK, Marks
<1>4. faults' \in 0 .. MaxFaults /\ UNCHANGED <<mode, state, backup, ledger, escrow>>
  BY FaultCounts DEF Mark, IInv, Fault
<1>5. ASSUME NEW marker \in {"set", "unknown"},
             Goto(p, [proc[p] EXCEPT !.at = "claim", !.marker = marker])
      PROVE  Proceeds(p)
  <2>. DEFINE next == [proc[p] EXCEPT !.at = "claim", !.marker = marker]
  <2>1. next \in Handler
    BY <1>1 DEF Handler
  <2>2. HandlerOK(next)
    BY <1>1, <1>2 DEF HandlerOK, Paying, Awaiting, Handler
  <2>. QED
    BY <1>1, <1>5, <2>1, <2>2 DEF Proceeds, KeepsWait
<1>6. Proceeds(p)
  BY <1>1, <1>2, <1>5, CreditedProceeds DEF Mark
<1>. QED
  BY <1>3, <1>4, <1>6, HandlerStep

LEMMA ClaimStep ==
  ASSUME IInv, NEW p \in Process, Claim(p)
  PROVE  IInv'
<1>1. proc[p] \in Handler /\ HandlerOK(proc[p]) /\ ~Waiting(p) /\ proc[p].at = "claim"
  BY DEF IInv, TypeOK, Claim, At, Waiting, Owns, Awaiting
<1>2. Paid
  BY <1>1 DEF HandlerOK, Paying
<1>3. faults' \in 0 .. MaxFaults /\ UNCHANGED <<mode, redis, registered, docks, escrow>>
  BY FaultCounts DEF Claim, IInv, Fault
<1>4. \/ ~row /\ row' = TRUE /\ credits' = credits + 1
      \/ UNCHANGED <<row, credits>>
  BY DEF Claim
<1>5. row' \in BOOLEAN /\ credits' \in Nat /\ credits' = IF row' THEN 1 ELSE 0
  <2>1. row \in BOOLEAN /\ credits = IF row THEN 1 ELSE 0
    BY DEF IInv, TypeOK, LedgerOK
  <2>2. CASE ~row /\ row' = TRUE /\ credits' = credits + 1
    <3>1. credits' = 1
      BY <2>1, <2>2
    <3>. QED
      BY <2>2, <3>1
  <2>3. CASE UNCHANGED <<row, credits>>
    <3>1. credits' \in Nat
      BY <2>3 DEF IInv, TypeOK
    <3>. QED
      BY <2>1, <2>3, <3>1
  <2>. QED
    BY <1>4, <2>2, <2>3
<1>6. Proceeds(p)
  <2>1. CASE Credited(p, proc[p])
    BY <1>1, <1>2, <2>1, CreditedProceeds
  <2>2. CASE Goto(p, [proc[p] EXCEPT !.at = "unmark", !.marker = "unregistered"])
    <3>. DEFINE next == [proc[p] EXCEPT !.at = "unmark", !.marker = "unregistered"]
    <3>1. next \in Handler
      BY <1>1 DEF Handler
    <3>2. HandlerOK(next)
      BY <1>1, <1>2 DEF HandlerOK, Paying, Awaiting, Handler
    <3>. QED
      BY <1>1, <2>2, <3>1, <3>2 DEF Proceeds, KeepsWait
  <2>3. CASE Move(p, "unmark")
    BY <1>1, <1>2, <2>3, MoveProceeds
  <2>. QED
    BY <2>1, <2>2, <2>3 DEF Claim
<1>7. /\ proc' \in [Process -> Handler]
      /\ \A q \in Process : HandlerOK(proc[q])'
      /\ PoolOK'
  BY <1>3, <1>6, ProceedsOK DEF escrow
<1>8. TypeOK'
  BY <1>3, <1>5, <1>7 DEF IInv, TypeOK, redis, escrow
<1>. QED
  BY <1>2, <1>3, <1>5, <1>7, <1>8 DEF IInv, LedgerOK, RecordOK, EscrowOK, Paid, redis, escrow

LEMMA UnmarkStep ==
  ASSUME IInv, NEW p \in Process, Unmark(p)
  PROVE  IInv'
<1>1. proc[p] \in Handler /\ HandlerOK(proc[p]) /\ ~Waiting(p) /\ proc[p].at = "unmark"
  BY DEF IInv, TypeOK, Unmark, At, Waiting, Owns, Awaiting
<1>2. Paid
  BY <1>1 DEF HandlerOK, Paying
<1>3. marks' \in Marks
  BY DEF Unmark, IInv, TypeOK, Marks
<1>4. faults' \in 0 .. MaxFaults /\ UNCHANGED <<mode, state, backup, ledger, escrow>>
  BY FaultCounts DEF Unmark, IInv, Fault
<1>5. Proceeds(p)
  BY <1>1, <1>2, CreditedProceeds, DoneProceeds DEF Unmark
<1>. QED
  BY <1>3, <1>4, <1>5, HandlerStep

LEMMA DockProceeds ==
  ASSUME IInv, NEW p \in Process, ~Waiting(p), Docked(p) \/ DockFailed(p)
  PROVE  Proceeds(p)
<1>1. proc[p] \in Handler
  BY DEF IInv, TypeOK
<1>. QED
  BY <1>1, WriteProceeds, DoneProceeds, MoveProceeds DEF Docked, DockFailed, Patch

LEMMA DisputeSteps ==
  ASSUME IInv, NEW p \in Process, ClaimRound(p) \/ RecordHistory(p) \/ Unround(p)
  PROVE  IInv'
<1>1. proc[p] \in Handler /\ proc[p].round \in RoundKey /\ ~Waiting(p)
  BY DEF IInv, TypeOK, Handler, ClaimRound, RecordHistory, Unround, At, Waiting, Owns, Awaiting
<1>2. marks' \in Marks
  <2>1. marks \in Marks /\ marks.rounds \subseteq RoundKey
    BY DEF IInv, TypeOK, Marks
  <2>2. \A rounds \in SUBSET RoundKey : [marks EXCEPT !.rounds = rounds] \in Marks
    BY <2>1 DEF Marks
  <2>3. \/ marks' = [marks EXCEPT !.rounds = marks.rounds \cup {proc[p].round}]
        \/ marks' = [marks EXCEPT !.rounds = marks.rounds \ {proc[p].round}]
        \/ marks' = marks
    BY DEF ClaimRound, RecordHistory, Unround, redis
  <2>. QED
    BY <1>1, <2>1, <2>2, <2>3
<1>3. faults' \in 0 .. MaxFaults /\ UNCHANGED <<mode, state, backup, ledger, escrow>>
  BY FaultCounts DEF ClaimRound, RecordHistory, Unround, IInv, Fault, redis
<1>4. Docked(p) \/ DockFailed(p) \/ Move(p, "dock") \/ Move(p, "unround")
  BY DEF ClaimRound, RecordHistory, Unround
<1>5. Proceeds(p)
  BY <1>1, <1>4, DockProceeds, MoveProceeds
<1>. QED
  BY <1>2, <1>3, <1>5, HandlerStep

LEMMA DockStep ==
  ASSUME IInv, NEW p \in Process, Dock(p)
  PROVE  IInv'
<1>1. proc[p] \in Handler /\ ~Waiting(p)
  BY DEF IInv, TypeOK, Dock, At, Waiting, Owns, Awaiting
<1>2. faults' \in 0 .. MaxFaults /\ UNCHANGED <<mode, redis, row, registered, credits, escrow>>
  BY FaultCounts DEF Dock, IInv, Fault
<1>3. docks' \in [RoundKey -> Nat]
  <2>1. docks \in [RoundKey -> Nat] /\ proc[p].round \in RoundKey
    BY <1>1 DEF IInv, TypeOK, Handler
  <2>2. docks' = docks \/ docks' = [docks EXCEPT ![proc[p].round] = docks[proc[p].round] + 1]
    BY DEF Dock
  <2>. QED
    BY <2>1, <2>2
<1>4. Proceeds(p)
  BY <1>1, MoveProceeds DEF Dock
<1>5. /\ proc' \in [Process -> Handler]
      /\ \A q \in Process : HandlerOK(proc[q])'
      /\ PoolOK'
  BY <1>2, <1>4, ProceedsOK DEF escrow
<1>6. TypeOK'
  BY <1>2, <1>3, <1>5 DEF IInv, TypeOK, redis, escrow
<1>. QED
  BY <1>2, <1>5, <1>6 DEF IInv, LedgerOK, RecordOK, EscrowOK, Paid, redis, escrow

LEMMA ListenSteps ==
  ASSUME IInv, Listen
  PROVE  IInv'
<1>. DEFINE p == Listener
<1>1. p \in Process /\ proc[p] \in Handler
  BY DEF IInv, TypeOK, Process
<1>2. CASE Mirror
  <2>. DEFINE local == [Idle EXCEPT !.op = "ruling", !.round = Ruling]
  <2>1. /\ local \in Handler /\ local.tx = "none" /\ local.seen = Fresh
    BY IdleHandler DEF Handler, Idle, RoundKey
  <2>2. ~Waiting(p) /\ UNCHANGED <<mode, redis, ledger, escrow, faults>>
    BY <1>2 DEF Mirror, At, Waiting, Owns, Awaiting
  <2>3. ASSUME NEW at \in {"mark", "ruling"}, at = "mark" => Paid,
               Goto(p, [local EXCEPT !.at = at])
        PROVE  Proceeds(p)
    <3>. DEFINE next == [local EXCEPT !.at = at]
    <3>1. next \in Handler /\ next.at = at /\ next.tx = "none" /\ next.seen = Fresh
      BY ZenonT(60), <2>1 DEF Handler
    <3>. QED
      BY <1>1, <2>2, <2>3, <3>1, FreshProceeds
  <2>4. ruled = "worker" => Paid
    BY DEF IInv, RecordOK
  <2>5. Proceeds(p)
    BY <1>2, <2>3, <2>4 DEF Mirror
  <2>. QED
    BY <1>1, <2>2, <2>5, OnlyProc
<1>3. CASE ClaimRuling \/ UnclaimRuling \/ MarkDone
  <2>1. ~Waiting(p) /\ marks' \in Marks
    BY ZenonT(60), <1>3 DEF ClaimRuling, UnclaimRuling, MarkDone, At, Waiting, Owns, Awaiting, IInv, TypeOK, Marks
  <2>2. faults' \in 0 .. MaxFaults /\ UNCHANGED <<mode, state, backup, ledger, escrow>>
    BY <1>3, FaultCounts DEF ClaimRuling, UnclaimRuling, MarkDone, IInv, Fault
  <2>3. Write(p, proc[p], "failed") \/ Move(p, "round") \/ Done(p)
    BY <1>3 DEF ClaimRuling, UnclaimRuling, MarkDone
  <2>4. Proceeds(p)
    BY <1>1, <2>1, <2>3, WriteProceeds, MoveProceeds, DoneProceeds DEF Patch
  <2>. QED
    BY <1>1, <2>1, <2>2, <2>4, HandlerStep
<1>. QED
  BY <1>2, <1>3 DEF Listen

-----------------------------------------------------------------------------
(* The escrow: what it paid stays paid *)

LEMMA EscrowMoves ==
  ASSUME IInv, UNCHANGED <<offchain, pool, proc>>,
         chain' \in EscrowTask, Paid => Paid', EscrowOK',
         late' \in BOOLEAN, handed' \in BOOLEAN, ruled' \in {"none", "worker", "poster"},
         ruled' = "worker" => Paid', hJudged' = hJudged
           \/ hJudged' \in [Attempt -> [verdict : {"none", "pass", "fail"}, on : 0 .. MaxAttempts + 1]]
  PROVE  IInv'
<1>1. TypeOK'
  BY DEF IInv, TypeOK, offchain, redis, ledger
<1>2. \A p \in Process : HandlerOK(proc[p])'
  BY DEF IInv, HandlerOK
<1>3. PoolOK'
  BY DEF IInv, PoolOK, Waiting
<1>4. LedgerOK' /\ RecordOK'
  BY DEF IInv, LedgerOK, RecordOK, offchain, redis, ledger
<1>. QED
  BY <1>1, <1>2, <1>3, <1>4 DEF IInv

HistoryOK ==
  hJudged \in [Attempt -> [verdict : {"none", "pass", "fail"}, on : 0 .. MaxAttempts + 1]]

LEMMA JudgedTypes ==
  ASSUME IInv, NEW passed \in BOOLEAN, NEW on \in 0 .. MaxAttempts + 1, Judged(passed, on)
  PROVE  chain' \in EscrowTask /\ HistoryOK' /\ EscrowOK' /\ ~Paid /\ (passed => Paid')
<1>1. chain \in EscrowTask /\ HistoryOK /\ chain.status = "Submitted"
  BY DEF IInv, TypeOK, HistoryOK, Judged
<1>2. Outcome(passed) \in {"Completed", "Verified"} /\ (passed => Outcome(passed) = "Completed")
  BY DEF Outcome
<1>3. chain' = [chain EXCEPT !.status = Outcome(passed)]
  BY DEF Judged
<1>4. chain' \in EscrowTask /\ chain'.status = Outcome(passed)
  BY <1>1, <1>2, <1>3 DEF EscrowTask, EscrowStatus
<1>5. HistoryOK'
  <2>. DEFINE entry == [verdict |-> IF passed THEN "pass" ELSE "fail", on |-> on]
  <2>1. entry \in [verdict : {"none", "pass", "fail"}, on : 0 .. MaxAttempts + 1]
    OBVIOUS
  <2>2. hJudged' = [hJudged EXCEPT ![chain.attempts] = entry]
    BY DEF Judged
  <2>. QED
    BY <1>1, <2>1, <2>2 DEF HistoryOK
<1>. QED
  BY <1>1, <1>2, <1>4, <1>5 DEF EscrowOK, Paid

LEMMA MineStep ==
  ASSUME IInv, Mine
  PROVE  IInv'
<1>. DEFINE tx == Head(pool)
<1>1. pool \in Seq(Settlement) /\ pool # <<>>
  BY DEF IInv, TypeOK, Mine
<1>2. /\ tx = pool[1] /\ tx \in Settlement /\ Len(pool) \in Nat /\ 1 \in DOMAIN pool
      /\ pool' \in Seq(Settlement) /\ Len(pool') = Len(pool) - 1
      /\ \A i \in DOMAIN pool' : i + 1 \in DOMAIN pool /\ pool'[i] = pool[i + 1] /\ i \in Nat
  BY <1>1 DEF Mine
<1>3. PICK outcome \in {"success", "reverted"} :
        /\ proc' = [p \in Process |-> IF p = tx.by THEN [proc[p] EXCEPT !.tx = outcome]
                                      ELSE proc[p]]
        /\ \/ Judged(tx.passed, tx.on) /\ outcome = "success"
           \/ UNCHANGED <<chain, hJudged>> /\ outcome = "reverted"
  BY DEF Mine
<1>4. UNCHANGED <<mode, redis, ledger, faults, late, handed, ruled>>
  BY DEF Mine, offchain
<1>5. /\ chain' \in EscrowTask /\ HistoryOK' /\ EscrowOK' /\ (Paid => Paid')
      /\ outcome = "success" /\ tx.passed => Paid'
  <2>1. CASE Judged(tx.passed, tx.on) /\ outcome = "success"
    BY <1>2, <2>1, JudgedTypes DEF Settlement
  <2>2. CASE UNCHANGED <<chain, hJudged>> /\ outcome = "reverted"
    BY <2>2 DEF IInv, TypeOK, HistoryOK, EscrowOK, Paid
  <2>. QED
    BY <1>3, <2>1, <2>2
<1>6. \A p \in Process : p # tx.by => proc'[p] = proc[p]
  BY <1>3
<1>7. ASSUME NEW p \in Process
      PROVE  proc'[p] \in Handler /\ HandlerOK(proc[p])'
  <2>1. proc[p] \in Handler /\ HandlerOK(proc[p])
    BY DEF IInv, TypeOK
  <2>2. CASE p # tx.by
    BY <1>5, <1>6, <2>1, <2>2 DEF HandlerOK
  <2>3. CASE p = tx.by
    <3>. DEFINE next == [proc[p] EXCEPT !.tx = outcome]
    <3>1. proc'[p] = next
      BY <1>3, <2>3
    <3>2. next \in Handler /\ next.tx = outcome
      BY <2>1 DEF Handler
    <3>3. proc[p].passed = tx.passed
      <4>1. p # Nobody
        BY Parameters DEF Process
      <4>. QED
        BY <1>2, <2>3, <4>1 DEF IInv, PoolOK
    <3>4. /\ proc'[p].at = proc[p].at /\ proc'[p].patch = proc[p].patch
          /\ proc'[p].op = proc[p].op /\ proc'[p].seen = proc[p].seen
          /\ proc'[p].passed = proc[p].passed /\ proc'[p].tx = outcome
      BY <2>1, <3>1 DEF Handler
    <3>5. HandlerOK(proc[p])'
      BY <1>5, <2>1, <3>3, <3>4 DEF HandlerOK, Paying, Awaiting
    <3>. QED
      BY <3>1, <3>2, <3>5
  <2>. QED
    BY <2>2, <2>3
<1>8. PoolOK'
  \* What is still waited for is the newest; the oldest was not it.
  <2>1. ASSUME NEW i \in DOMAIN pool', pool'[i].by # Nobody
        PROVE  /\ i = Len(pool')
               /\ Owns(proc'[pool'[i].by]) /\ proc'[pool'[i].by].passed = pool'[i].passed
    <3>. DEFINE q == pool'[i].by
    <3>1. /\ i + 1 \in DOMAIN pool /\ pool'[i] = pool[i + 1] /\ i \in Nat
          /\ i + 1 = Len(pool) /\ Owns(proc[q]) /\ proc[q].passed = pool'[i].passed
      BY <1>2, <2>1 DEF IInv, PoolOK, Waiting
    <3>2. tx.by = Nobody \/ 1 = Len(pool)
      BY <1>2 DEF IInv, PoolOK
    <3>3. i >= 1
      <4>1. DOMAIN pool' = 1 .. Len(pool')
        BY <1>2
      <4>. QED
        BY <4>1
    <3>4. tx.by = Nobody
      BY <1>2, <3>1, <3>2, <3>3
    <3>5. q \in Process
      <4>1. pool[i + 1] \in Settlement
        BY <3>1, PoolEntry DEF IInv
      <4>. QED
        BY <2>1, <3>1, <4>1 DEF Settlement
    <3>6. proc'[q] = proc[q]
      BY <1>6, <2>1, <3>4, <3>5
    <3>. QED
      BY <1>2, <3>1, <3>6
  <2>. QED
    BY <2>1 DEF PoolOK, Waiting, Owns, Awaiting
<1>9. TypeOK'
  <2>1. proc' \in [Process -> Handler]
    BY <1>3, <1>7
  <2>. QED
    BY <1>2, <1>4, <1>5, <2>1 DEF IInv, TypeOK, HistoryOK, redis, ledger
<1>. QED
  BY <1>4, <1>5, <1>7, <1>8, <1>9 DEF IInv, LedgerOK, RecordOK, redis, ledger

LEMMA ChainStep ==
  ASSUME IInv, Chain
  PROVE  IInv'
<1>1. chain \in EscrowTask /\ late \in BOOLEAN /\ handed \in BOOLEAN
      /\ ruled \in {"none", "worker", "poster"} /\ (ruled = "worker" => Paid)
      /\ (chain.status = "Assigned" => chain.attempts = 0)
  BY DEF IInv, TypeOK, RecordOK, EscrowOK
<1>2. CASE SubmitEvidence
  <2>. DEFINE next == [chain EXCEPT !.status = "Submitted", !.attempts = chain.attempts + 1]
  <2>1. chain' = next /\ chain.status \in {"Assigned", "Verified"}
        /\ (chain.status = "Assigned" \/ chain.attempts < MaxAttempts)
        /\ handed' = FALSE /\ UNCHANGED <<offchain, late, pool, ruled, hJudged, proc>>
    BY <1>2 DEF SubmitEvidence
  <2>2. chain.attempts + 1 \in 0 .. MaxAttempts
    BY <1>1, <2>1, Parameters DEF EscrowTask
  <2>3. next \in EscrowTask /\ next.status = "Submitted"
    BY <1>1, <2>2 DEF EscrowTask, EscrowStatus
  <2>. QED
    BY <1>1, <2>1, <2>3, EscrowMoves DEF EscrowOK, Paid
<1>3. ASSUME NEW passed \in BOOLEAN, VerifierSettles(passed)
      PROVE  IInv'
  <2>1. chain.attempts \in 0 .. MaxAttempts + 1
    BY <1>1, Parameters DEF EscrowTask
  <2>2. Judged(passed, chain.attempts) /\ UNCHANGED <<offchain, late, handed, pool, ruled, proc>>
    BY <1>3 DEF VerifierSettles
  <2>3. chain' \in EscrowTask /\ HistoryOK' /\ EscrowOK' /\ ~Paid
    BY <2>1, <2>2, JudgedTypes
  <2>. QED
    BY <1>1, <2>2, <2>3, EscrowMoves DEF HistoryOK
<1>4. CASE Mine
  BY <1>4, MineStep
<1>5. CASE Deadline
  BY <1>1, <1>5, EscrowMoves DEF Deadline, EscrowOK, Paid
<1>6. ASSUME NEW next \in EscrowTask, chain' = next, chain.status # "Completed",
             next.status \in {"Disputed", "Cancelled", "Completed"}, NEW favours,
             favours \in {"worker", "poster"}, ruled' = favours \/ ruled' = ruled,
             ruled' = "worker" => next.status = "Completed" \/ ruled = "worker",
             UNCHANGED <<offchain, late, handed, pool, hJudged, proc>>
      PROVE  IInv'
  BY <1>1, <1>6, EscrowMoves DEF EscrowOK, Paid
<1>7. CASE Dispute
  <2>. DEFINE next == [chain EXCEPT !.status = "Disputed"]
  <2>1. next \in EscrowTask /\ next.status = "Disputed"
    BY <1>1 DEF EscrowTask, EscrowStatus
  <2>. QED
    BY <1>7, <2>1, <1>6 DEF Dispute
<1>8. CASE ClaimTimeout
  <2>. DEFINE escalated == [chain EXCEPT !.status = "Disputed", !.escalated = TRUE]
              refunded == [chain EXCEPT !.status = "Cancelled"]
  <2>1. /\ escalated \in EscrowTask /\ escalated.status = "Disputed"
        /\ refunded \in EscrowTask /\ refunded.status = "Cancelled"
    BY <1>1 DEF EscrowTask, EscrowStatus
  <2>. QED
    BY <1>8, <2>1, <1>6 DEF ClaimTimeout
<1>9. ASSUME NEW favours \in {"worker", "poster"}, Rule(favours)
      PROVE  IInv'
  <2>. DEFINE next == [chain EXCEPT !.status = IF favours = "worker" THEN "Completed"
                                               ELSE "Cancelled"]
  <2>1. next \in EscrowTask /\ next.status = (IF favours = "worker" THEN "Completed"
                                              ELSE "Cancelled")
    BY <1>1 DEF EscrowTask, EscrowStatus
  <2>. QED
    BY <1>9, <2>1, <1>6 DEF Rule
<1>. QED
  BY <1>2, <1>3, <1>4, <1>5, <1>7, <1>8, <1>9 DEF Chain

-----------------------------------------------------------------------------
(* The host *)

LEMMA RebroadcastStep ==
  ASSUME IInv, Rebroadcast
  PROVE  IInv'
<1>1. /\ UNCHANGED <<offchain, pool, proc, chain, late, ruled, hJudged>> /\ handed' \in BOOLEAN
  BY DEF Rebroadcast, offchain
<1>2. chain \in EscrowTask /\ late \in BOOLEAN /\ ruled \in {"none", "worker", "poster"}
      /\ (ruled = "worker" => Paid) /\ EscrowOK
  BY DEF IInv, TypeOK, RecordOK
<1>. QED
  BY <1>1, <1>2, EscrowMoves DEF EscrowOK, Paid

\* Neither a handler, the pool nor the escrow moves.
LEMMA HostOnly ==
  ASSUME IInv, UNCHANGED <<mode, escrow, proc>>,
         state' \in TaskState, marks' \in Marks, backup' \in [state : TaskState, marks : Marks],
         state'.status = "verified" => Paid, backup'.state.status = "verified" => Paid,
         registered' \in BOOLEAN, UNCHANGED <<row, credits, docks>>, faults' \in 0 .. MaxFaults
  PROVE  IInv'
<1>1. TypeOK'
  BY DEF IInv, TypeOK, escrow
<1>2. \A p \in Process : HandlerOK(proc[p])'
  BY DEF IInv, HandlerOK, Paid, escrow
<1>3. PoolOK'
  BY DEF IInv, PoolOK, Waiting, escrow
<1>4. LedgerOK' /\ RecordOK' /\ EscrowOK'
  BY DEF IInv, LedgerOK, RecordOK, EscrowOK, Paid, escrow
<1>. QED
  BY <1>1, <1>2, <1>3, <1>4 DEF IInv

LEMMA CrashStep ==
  ASSUME IInv, Crash
  PROVE  IInv'
<1>1. faults' \in 0 .. MaxFaults /\ UNCHANGED <<mode, redis, ledger, chain, late, handed, ruled, hJudged>>
  BY FaultCounts DEF Crash, IInv, Fault
<1>2. proc' \in [Process -> Handler] /\ \A p \in Process : proc'[p] = Idle
  BY IdleHandler DEF Crash
<1>3. \A p \in Process : HandlerOK(proc[p])'
  BY <1>1, <1>2, IdleHandler DEF HandlerOK, Paid
<1>4. pool' \in Seq(Settlement) /\ \A i \in DOMAIN pool' : pool'[i].by = Nobody
  <2>1. \A i \in DOMAIN pool : pool[i].by \in Process \cup {Nobody}
    BY PoolEntry DEF IInv, Settlement
  <2>2. pool' = Abandon(pool, Process) /\ pool \in Seq(Settlement)
    BY DEF Crash, IInv, TypeOK
  <2>3. /\ pool' \in Seq(Settlement) /\ DOMAIN pool' = DOMAIN pool
        /\ \A i \in DOMAIN pool : /\ pool[i].by \in Process => pool'[i].by = Nobody
                                  /\ pool[i].by \notin Process => pool'[i] = pool[i]
    BY <2>2, AbandonOK
  <2>. QED
    BY <2>1, <2>3
<1>5. TypeOK'
  BY <1>1, <1>2, <1>4 DEF IInv, TypeOK, redis, ledger
<1>. QED
  BY <1>1, <1>3, <1>4, <1>5
     DEF IInv, LedgerOK, RecordOK, EscrowOK, PoolOK, Paid, redis, ledger

LEMMA HostStep ==
  ASSUME IInv, Host
  PROVE  IInv'
<1>1. /\ state \in TaskState /\ marks \in Marks /\ backup \in [state : TaskState, marks : Marks]
      /\ state.status = "verified" => Paid
      /\ backup.state.status = "verified" => Paid
      /\ registered \in BOOLEAN /\ faults \in 0 .. MaxFaults
  BY DEF IInv, TypeOK, RecordOK
<1>2. CASE Register
  BY <1>1, <1>2, HostOnly DEF Register, redis
<1>3. CASE Crash
  BY <1>3, CrashStep
<1>4. CASE Snapshot
  BY <1>1, <1>4, HostOnly DEF Snapshot, ledger
<1>5. CASE Restore
  <2>1. faults' \in 0 .. MaxFaults
    BY <1>5, FaultCounts DEF Restore, IInv, Fault
  <2>. QED
    BY <1>1, <1>5, <2>1, HostOnly DEF Restore, ledger
<1>. QED
  BY <1>2, <1>3, <1>4, <1>5 DEF Host

-----------------------------------------------------------------------------
(* The invariant *)

LEMMA InitIInv == Init => IInv
<1>. SUFFICES ASSUME Init PROVE IInv
  OBVIOUS
<1>1. Fresh \in TaskState /\ Unmarked \in Marks /\ Assigned \in EscrowTask
  BY IdleHandler, Parameters DEF Unmarked, Marks, Assigned, EscrowTask, EscrowStatus
<1>2. 0 \in 0 .. MaxFaults /\ 0 \in 0 .. MaxAttempts + 1
  BY Parameters
<1>3. registered \in BOOLEAN
  BY DEF Init
<1>4. TypeOK
  <2>1. /\ mode \in Mode /\ state \in TaskState /\ marks \in Marks
        /\ row \in BOOLEAN /\ registered \in BOOLEAN /\ credits \in Nat
        /\ chain \in EscrowTask /\ late \in BOOLEAN /\ handed \in BOOLEAN
        /\ ruled \in {"none", "worker", "poster"} /\ faults \in 0 .. MaxFaults
    BY <1>1, <1>2, <1>3 DEF Init
  <2>2. backup \in [state : TaskState, marks : Marks]
    BY <1>1 DEF Init
  <2>3. docks \in [RoundKey -> Nat] /\ proc \in [Process -> Handler] /\ pool \in Seq(Settlement)
    BY IdleHandler DEF Init
  <2>4. hJudged \in [Attempt -> [verdict : {"none", "pass", "fail"}, on : 0 .. MaxAttempts + 1]]
    BY <1>2 DEF Init
  <2>. QED
    BY <2>1, <2>2, <2>3, <2>4 DEF TypeOK
<1>5. \A p \in Process : HandlerOK(proc[p])
  BY IdleHandler DEF Init
<1>6. PoolOK
  BY DEF Init, PoolOK
<1>7. LedgerOK /\ RecordOK /\ EscrowOK
  BY DEF Init, LedgerOK, RecordOK, EscrowOK, Fresh, Assigned
<1>. QED
  BY <1>4, <1>5, <1>6, <1>7 DEF IInv

LEMMA ContinueStep ==
  ASSUME IInv, NEW p \in Process, Continue(p)
  PROVE  IInv'
BY ReadChainStep, LoadStep, StoreStep, SendStep, RereadStep, ReceiptStep, MarkStep, ClaimStep,
   UnmarkStep, DisputeSteps, DockStep DEF Continue

LEMMA NextIInv == IInv /\ [Next]_vars => IInv'
<1>. SUFFICES ASSUME IInv, [Next]_vars PROVE IInv'
  OBVIOUS
<1>1. ASSUME NEW c \in Call, Route(c) \/ WaitTimeout(c)
      PROVE  IInv'
  BY <1>1, RouteSteps, WaitTimeoutStep DEF Process
<1>2. ASSUME NEW p \in Process, Continue(p)
      PROVE  IInv'
  BY <1>2, ContinueStep
<1>3. CASE UNCHANGED vars
  <2>1. UNCHANGED <<mode, redis, ledger, escrow, proc, faults>>
    BY <1>3 DEF vars
  <2>. QED
    BY <2>1 DEF redis, ledger, escrow, IInv, TypeOK, LedgerOK, RecordOK, EscrowOK, HandlerOK,
                PoolOK, Waiting, Paid
<1>. QED
  BY <1>1, <1>2, <1>3, RebroadcastStep, ListenSteps, ChainStep, HostStep DEF Next

\* The strengthening holds in every reachable state: no step of a route, of the
\* listener, of the escrow or of the host takes a payment back, and no handler
\* credits or writes "verified" before there is one.
THEOREM Invariance == Spec => []IInv
BY InitIInv, NextIInv, PTL DEF Spec

-----------------------------------------------------------------------------
(* What follows from it *)

(* The variables keep their types whatever the handlers, the verifier, the *)
(* miners and the faults do: a round stays within MAX_SUBMISSION_ATTEMPTS  *)
(* (submitEvidence) and the record's statuses are updateState's.           *)
THEOREM DeliveryTypes == Spec => []TypeOK
<1>1. IInv => TypeOK
  BY DEF IInv
<1>. QED
  BY <1>1, Invariance, PTL

(* recordWorkerPayout moves an executor's earnings at most once, for a     *)
(* task the escrow paid out, with any number of observers and faults.      *)
THEOREM CreditsFollowPayments == Spec => []CreditedOncePaid
<1>1. IInv => CreditedOncePaid
  BY DEF IInv, LedgerOK, CreditedOncePaid, Paid
<1>. QED
  BY <1>1, Invariance, PTL

(* No observer, and no restored snapshot, closes the record of a task as   *)
(* "verified" before the escrow has paid its executor (settleVerification, *)
(* creditSettledPass, disputeListener).                                    *)
THEOREM VerifiedIsPaid == Spec => []VerifiedMeansPaid
<1>1. IInv => VerifiedMeansPaid
  BY DEF IInv, RecordOK, VerifiedMeansPaid, Paid
<1>. QED
  BY <1>1, Invariance, PTL

-----------------------------------------------------------------------------
(* The accounts mirror the escrow.  A query that fails after it has        *)
(* changed the reputation, or a Redis that forgets which rounds were       *)
(* docked, lets a round be docked again; every other fault is allowed.     *)
Remembered == Happens \cap {"db", "restore"} = {}

(* On the way to costing reputation.                                       *)
Docking(local) ==
  \/ local.at \in {"ruling", "round", "dock"}
  \/ local.at \in {"load", "store"} /\ local.patch = "failed" /\ local.op # "ruling"

(* From the choice to settle a round to what becomes of it.                *)
Settling(local) == local.at \in {"send", "reread"} \/ Awaiting(local)

CauseOK(local) ==
  /\ Docking(local) => local.round \in Failures
  /\ Settling(local) => local.round \in Attempt /\ local.round <= chain.attempts
  /\ Awaiting(local) /\ local.tx = "success" /\ ~local.passed => local.round \in Failures

(* The rounds before the last have failed, and nothing after it has.       *)
RoundsOK ==
  /\ chain.status \in {"Submitted", "Verified"} => chain.attempts \in Attempt
  /\ \A r \in Attempt :
       /\ r < chain.attempts => hJudged[r].verdict = "fail"
       /\ hJudged[r].verdict = "fail" => r <= chain.attempts
  /\ chain.status = "Submitted" => hJudged[chain.attempts].verdict # "fail"
  /\ chain.status = "Verified" => hJudged[chain.attempts].verdict = "fail"
  /\ ruled # "none" => chain.status \in {"Completed", "Cancelled"}

(* Whoever is about to dock holds the round's marker alone.                *)
DocksOK ==
  /\ \A r \in RoundKey : docks[r] \in 0 .. 1 /\ (docks[r] = 1 => r \in marks.rounds)
  /\ \A p \in Process : At(p, "dock") =>
       proc[p].round \in marks.rounds /\ docks[proc[p].round] = 0
  /\ \A p, q \in Process :
       At(p, "dock") /\ At(q, "dock") /\ proc[p].round = proc[q].round => p = q
  /\ \A p \in Process : ~At(p, "unround")

CauseInv == RoundsOK /\ \A p \in Process : CauseOK(proc[p])
MirrorInv == CauseInv /\ DocksOK

LEMMA FailedRound ==
  ASSUME TypeOK, RoundsOK, NEW r \in Attempt, r <= chain.attempts,
         r < chain.attempts \/ chain.status = "Verified"
  PROVE  r \in Failures
<1>1. chain.attempts \in Nat /\ r \in Nat
  BY Parameters DEF TypeOK, EscrowTask, Attempt
<1>. QED
  BY <1>1 DEF RoundsOK, Failures

(* One handler goes on; and where to, if not to docking.                   *)
Causes(p) == CauseOK(proc'[p]) /\ \A q \in Process : q # p => proc'[q] = proc[q]
Goes(p) == Causes(p) /\ proc'[p].at \notin {"dock", "unround"}

Seen(p, local) == proc'[p] = local /\ \A q \in Process : q # p => proc'[q] = proc[q]

LEMMA GotoSeen ==
  ASSUME IInv, NEW p \in Process, NEW local, Goto(p, local)
  PROVE  Seen(p, local)
BY DEF IInv, TypeOK, Goto, Seen

LEMMA DoneGoes ==
  ASSUME IInv, NEW p \in Process, Done(p)
  PROVE  Goes(p)
<1>1. Seen(p, Idle)
  BY GotoSeen DEF Done
<1>. QED
  BY <1>1 DEF Seen, Goes, Causes, Idle, CauseOK, Docking, Settling, Awaiting

LEMMA MoveGoes ==
  ASSUME IInv, NEW p \in Process, NEW at, Move(p, at),
         at \in {"claim", "unmark", "history", "unrule", "round", "reread"},
         at = "round" => proc[p].round \in Failures,
         at = "reread" => proc[p].round \in Attempt /\ proc[p].round <= chain.attempts
  PROVE  Goes(p)
<1>1. Seen(p, [proc[p] EXCEPT !.at = at])
  BY GotoSeen DEF Move
<1>2. proc[p] \in Handler
  BY DEF IInv, TypeOK
<1>3. proc'[p].at = at /\ proc'[p].round = proc[p].round
  BY <1>1, <1>2 DEF Seen, Handler
<1>. QED
  BY <1>1, <1>3 DEF Seen, Goes, Causes, CauseOK, Docking, Settling, Awaiting

LEMMA WriteGoes ==
  ASSUME IInv, NEW p \in Process, NEW local \in Handler, NEW patch, Write(p, local, patch),
         patch = "failed" => local.op = "ruling" \/ local.round \in Failures,
         patch = "txHash" => /\ local.tx # "success" /\ local.round \in Attempt
                             /\ local.round <= chain.attempts
  PROVE  Goes(p)
<1>. DEFINE next == [local EXCEPT !.at = "load", !.patch = patch, !.seen = Fresh,
                                  !.marker = "none"]
<1>1. Seen(p, next)
  BY GotoSeen DEF Write
<1>2. next.at = "load" /\ next.patch = patch /\ next.op = local.op /\ next.round = local.round
      /\ next.tx = local.tx
  BY DEF Handler
<1>. HIDE DEF next
<1>. QED
  BY <1>1, <1>2 DEF Seen, Goes, Causes, CauseOK, Docking, Settling, Awaiting

LEMMA AdoptGoes ==
  ASSUME IInv, NEW p \in Process, NEW local \in Handler, Adopt(p, local),
         ~local.passed => local.round \in Failures
  PROVE  Goes(p)
<1>. DEFINE next == [Idle EXCEPT !.op = local.op, !.round = local.round]
<1>1. next \in Handler /\ next.round = local.round
  BY IdleHandler DEF Handler, Idle
<1>2. CASE local.passed
  <2>1. Seen(p, [next EXCEPT !.at = "mark"])
    BY <1>2, GotoSeen DEF Adopt
  <2>2. proc'[p].at = "mark"
    BY <1>1, <2>1 DEF Seen, Handler
  <2>. QED
    BY <2>1, <2>2 DEF Seen, Goes, Causes, CauseOK, Docking, Settling, Awaiting
<1>3. CASE ~local.passed
  BY <1>1, <1>3, WriteGoes DEF Adopt
<1>. QED
  BY <1>2, <1>3

LEMMA CreditedGoes ==
  ASSUME IInv, NEW p \in Process, Credited(p, proc[p])
  PROVE  Goes(p)
<1>1. proc[p] \in Handler
  BY DEF IInv, TypeOK
<1>. QED
  BY <1>1, WriteGoes, DoneGoes DEF Credited

LEMMA DockedGoes ==
  ASSUME IInv, NEW p \in Process, Docked(p) \/ DockFailed(p)
  PROVE  Goes(p)
<1>1. proc[p] \in Handler
  BY DEF IInv, TypeOK
<1>. QED
  BY <1>1, WriteGoes, DoneGoes, MoveGoes DEF Docked, DockFailed

-----------------------------------------------------------------------------
(* What the promise sees of the steps *)

(* A handler goes on; what it writes, if anything, are markers.            *)
Quiet(p) ==
  /\ Goes(p) /\ UNCHANGED <<chain, ruled, hJudged, docks>>
  /\ marks.rounds \subseteq marks'.rounds

LEMMA QuietStep ==
  ASSUME MirrorInv, NEW p \in Process, Quiet(p)
  PROVE  MirrorInv'
<1>1. \A q \in Process : q # p => proc'[q] = proc[q]
  BY DEF Quiet, Goes, Causes
<1>2. Failures' = Failures /\ chain' = chain
  BY DEF Quiet, Failures
<1>3. \A q \in Process : CauseOK(proc[q])'
  BY <1>1, <1>2 DEF Quiet, Goes, Causes, MirrorInv, CauseInv, CauseOK
<1>4. RoundsOK'
  BY DEF Quiet, MirrorInv, CauseInv, RoundsOK
<1>5. DocksOK'
  BY <1>1 DEF Quiet, Goes, MirrorInv, DocksOK, At
<1>. QED
  BY <1>3, <1>4, <1>5 DEF MirrorInv, CauseInv

LEMMA RouteMirrored ==
  ASSUME IInv, CauseInv, NEW c \in Call, Route(c)
  PROVE  Quiet(c) /\ UNCHANGED credits
<1>1. c \in Process /\ UNCHANGED <<mode, redis, ledger, escrow, faults>>
  BY DEF Process, Route, Submit, Verify, Verdict, Finalize, Begin, Confirm
<1>2. ASSUME NEW op, NEW passed, Begin(c, op, passed)
      PROVE  Goes(c)
  <2>1. Seen(c, [Idle EXCEPT !.at = "chain", !.op = op, !.seen = state, !.passed = passed])
    BY <1>1, <1>2, GotoSeen DEF Begin
  <2>. QED
    BY <2>1 DEF Seen, Goes, Causes, Idle, CauseOK, Docking, Settling, Awaiting
<1>3. ASSUME Confirm(c)
      PROVE  Goes(c)
  <2>. DEFINE local == [Idle EXCEPT !.op = "confirm"]
  <2>1. local \in Handler /\ local.tx = "none"
    BY IdleHandler DEF Handler, Idle
  <2>2. CASE Goto(c, [local EXCEPT !.at = "mark"])
    <3>1. Seen(c, [local EXCEPT !.at = "mark"])
      BY <1>1, <2>2, GotoSeen
    <3>2. proc'[c].at = "mark"
      BY <2>1, <3>1 DEF Seen, Handler
    <3>. QED
      BY <3>1, <3>2 DEF Seen, Goes, Causes, CauseOK, Docking, Settling, Awaiting
  <2>3. ASSUME NEW r \in Attempt, hJudged[r].verdict = "fail",
               Goto(c, [local EXCEPT !.at = "round", !.round = r])
        PROVE  Goes(c)
    <3>1. Seen(c, [local EXCEPT !.at = "round", !.round = r])
      BY <1>1, <2>3, GotoSeen
    <3>2. r \in Failures
      BY <2>3 DEF Failures
    <3>3. proc'[c].at = "round" /\ proc'[c].round = r
      BY <2>1, <3>1 DEF Seen, Handler
    <3>. QED
      BY <3>1, <3>2, <3>3 DEF Seen, Goes, Causes, CauseOK, Docking, Settling, Awaiting
  <2>. QED
    BY <1>3, <2>2, <2>3 DEF Confirm
<1>4. ASSUME NEW answer \in BOOLEAN, Submit(c, answer) \/ Verify(c, answer) \/ Verdict(c, answer)
      PROVE  Goes(c)
  <2>1. Begin(c, "submit", answer) \/ Begin(c, "verify", answer) \/ Begin(c, "verdict", answer)
    BY <1>4 DEF Submit, Verify, Verdict
  <2>. QED
    BY <1>2, <2>1
<1>5. ASSUME Finalize(c)
      PROVE  Goes(c)
  BY <1>2, <1>5 DEF Finalize
<1>6. Goes(c)
  BY <1>3, <1>4, <1>5 DEF Route
<1>. QED
  BY <1>1, <1>6 DEF Quiet, redis, ledger, escrow

LEMMA ReadChainMirrored ==
  ASSUME IInv, CauseInv, NEW c \in Process, ReadChain(c)
  PROVE  Goes(c)
<1>. DEFINE local == [proc[c] EXCEPT !.round = chain.attempts]
            told == [local EXCEPT !.passed = (chain.status = "Completed")]
<1>1. proc[c] \in Handler /\ proc[c].at = "chain" /\ CauseOK(proc[c])
      /\ chain.attempts \in 0 .. MaxAttempts
  BY DEF ReadChain, At, IInv, TypeOK, CauseInv, EscrowTask
<1>2. chain.attempts \in RoundKey /\ chain.attempts <= chain.attempts
  BY <1>1, Parameters DEF RoundKey, Attempt, Ruling
<1>3. local \in Handler /\ told \in Handler /\ local.round = chain.attempts
      /\ told.round = chain.attempts /\ told.passed = (chain.status = "Completed")
  BY <1>1, <1>2 DEF Handler
<1>4. CASE Write(c, local, "submitted") \/ Write(c, local, "awaiting_verification")
  BY <1>3, <1>4, WriteGoes
<1>5. CASE MaySettle(local) /\ Goto(c, [local EXCEPT !.at = "send"])
  <2>. DEFINE next == [local EXCEPT !.at = "send"]
  <2>1. Seen(c, next) /\ next.at = "send" /\ next.round = chain.attempts
    BY <1>3, <1>5, GotoSeen DEF Handler
  <2>2. chain.attempts \in Attempt
    BY <1>5 DEF MaySettle, CauseInv, RoundsOK
  <2>. HIDE DEF next
  <2>. QED
    BY <1>2, <2>1, <2>2 DEF Seen, Goes, Causes, CauseOK, Docking, Settling, Awaiting
<1>6. CASE MayAdopt(local) /\ Adopt(c, told)
  <2>1. ~told.passed => chain.attempts \in Failures
    BY <1>2, <1>3, <1>6, FailedRound DEF MayAdopt, CauseInv, RoundsOK, IInv
  <2>. QED
    BY <1>3, <1>6, <2>1, AdoptGoes
<1>7. CASE Done(c)
  BY <1>7, DoneGoes
<1>. QED
  BY <1>4, <1>5, <1>6, <1>7 DEF ReadChain

LEMMA LoadMirrored ==
  ASSUME IInv, CauseInv, NEW p \in Process, Load(p)
  PROVE  Goes(p)
<1>1. proc[p] \in Handler /\ CauseOK(proc[p]) /\ proc[p].at = "load"
  BY DEF IInv, TypeOK, Load, At, CauseInv
<1>2. Seen(p, [proc[p] EXCEPT !.at = "store", !.seen = state])
  BY GotoSeen DEF Load
<1>3. /\ proc'[p].at = "store" /\ proc'[p].patch = proc[p].patch /\ proc'[p].op = proc[p].op
      /\ proc'[p].round = proc[p].round /\ proc'[p].tx = proc[p].tx
      /\ proc'[p].passed = proc[p].passed
  BY <1>1, <1>2 DEF Seen, Handler
<1>. QED
  BY <1>1, <1>2, <1>3 DEF Seen, Goes, Causes, CauseOK, Docking, Settling, Awaiting

LEMMA StoreMirrored ==
  ASSUME IInv, CauseInv, NEW p \in Process, Store(p)
  PROVE  Goes(p)
<1>1. proc[p] \in Handler /\ CauseOK(proc[p]) /\ proc[p].at = "store"
  BY DEF IInv, TypeOK, Store, At, CauseInv
<1>2. CASE proc[p].patch = "txHash" /\ Goto(p, [proc[p] EXCEPT !.at = "wait", !.seen = Fresh])
  <2>1. Seen(p, [proc[p] EXCEPT !.at = "wait", !.seen = Fresh])
    BY <1>2, GotoSeen
  <2>2. /\ proc'[p].at = "wait" /\ proc'[p].round = proc[p].round /\ proc'[p].tx = proc[p].tx
        /\ proc'[p].passed = proc[p].passed
    BY <1>1, <2>1 DEF Seen, Handler
  <2>. QED
    BY <1>1, <1>2, <2>1, <2>2 DEF Seen, Goes, Causes, CauseOK, Docking, Settling, Awaiting
<1>3. CASE Goto(p, [Idle EXCEPT !.at = "done", !.op = "ruling"])
  <2>1. Seen(p, [Idle EXCEPT !.at = "done", !.op = "ruling"])
    BY <1>3, GotoSeen
  <2>. QED
    BY <2>1 DEF Seen, Goes, Causes, Idle, CauseOK, Docking, Settling, Awaiting
<1>4. CASE /\ proc[p].op # "ruling" /\ proc[p].patch = "failed"
           /\ Goto(p, [Idle EXCEPT !.at = "round", !.op = proc[p].op, !.round = proc[p].round])
  <2>1. Seen(p, [Idle EXCEPT !.at = "round", !.op = proc[p].op, !.round = proc[p].round])
    BY <1>4, GotoSeen
  <2>2. proc'[p].at = "round" /\ proc'[p].round = proc[p].round
    BY <2>1 DEF Seen, Idle
  <2>3. proc[p].round \in Failures
    BY <1>1, <1>4 DEF CauseOK, Docking
  <2>. QED
    BY <2>1, <2>2, <2>3 DEF Seen, Goes, Causes, CauseOK, Docking, Settling, Awaiting
<1>5. CASE Done(p)
  BY <1>5, DoneGoes
<1>. QED
  BY <1>2, <1>3, <1>4, <1>5 DEF Store

LEMMA SettlementMirrored ==
  ASSUME IInv, CauseInv, NEW c \in Process,
         Send(c) \/ Reread(c) \/ Receipt(c) \/ WaitTimeout(c)
  PROVE  Goes(c)
<1>1. proc[c] \in Handler /\ CauseOK(proc[c])
  BY DEF IInv, TypeOK, CauseInv
<1>2. CASE Send(c)
  <2>. DEFINE local == [proc[c] EXCEPT !.tx = "pool"]
  <2>1. proc[c].round \in Attempt /\ proc[c].round <= chain.attempts
    BY <1>1, <1>2 DEF Send, At, CauseOK, Settling
  <2>2. local \in Handler /\ local.tx = "pool" /\ local.round = proc[c].round
    BY <1>1 DEF Handler
  <2>3. Write(c, local, "txHash") \/ Move(c, "reread") \/ Write(c, proc[c], "verifyError")
    BY <1>2 DEF Send
  <2>. QED
    BY <1>1, <2>1, <2>2, <2>3, WriteGoes, MoveGoes
<1>3. CASE Reread(c)
  <2>1. proc[c].round \in Attempt /\ proc[c].round <= chain.attempts
    BY <1>1, <1>3 DEF Reread, At, CauseOK, Settling
  <2>2. chain.status = Outcome(proc[c].passed) /\ ~proc[c].passed => proc[c].round \in Failures
    BY <2>1, FailedRound DEF Outcome, IInv, CauseInv
  <2>. QED
    BY <1>1, <1>3, <2>2, WriteGoes, AdoptGoes DEF Reread
<1>4. CASE Receipt(c)
  <2>1. proc[c].tx = "success" /\ ~proc[c].passed => proc[c].round \in Failures
    BY <1>1, <1>4 DEF Receipt, At, CauseOK, Awaiting
  <2>. QED
    BY <1>1, <1>4, <2>1, WriteGoes, AdoptGoes DEF Receipt
<1>5. CASE WaitTimeout(c)
  <2>1. [proc[c] EXCEPT !.tx = "none"] \in Handler
    BY <1>1 DEF Handler
  <2>. QED
    BY <1>5, <2>1, WriteGoes DEF WaitTimeout
<1>. QED
  BY <1>2, <1>3, <1>4, <1>5

\* A credit is earned by a payment; no other step of the accounting pays.
LEMMA CreditingMirrored ==
  ASSUME IInv, CauseInv, NEW p \in Process, Mark(p) \/ Claim(p) \/ Unmark(p)
  PROVE  Quiet(p) /\ (UNCHANGED credits \/ (Paid /\ credits = 0 /\ credits' = 1))
<1>1. proc[p] \in Handler /\ HandlerOK(proc[p]) /\ marks \in Marks
  BY DEF IInv, TypeOK
<1>2. Goes(p)
  <2>1. ASSUME NEW at \in {"claim", "unmark"}, NEW marker,
               Goto(p, [proc[p] EXCEPT !.at = at, !.marker = marker])
        PROVE  Goes(p)
    <3>1. Seen(p, [proc[p] EXCEPT !.at = at, !.marker = marker])
      BY <2>1, GotoSeen
    <3>2. proc'[p].at = at
      BY <1>1, <3>1 DEF Seen, Handler
    <3>. QED
      BY <3>1, <3>2 DEF Seen, Goes, Causes, CauseOK, Docking, Settling, Awaiting
  <2>. QED
    BY <2>1, CreditedGoes, DoneGoes, MoveGoes DEF Mark, Claim, Unmark
<1>3. UNCHANGED <<chain, ruled, hJudged, docks>> /\ marks'.rounds = marks.rounds
  BY <1>1 DEF Mark, Claim, Unmark, ledger, redis, escrow, Marks
<1>4. UNCHANGED credits \/ (Paid /\ credits = 0 /\ credits' = 1)
  <2>1. CASE Claim(p) /\ ~row /\ credits' = credits + 1
    <3>1. Paid
      BY <1>1, <2>1 DEF Claim, At, HandlerOK, Paying
    <3>2. credits = 0 /\ credits' = 1
      BY <2>1 DEF IInv, LedgerOK
    <3>. QED
      BY <3>1, <3>2
  <2>. QED
    BY <2>1 DEF Mark, Claim, Unmark, ledger
<1>. QED
  BY <1>2, <1>3, <1>4 DEF Quiet

\* Whoever takes a round's marker docks it, and nobody else does.
LEMMA ClaimRoundMirrored ==
  ASSUME IInv, MirrorInv, NEW p \in Process, ClaimRound(p)
  PROVE  MirrorInv' /\ UNCHANGED <<chain, ruled, hJudged, credits, docks>>
<1>. DEFINE r == proc[p].round
<1>1. /\ proc[p] \in Handler /\ r \in RoundKey /\ proc[p].at = "round" /\ CauseOK(proc[p])
      /\ marks \in Marks
  BY DEF IInv, TypeOK, Handler, ClaimRound, At, MirrorInv, CauseInv
<1>2. UNCHANGED <<chain, ruled, hJudged, credits, docks>>
  BY DEF ClaimRound, ledger, escrow
<1>3. CASE (Docked(p) \/ DockFailed(p)) /\ marks.rounds \subseteq marks'.rounds
  BY <1>2, <1>3, DockedGoes, QuietStep DEF Quiet
<1>4. CASE r \notin marks.rounds /\ marks' = [marks EXCEPT !.rounds = @ \cup {r}] /\ Move(p, "dock")
  <2>1. marks'.rounds = marks.rounds \cup {r}
    BY <1>1, <1>4 DEF Marks
  <2>2. Seen(p, [proc[p] EXCEPT !.at = "dock"])
    BY <1>4, GotoSeen DEF Move
  <2>3. proc'[p].at = "dock" /\ proc'[p].round = r /\ \A q \in Process : q # p => proc'[q] = proc[q]
    BY <1>1, <2>2 DEF Seen, Handler
  <2>4. RoundsOK'
    BY <1>2 DEF MirrorInv, CauseInv, RoundsOK
  <2>5. Failures' = Failures /\ chain' = chain
    BY <1>2 DEF Failures
  <2>6. r \in Failures
    BY <1>1 DEF CauseOK, Docking
  <2>7. \A q \in Process : CauseOK(proc[q])'
    <3>1. CauseOK(proc[p])'
      BY <2>3, <2>5, <2>6 DEF CauseOK, Docking, Settling, Awaiting
    <3>2. \A q \in Process : q # p => CauseOK(proc[q])'
      BY <2>3, <2>5 DEF MirrorInv, CauseInv, CauseOK
    <3>. QED
      BY <3>1, <3>2
  <2>8. DocksOK'
    <3>1. docks[r] = 0
      BY <1>1, <1>4 DEF MirrorInv, DocksOK
    <3>2. \A q \in Process : At(q, "dock") => proc[q].round # r
      BY <1>4 DEF MirrorInv, DocksOK
    <3>3. \A q \in RoundKey : docks'[q] \in 0 .. 1 /\ (docks'[q] = 1 => q \in marks'.rounds)
      BY <1>2, <2>1 DEF MirrorInv, DocksOK
    <3>4. \A q \in Process : At(q, "dock")' =>
            proc'[q].round \in marks'.rounds /\ docks'[proc'[q].round] = 0
      BY <1>2, <2>1, <2>3, <3>1 DEF MirrorInv, DocksOK, At
    <3>5. \A q, o \in Process :
            At(q, "dock")' /\ At(o, "dock")' /\ proc'[q].round = proc'[o].round => q = o
      BY <2>3, <3>2 DEF MirrorInv, DocksOK, At
    <3>6. \A q \in Process : ~At(q, "unround")'
      BY <2>3 DEF MirrorInv, DocksOK, At
    <3>. QED
      BY <3>3, <3>4, <3>5, <3>6 DEF DocksOK, At
  <2>. QED
    BY <1>2, <2>4, <2>7, <2>8 DEF MirrorInv, CauseInv
<1>5. CASE Fails("redis") /\ DockFailed(p) /\ marks' = [marks EXCEPT !.rounds = @ \cup {r}]
  <2>1. marks.rounds \subseteq marks'.rounds
    BY <1>1, <1>5 DEF Marks
  <2>. QED
    BY <1>3, <1>5, <2>1
<1>. QED
  BY <1>2, <1>3, <1>4, <1>5 DEF ClaimRound

LEMMA DockMirrored ==
  ASSUME Remembered, IInv, MirrorInv, NEW p \in Process, Dock(p)
  PROVE  /\ MirrorInv' /\ UNCHANGED <<chain, ruled, hJudged, credits>>
         /\ \E r \in Failures : docks[r] = 0 /\ docks' = [docks EXCEPT ![r] = 1]
<1>. DEFINE r == proc[p].round
<1>1. /\ r \in RoundKey /\ proc[p].at = "dock" /\ CauseOK(proc[p])
      /\ docks \in [RoundKey -> Nat]
  BY DEF IInv, TypeOK, Handler, Dock, At, MirrorInv, CauseInv
<1>2. UNCHANGED <<marks, chain, ruled, hJudged, credits>>
  BY DEF Dock, redis, escrow
<1>3. docks' = [docks EXCEPT ![r] = @ + 1] /\ Move(p, "history")
  BY DEF Remembered, Dock, Fails
<1>4. r \in Failures /\ r \in marks.rounds /\ docks[r] = 0
  BY <1>1 DEF CauseOK, Docking, MirrorInv, DocksOK, At
<1>5. docks' = [docks EXCEPT ![r] = 1]
  BY <1>1, <1>3, <1>4
<1>6. Goes(p)
  BY <1>3, MoveGoes
<1>7. Failures' = Failures /\ chain' = chain
  BY <1>2 DEF Failures
<1>8. \A q \in Process : CauseOK(proc[q])'
  BY <1>6, <1>7 DEF Goes, Causes, MirrorInv, CauseInv, CauseOK
<1>9. RoundsOK'
  BY <1>2 DEF MirrorInv, CauseInv, RoundsOK
<1>10. DocksOK'
  <2>1. docks'[r] = 1 /\ \A k \in RoundKey : k # r => docks'[k] = docks[k]
    BY <1>1, <1>5
  <2>2. \A q \in Process : At(q, "dock")' => q # p /\ At(q, "dock") /\ proc'[q] = proc[q]
    BY <1>6 DEF Goes, Causes, At
  <2>3. \A q \in Process : At(q, "dock") /\ q # p => proc[q].round # r
    BY <1>1 DEF MirrorInv, DocksOK, At
  <2>4. \A q \in Process : proc[q].round \in RoundKey
    BY DEF IInv, TypeOK, Handler
  <2>5. \A k \in RoundKey : docks'[k] \in 0 .. 1 /\ (docks'[k] = 1 => k \in marks'.rounds)
    BY <1>2, <1>4, <2>1 DEF MirrorInv, DocksOK
  <2>6. \A q \in Process : At(q, "dock")' =>
          proc'[q].round \in marks'.rounds /\ docks'[proc'[q].round] = 0
    BY <1>2, <2>1, <2>2, <2>3, <2>4 DEF MirrorInv, DocksOK
  <2>7. \A q, o \in Process :
          At(q, "dock")' /\ At(o, "dock")' /\ proc'[q].round = proc'[o].round => q = o
    BY <2>2 DEF MirrorInv, DocksOK
  <2>8. \A q \in Process : ~At(q, "unround")'
    BY <1>6 DEF Goes, Causes, MirrorInv, DocksOK, At
  <2>. QED
    BY <2>5, <2>6, <2>7, <2>8 DEF DocksOK, At
<1>. QED
  BY <1>2, <1>4, <1>5, <1>8, <1>9, <1>10 DEF MirrorInv, CauseInv

LEMMA HistoryMirrored ==
  ASSUME Remembered, IInv, MirrorInv, NEW p \in Process, RecordHistory(p) \/ Unround(p)
  PROVE  Quiet(p) /\ UNCHANGED credits
<1>1. RecordHistory(p) /\ Docked(p)
  BY DEF Remembered, RecordHistory, Unround, Fails, MirrorInv, DocksOK, At
<1>. QED
  BY <1>1, DockedGoes DEF Quiet, RecordHistory, redis, ledger, escrow

LEMMA ListenMirrored ==
  ASSUME IInv, CauseInv, Listen
  PROVE  Quiet(Listener) /\ UNCHANGED credits
<1>. DEFINE p == Listener
<1>1. /\ p \in Process /\ proc[p] \in Handler /\ CauseOK(proc[p]) /\ marks \in Marks
      /\ ruled \in {"none", "worker", "poster"}
  BY DEF IInv, TypeOK, Process, CauseInv
<1>2. /\ UNCHANGED <<chain, ruled, hJudged, docks, credits>>
      /\ marks.rounds \subseteq marks'.rounds
  BY <1>1 DEF Listen, Mirror, ClaimRuling, UnclaimRuling, MarkDone, redis, ledger, escrow, Marks
<1>3. ASSUME Mirror
      PROVE  Goes(p)
  <2>. DEFINE local == [Idle EXCEPT !.op = "ruling", !.round = Ruling]
  <2>1. local \in Handler /\ local.round = Ruling
    BY IdleHandler DEF Handler, Idle, RoundKey
  <2>2. ASSUME NEW at \in {"mark", "ruling"}, Goto(p, [local EXCEPT !.at = at]),
               at = "ruling" => ruled = "poster"
        PROVE  Goes(p)
    <3>1. Seen(p, [local EXCEPT !.at = at])
      BY <1>1, <2>2, GotoSeen
    <3>2. proc'[p].at = at /\ proc'[p].round = Ruling
      BY <2>1, <3>1 DEF Seen, Handler
    <3>3. at = "ruling" => Ruling \in Failures
      BY <2>2 DEF Failures
    <3>. QED
      BY <3>1, <3>2, <3>3 DEF Seen, Goes, Causes, CauseOK, Docking, Settling, Awaiting
  <2>. QED
    BY <1>1, <1>3, <2>2 DEF Mirror
<1>4. ASSUME ClaimRuling \/ UnclaimRuling \/ MarkDone
      PROVE  Goes(p)
  <2>1. ClaimRuling => proc[p].round \in Failures
    BY <1>1 DEF ClaimRuling, At, CauseOK, Docking
  <2>2. \/ ClaimRuling /\ (Write(p, proc[p], "failed") \/ Move(p, "round"))
        \/ Done(p)
    BY <1>4 DEF ClaimRuling, UnclaimRuling, MarkDone
  <2>. QED
    BY <1>1, <2>1, <2>2, WriteGoes, MoveGoes, DoneGoes
<1>. QED
  BY <1>2, <1>3, <1>4 DEF Listen, Quiet

-----------------------------------------------------------------------------
(* The escrow, as the promise sees it *)

LEMMA JudgedMirrored ==
  ASSUME IInv, CauseInv, NEW passed \in BOOLEAN, NEW on, Judged(passed, on), UNCHANGED ruled
  PROVE  /\ RoundsOK' /\ chain'.attempts = chain.attempts
         /\ chain.attempts \in Attempt /\ chain.attempts \notin Failures /\ ~Paid
         /\ IF passed THEN Paid' /\ Failures' = Failures
                      ELSE ~Paid' /\ Failures' = Failures \cup {chain.attempts}
<1>. DEFINE n == chain.attempts
            entry == [verdict |-> IF passed THEN "pass" ELSE "fail", on |-> on]
<1>1. /\ chain \in EscrowTask /\ chain.status = "Submitted" /\ RoundsOK /\ ruled = "none"
      /\ n \in Attempt /\ hJudged[n].verdict # "fail" /\ DOMAIN hJudged = Attempt
  BY DEF IInv, TypeOK, Judged, CauseInv, RoundsOK
<1>2. chain'.status = Outcome(passed) /\ chain'.attempts = n
  BY <1>1 DEF Judged, EscrowTask
<1>3. hJudged'[n] = entry /\ \A r \in Attempt : r # n => hJudged'[r] = hJudged[r]
  BY <1>1 DEF Judged
<1>4. hJudged'[n].verdict = IF passed THEN "pass" ELSE "fail"
  BY <1>3
<1>. HIDE DEF entry
<1>5. RoundsOK'
  <2>1. n \in Nat /\ \A r \in Attempt : r \in Nat
    BY <1>1, Parameters DEF Attempt
  <2>. QED
    BY <1>1, <1>2, <1>3, <1>4, <2>1 DEF RoundsOK, Outcome
<1>6. n \notin Failures
  BY <1>1 DEF Failures, Ruling, Attempt
<1>7. Failures' = IF passed THEN Failures ELSE Failures \cup {n}
  BY <1>1, <1>3, <1>4 DEF Failures
<1>. QED
  BY <1>1, <1>2, <1>5, <1>6, <1>7 DEF Paid, Outcome

\* What a step of the escrow is to the promise.
EscrowSeen ==
  /\ UNCHANGED <<credits, docks>>
  /\ \/ UNCHANGED Failures /\ (Paid' <=> Paid)
     \/ UNCHANGED Failures /\ ~Paid /\ Paid'
     \/ ~Paid /\ ~Paid' /\ \E r \in RoundKey \ Failures : Failures' = Failures \cup {r}

\* The rounds of the escrow only grow, and so do its failures.
EscrowGrows ==
  /\ EscrowSeen /\ RoundsOK' /\ chain'.attempts >= chain.attempts /\ UNCHANGED marks

LEMMA CausesGrow ==
  ASSUME IInv, IInv', CauseInv, EscrowGrows, UNCHANGED proc
  PROVE  CauseInv'
<1>1. Failures \subseteq Failures'
  BY DEF EscrowGrows, EscrowSeen
<1>2. \A r \in Attempt : r <= chain.attempts => r <= chain'.attempts
  <2>1. chain.attempts \in Int /\ chain'.attempts \in Int /\ Attempt \subseteq Int
    BY Parameters DEF IInv, TypeOK, EscrowTask, Attempt
  <2>. QED
    BY <2>1 DEF EscrowGrows
<1>3. \A p \in Process : CauseOK(proc[p])'
  BY <1>1, <1>2 DEF CauseInv, EscrowGrows, CauseOK, Docking, Settling, Awaiting
<1>. QED
  BY <1>3 DEF CauseInv, EscrowGrows

LEMMA MineSeen ==
  ASSUME IInv, IInv', CauseInv, Mine
  PROVE  CauseInv' /\ EscrowSeen
<1>. DEFINE tx == Head(pool)
<1>1. tx \in Settlement /\ 1 \in DOMAIN pool /\ tx = pool[1]
  BY DEF IInv, TypeOK, Mine
<1>2. UNCHANGED <<marks, credits, docks, ruled>>
  BY DEF Mine, offchain, redis, ledger
<1>3. PICK outcome \in {"success", "reverted"} :
        /\ proc' = [p \in Process |-> IF p = tx.by THEN [proc[p] EXCEPT !.tx = outcome]
                                      ELSE proc[p]]
        /\ \/ Judged(tx.passed, tx.on) /\ outcome = "success"
           \/ UNCHANGED <<chain, hJudged>> /\ outcome = "reverted"
  BY DEF Mine
<1>4. tx.passed \in BOOLEAN
  BY <1>1 DEF Settlement
<1>5. EscrowGrows
  <2>1. CASE Judged(tx.passed, tx.on)
    <3>1. chain'.attempts >= chain.attempts
      BY <1>2, <1>4, <2>1, JudgedMirrored DEF IInv, TypeOK, EscrowTask
    <3>2. chain.attempts \in RoundKey
      BY <1>2, <1>4, <2>1, JudgedMirrored DEF RoundKey
    <3>. QED
      BY <1>2, <1>4, <2>1, <3>1, <3>2, JudgedMirrored DEF EscrowGrows, EscrowSeen
  <2>2. CASE UNCHANGED <<chain, hJudged>>
    <3>1. Failures' = Failures /\ (Paid' <=> Paid) /\ RoundsOK'
      BY <1>2, <2>2 DEF Failures, Paid, CauseInv, RoundsOK
    <3>2. chain'.attempts >= chain.attempts
      BY <2>2 DEF IInv, TypeOK, EscrowTask
    <3>. QED
      BY <1>2, <3>1, <3>2 DEF EscrowGrows, EscrowSeen
  <2>. QED
    BY <1>3, <2>1, <2>2
<1>6. /\ Failures \subseteq Failures'
      /\ \A r \in Attempt : r <= chain.attempts => r <= chain'.attempts
  <2>1. chain.attempts \in Int /\ chain'.attempts \in Int /\ Attempt \subseteq Int
    BY Parameters DEF IInv, TypeOK, EscrowTask, Attempt
  <2>. QED
    BY <1>5, <2>1 DEF EscrowGrows, EscrowSeen
<1>7. \A p \in Process :
        /\ proc'[p].at = proc[p].at /\ proc'[p].round = proc[p].round /\ proc'[p].op = proc[p].op
        /\ proc'[p].patch = proc[p].patch /\ proc'[p].passed = proc[p].passed
        /\ p # tx.by => proc'[p] = proc[p]
        /\ p = tx.by => proc'[p].tx = outcome
  BY <1>3 DEF IInv, TypeOK, Handler
<1>8. ASSUME NEW p \in Process PROVE CauseOK(proc[p])'
  <2>1. CauseOK(proc[p])
    BY DEF CauseInv
  <2>2. CASE p # tx.by
    <3>1. proc'[p] = proc[p]
      BY <1>7, <2>2
    <3>. QED
      BY <1>6, <2>1, <3>1 DEF CauseOK, Docking, Settling, Awaiting
  <2>3. CASE p = tx.by
    \* The round settled is not past the one the verdict fell on.
    <3>1. p # Nobody
      BY Parameters DEF Process
    <3>2. Awaiting(proc[p]) /\ proc[p].passed = tx.passed
      BY <1>1, <2>3, <3>1 DEF IInv, PoolOK, Waiting, Owns
    <3>3. proc[p].round \in Attempt /\ proc[p].round <= chain.attempts
      BY <2>1, <3>2 DEF CauseOK, Settling
    <3>4. outcome = "success" /\ ~tx.passed => proc[p].round \in Failures'
      <4>1. CASE outcome = "success" /\ ~tx.passed
        <5>1. Judged(tx.passed, tx.on)
          BY <1>3, <4>1
        <5>2. RoundsOK' /\ chain'.attempts = chain.attempts /\ chain.attempts \in Failures'
          BY <1>2, <1>4, <4>1, <5>1, JudgedMirrored
        <5>3. proc[p].round < chain.attempts \/ proc[p].round = chain.attempts
          BY <3>3, Parameters DEF IInv, TypeOK, EscrowTask, Attempt
        <5>4. proc[p].round < chain.attempts => proc[p].round \in Failures'
          BY <3>3, <5>2 DEF RoundsOK, Failures
        <5>. QED
          BY <5>2, <5>3, <5>4
      <4>. QED
        BY <4>1
    <3>. QED
      BY <1>6, <1>7, <2>1, <2>3, <3>2, <3>3, <3>4 DEF CauseOK, Docking, Settling, Awaiting
  <2>. QED
    BY <2>2, <2>3
<1>. QED
  BY <1>5, <1>8 DEF CauseInv, EscrowGrows

LEMMA ChainSeen ==
  ASSUME IInv, IInv', CauseInv, Chain
  PROVE  CauseInv' /\ EscrowSeen
<1>1. /\ chain \in EscrowTask /\ chain.attempts \in Nat /\ RoundsOK /\ EscrowOK
      /\ Attempt \subseteq Nat /\ MaxAttempts \in Nat
  BY Parameters DEF IInv, TypeOK, EscrowTask, CauseInv, Attempt
<1>2. CASE Mine
  BY <1>2, MineSeen
<1>3. SUFFICES ASSUME ~Mine PROVE EscrowGrows /\ UNCHANGED proc
  BY <1>2, CausesGrow DEF EscrowGrows
<1>4. UNCHANGED <<marks, credits, docks, proc>>
  BY <1>3 DEF Chain, SubmitEvidence, Deadline, Dispute, ClaimTimeout, VerifierSettles, Rule,
              offchain, redis, ledger
<1>5. CASE SubmitEvidence
  <2>1. /\ chain.status \in {"Assigned", "Verified"} /\ UNCHANGED <<ruled, hJudged>>
        /\ chain.status = "Assigned" \/ chain.attempts < MaxAttempts
        /\ chain' = [chain EXCEPT !.status = "Submitted", !.attempts = @ + 1]
    BY <1>5 DEF SubmitEvidence
  <2>2. chain'.status = "Submitted" /\ chain'.attempts = chain.attempts + 1
    BY <1>1, <2>1 DEF EscrowTask
  <2>3. chain'.attempts \in Attempt
    BY <1>1, <2>1, <2>2, Parameters DEF EscrowTask, EscrowOK, Attempt
  <2>4. RoundsOK'
    <3>1. ASSUME NEW r \in Attempt
          PROVE  /\ r < chain.attempts + 1 => hJudged[r].verdict = "fail"
                 /\ hJudged[r].verdict = "fail" => r <= chain.attempts
      <4>1. r \in Nat /\ r >= 1
        BY Parameters DEF Attempt
      <4>2. r < chain.attempts + 1 => r < chain.attempts \/ r = chain.attempts
        BY <1>1, <4>1
      <4>3. r = chain.attempts => chain.status = "Verified"
        BY <1>1, <2>1, <4>1 DEF EscrowOK
      <4>. QED
        BY <1>1, <4>2, <4>3 DEF RoundsOK
    <3>2. hJudged[chain.attempts + 1].verdict # "fail"
      <4>1. chain.attempts + 1 \in Attempt /\ ~(chain.attempts + 1 <= chain.attempts)
        BY <1>1, <2>2, <2>3
      <4>. QED
        BY <3>1, <4>1
    <3>3. \A r \in Attempt : hJudged[r].verdict = "fail" => r <= chain.attempts + 1
      <4>1. \A r \in Attempt : r <= chain.attempts => r <= chain.attempts + 1
        BY <1>1
      <4>. QED
        BY <3>1, <4>1
    <3>4. ruled = "none"
      BY <1>1, <2>1 DEF RoundsOK
    <3>. QED
      BY <2>1, <2>2, <2>3, <3>1, <3>2, <3>3, <3>4 DEF RoundsOK
  <2>5. Failures' = Failures /\ (Paid' <=> Paid)
    BY <2>1, <2>2 DEF Failures, Paid
  <2>. QED
    BY <1>1, <1>4, <2>2, <2>4, <2>5 DEF EscrowGrows, EscrowSeen
<1>6. ASSUME NEW passed \in BOOLEAN, VerifierSettles(passed)
      PROVE  EscrowGrows
  <2>1. Judged(passed, chain.attempts) /\ UNCHANGED ruled
    BY <1>6 DEF VerifierSettles
  <2>2. chain.attempts \in RoundKey
    BY <2>1, JudgedMirrored DEF RoundKey
  <2>. QED
    BY <1>1, <1>4, <2>1, <2>2, JudgedMirrored DEF EscrowGrows, EscrowSeen
<1>7. CASE Deadline
  <2>1. UNCHANGED <<chain, ruled, hJudged>>
    BY <1>7 DEF Deadline
  <2>. QED
    BY <1>1, <1>4, <2>1 DEF EscrowGrows, EscrowSeen, Failures, Paid, RoundsOK
<1>8. CASE Dispute \/ ClaimTimeout
  <2>1. /\ chain.status \in {"Assigned", "Submitted", "Verified", "Disputed"}
        /\ chain'.status \in {"Disputed", "Cancelled"} /\ chain'.attempts = chain.attempts
        /\ UNCHANGED <<ruled, hJudged>>
    <3>1. CASE Dispute
      BY <1>1, <3>1 DEF Dispute, EscrowTask
    <3>2. CASE ClaimTimeout
      BY <1>1, <3>2 DEF ClaimTimeout, EscrowTask
    <3>. QED
      BY <1>8, <3>1, <3>2
  <2>2. RoundsOK'
    BY <1>1, <2>1 DEF RoundsOK
  <2>. QED
    BY <1>1, <1>4, <2>1, <2>2 DEF EscrowGrows, EscrowSeen, Failures, Paid
<1>9. ASSUME NEW favours \in {"worker", "poster"}, Rule(favours)
      PROVE  EscrowGrows
  <2>1. /\ chain.status = "Disputed" /\ ruled = "none" /\ ruled' = favours
        /\ chain'.status = (IF favours = "worker" THEN "Completed" ELSE "Cancelled")
        /\ chain'.attempts = chain.attempts /\ hJudged' = hJudged
    BY <1>1, <1>9 DEF Rule, EscrowTask, RoundsOK
  <2>2. RoundsOK'
    BY <1>1, <2>1 DEF RoundsOK
  <2>3. Ruling \notin Failures /\ Ruling \in RoundKey
    BY <2>1 DEF Failures, Ruling, Attempt, RoundKey
  <2>4. CASE favours = "worker"
    BY <1>1, <1>4, <2>1, <2>2, <2>4 DEF EscrowGrows, EscrowSeen, Failures, Paid
  <2>5. CASE favours = "poster"
    <3>1. Failures' = Failures \cup {Ruling} /\ ~Paid /\ ~Paid'
      BY <2>1, <2>5 DEF Failures, Paid
    <3>. QED
      BY <1>1, <1>4, <2>1, <2>2, <2>3, <3>1 DEF EscrowGrows, EscrowSeen
  <2>. QED
    BY <2>4, <2>5
<1>. QED
  BY <1>3, <1>4, <1>5, <1>6, <1>7, <1>8, <1>9 DEF Chain

\* It takes and leaves no markers.
LEMMA ChainMirrored ==
  ASSUME IInv, IInv', MirrorInv, Chain
  PROVE  MirrorInv' /\ EscrowSeen
<1>1. CauseInv' /\ EscrowSeen
  BY ChainSeen DEF MirrorInv
<1>2. UNCHANGED <<marks, docks>>
  BY DEF Chain, SubmitEvidence, Mine, Deadline, Dispute, ClaimTimeout, VerifierSettles, Rule,
         offchain, redis, ledger
<1>3. \A p \in Process : proc'[p].at = proc[p].at /\ proc'[p].round = proc[p].round
  <2>1. CASE Mine
    <3>. DEFINE tx == Head(pool)
    <3>1. PICK outcome \in {"success", "reverted"} :
            proc' = [p \in Process |-> IF p = tx.by THEN [proc[p] EXCEPT !.tx = outcome]
                                      ELSE proc[p]]
      BY <2>1 DEF Mine
    <3>. QED
      BY <3>1 DEF IInv, TypeOK, Handler
  <2>2. CASE ~Mine
    BY <2>2 DEF Chain, SubmitEvidence, Deadline, Dispute, ClaimTimeout, VerifierSettles, Rule
  <2>. QED
    BY <2>1, <2>2
<1>4. DocksOK'
  BY <1>2, <1>3 DEF MirrorInv, DocksOK, At
<1>. QED
  BY <1>1, <1>4 DEF MirrorInv

-----------------------------------------------------------------------------
(* The refinement *)

\* The host takes handlers away; Redis comes back as it was.
LEMMA HostMirrored ==
  ASSUME Remembered, IInv, MirrorInv, Host \/ Rebroadcast \/ UNCHANGED vars
  PROVE  MirrorInv' /\ UNCHANGED <<chain, ruled, hJudged, credits, docks>>
<1>1. /\ UNCHANGED <<chain, ruled, hJudged, credits, docks, marks>>
      /\ proc' = proc \/ proc' = [p \in Process |-> Idle]
  BY DEF Remembered, Host, Rebroadcast, Register, Crash, Snapshot, Restore, Fails, vars, redis,
         ledger, escrow
<1>2. Failures' = Failures
  BY <1>1 DEF Failures
<1>3. ASSUME NEW p \in Process
      PROVE  /\ proc'[p] = proc[p] \/ proc'[p].at = "idle"
             /\ CauseOK(proc[p])'
  BY <1>1, <1>2 DEF Idle, MirrorInv, CauseInv, CauseOK, Docking, Settling, Awaiting
<1>4. RoundsOK' /\ DocksOK'
  BY <1>1, <1>3 DEF MirrorInv, CauseInv, RoundsOK, DocksOK, At
<1>. QED
  BY <1>1, <1>3, <1>4 DEF MirrorInv, CauseInv

MirrorStep == [Promise!Next]_(Promise!promiseVars)

LEMMA PromiseStutters ==
  ASSUME UNCHANGED <<chain, ruled, hJudged, credits, docks>>
  PROVE  MirrorStep
BY DEF MirrorStep, Promise!promiseVars, Failures

LEMMA HandlerMirrored ==
  ASSUME Remembered, IInv, MirrorInv, NEW p \in Process, Continue(p) \/ WaitTimeout(p)
  PROVE  MirrorInv' /\ MirrorStep
<1>1. CASE ReadChain(p) \/ Load(p) \/ Store(p) \/ Send(p) \/ Reread(p) \/ Receipt(p)
           \/ WaitTimeout(p)
  <2>1. Goes(p)
    BY <1>1, ReadChainMirrored, LoadMirrored, StoreMirrored, SettlementMirrored DEF MirrorInv
  <2>2. UNCHANGED <<chain, ruled, hJudged, docks, credits, marks>>
    BY <1>1 DEF ReadChain, Load, Store, Send, Reread, Receipt, WaitTimeout, redis, ledger, escrow
  <2>. QED
    BY <2>1, <2>2, QuietStep, PromiseStutters DEF Quiet
<1>2. CASE Mark(p) \/ Claim(p) \/ Unmark(p)
  <2>1. Quiet(p) /\ (UNCHANGED credits \/ (Paid /\ credits = 0 /\ credits' = 1))
    BY <1>2, CreditingMirrored DEF MirrorInv
  <2>2. CASE Paid /\ credits = 0 /\ credits' = 1
    <3>1. Failures' = Failures
      BY <2>1 DEF Quiet, Failures
    <3>2. Promise!Earn
      BY <2>1, <2>2, <3>1 DEF Quiet, Promise!Earn, Paid
    <3>. QED
      BY <2>1, <3>2, QuietStep DEF MirrorStep, Promise!Next
  <2>. QED
    BY <2>1, <2>2, QuietStep, PromiseStutters DEF Quiet
<1>3. CASE ClaimRound(p)
  BY <1>3, ClaimRoundMirrored, PromiseStutters
<1>4. CASE Dock(p)
  <2>1. PICK r \in Failures : docks[r] = 0 /\ docks' = [docks EXCEPT ![r] = 1]
    BY <1>4, DockMirrored
  <2>2. MirrorInv' /\ UNCHANGED <<chain, ruled, hJudged, credits>>
    BY <1>4, DockMirrored
  <2>3. Failures' = Failures /\ Failures \subseteq RoundKey
    BY <2>2 DEF Failures, RoundKey
  <2>4. Promise!Dock(r)
    BY <2>1, <2>2, <2>3 DEF Promise!Dock
  <2>. QED
    BY <2>2, <2>3, <2>4 DEF MirrorStep, Promise!Next
<1>5. CASE RecordHistory(p) \/ Unround(p)
  BY <1>5, HistoryMirrored, QuietStep, PromiseStutters DEF Quiet
<1>. QED
  BY <1>1, <1>2, <1>3, <1>4, <1>5 DEF Continue

LEMMA EscrowMirrored ==
  ASSUME EscrowSeen
  PROVE  MirrorStep
<1>1. CASE UNCHANGED Failures /\ (Paid' <=> Paid)
  BY <1>1 DEF EscrowSeen, MirrorStep, Promise!promiseVars, Paid
<1>2. CASE UNCHANGED Failures /\ ~Paid /\ Paid'
  <2>1. Promise!Pay
    BY <1>2 DEF EscrowSeen, Promise!Pay, Paid
  <2>. QED
    BY <2>1 DEF MirrorStep, Promise!Next
<1>3. ASSUME ~Paid, ~Paid', NEW r \in RoundKey \ Failures, Failures' = Failures \cup {r}
      PROVE  MirrorStep
  <2>1. Promise!Fail(r)
    BY <1>3 DEF EscrowSeen, Promise!Fail, Paid
  <2>. QED
    BY <1>3, <2>1 DEF MirrorStep, Promise!Next
<1>. QED
  BY <1>1, <1>2, <1>3 DEF EscrowSeen

LEMMA InitMirrored == Init => MirrorInv /\ Promise!Init
<1>. SUFFICES ASSUME Init PROVE MirrorInv /\ Promise!Init
  OBVIOUS
<1>1. /\ chain.status = "Assigned" /\ chain.attempts = 0 /\ ruled = "none" /\ credits = 0
      /\ docks = [r \in RoundKey |-> 0] /\ \A r \in Attempt : hJudged[r].verdict = "none"
      /\ \A p \in Process : proc[p].at = "idle"
  BY DEF Init, Assigned, Idle
<1>2. RoundsOK
  BY <1>1, Parameters DEF RoundsOK, Attempt
<1>3. DocksOK
  BY <1>1 DEF DocksOK, At
<1>4. \A p \in Process : CauseOK(proc[p])
  BY <1>1 DEF CauseOK, Docking, Settling, Awaiting
<1>5. Failures = {}
  BY <1>1 DEF Failures
<1>. QED
  BY <1>1, <1>2, <1>3, <1>4, <1>5 DEF MirrorInv, CauseInv, Promise!Init

(* The accounts implement MirrorPromise: whatever observers meet on the    *)
(* way, lost sends, lost receipts, a failing Redis and crashes included, a *)
(* payment is credited once and never taken back, and a failed round or a  *)
(* refund costs reputation once (recordWorkerPayout, recordWorkerDispute). *)
THEOREM MirrorIsKept ==
  ASSUME Remembered
  PROVE  Spec => KeepsMirrorPromise
<1>1. IInv /\ IInv' /\ MirrorInv /\ [Next]_vars => MirrorInv' /\ MirrorStep
  <2>. SUFFICES ASSUME IInv, IInv', MirrorInv, [Next]_vars PROVE MirrorInv' /\ MirrorStep
    OBVIOUS
  <2>1. ASSUME NEW c \in Call, Route(c)
        PROVE  MirrorInv' /\ MirrorStep
    BY <2>1, RouteMirrored, QuietStep, PromiseStutters DEF MirrorInv, Quiet, Process
  <2>2. ASSUME NEW p \in Process, Continue(p) \/ WaitTimeout(p)
        PROVE  MirrorInv' /\ MirrorStep
    BY <2>2, HandlerMirrored
  <2>3. CASE Listen
    BY <2>3, ListenMirrored, QuietStep, PromiseStutters DEF MirrorInv, Quiet, Process
  <2>4. CASE Chain
    BY <2>4, ChainMirrored, EscrowMirrored
  <2>5. CASE Host \/ Rebroadcast \/ UNCHANGED vars
    BY <2>5, HostMirrored, PromiseStutters
  <2>. QED
    BY <2>1, <2>2, <2>3, <2>4, <2>5 DEF Next, Process
<1>. QED
  BY <1>1, InitMirrored, Invariance, PTL DEF Spec, KeepsMirrorPromise, Promise!Spec, MirrorStep

-----------------------------------------------------------------------------
(* No credit is lost: neither by a Redis that fails, errs about its marker *)
(* or comes back from an older snapshot, nor by lost sends and receipts.   *)
(* What loses one is a claim whose transaction fails after another observer*)
(* took the marker for a credit, a restart in the middle of a claim, or an *)
(* executor missing from the agent table.                                  *)
Claimable == Happens \cap {"db", "crash", "unregistered"} = {}

(* The credit is in the row, or in the hands of a handler that will put it *)
(* there.                                                                  *)
Secured == row \/ \E p \in Process : At(p, "claim")

(* About to leave the record at "verified".                                *)
Closing(local) ==
  \/ local.seen.status = "verified"
  \/ local.at \in {"load", "store"} /\ local.patch = "verified"

CreditInv ==
  /\ registered
  /\ \A p \in Process : ~At(p, "unmark") /\ (Closing(proc[p]) => Secured)
  /\ marks.credited \/ state.status = "verified" => Secured
  /\ backup.marks.credited \/ backup.state.status = "verified" => row

(* A handler goes on, and closes only what is secured.                     *)
Ends(p) ==
  /\ \A q \in Process : q # p => proc'[q] = proc[q]
  /\ proc'[p].at # "unmark" /\ (Closing(proc'[p]) => Secured)

LEMMA DoneEnds ==
  ASSUME IInv, NEW p \in Process, Done(p)
  PROVE  Ends(p)
<1>1. Seen(p, Idle)
  BY GotoSeen DEF Done
<1>. QED
  BY <1>1 DEF Seen, Ends, Idle, Fresh, Closing

LEMMA MoveEnds ==
  ASSUME IInv, CreditInv, NEW p \in Process, NEW at, Move(p, at),
         at \notin {"unmark", "load", "store"}
  PROVE  Ends(p)
<1>1. Seen(p, [proc[p] EXCEPT !.at = at])
  BY GotoSeen DEF Move
<1>2. proc[p] \in Handler
  BY DEF IInv, TypeOK
<1>3. proc'[p].at = at /\ proc'[p].seen = proc[p].seen
  BY <1>1, <1>2 DEF Seen, Handler
<1>. QED
  BY <1>1, <1>3 DEF Seen, Ends, Closing, CreditInv

LEMMA WriteEnds ==
  ASSUME IInv, NEW p \in Process, NEW local \in Handler, NEW patch, Write(p, local, patch),
         patch = "verified" => Secured
  PROVE  Ends(p)
<1>1. Seen(p, [local EXCEPT !.at = "load", !.patch = patch, !.seen = Fresh, !.marker = "none"])
  BY GotoSeen DEF Write
<1>2. proc'[p].at = "load" /\ proc'[p].patch = patch /\ proc'[p].seen = Fresh
  BY <1>1 DEF Seen, Handler
<1>. QED
  BY <1>1, <1>2 DEF Seen, Ends, Closing, Fresh

LEMMA AdoptEnds ==
  ASSUME IInv, NEW p \in Process, NEW local \in Handler, Adopt(p, local)
  PROVE  Ends(p)
<1>. DEFINE next == [Idle EXCEPT !.op = local.op, !.round = local.round]
<1>1. next \in Handler /\ next.seen = Fresh
  BY IdleHandler DEF Handler, Idle
<1>2. CASE local.passed
  <2>1. Seen(p, [next EXCEPT !.at = "mark"])
    BY <1>2, GotoSeen DEF Adopt
  <2>2. proc'[p].at = "mark" /\ proc'[p].seen = Fresh
    BY <1>1, <2>1 DEF Seen, Handler
  <2>. QED
    BY <2>1, <2>2 DEF Seen, Ends, Closing, Fresh
<1>3. CASE ~local.passed
  BY <1>1, <1>3, WriteEnds DEF Adopt
<1>. QED
  BY <1>2, <1>3

LEMMA CreditedEnds ==
  ASSUME IInv, NEW p \in Process, Credited(p, proc[p]), Secured
  PROVE  Ends(p)
<1>1. proc[p] \in Handler
  BY DEF IInv, TypeOK
<1>. QED
  BY <1>1, WriteEnds, DoneEnds DEF Credited

(* A step of a handler that is not claiming, and leaves the credit alone.  *)
Unclaimed(p) ==
  /\ Ends(p) /\ ~At(p, "claim")
  /\ UNCHANGED <<row, registered, backup>> /\ marks'.credited = marks.credited
  /\ state' = state \/ (state'.status = "verified" => Secured)

LEMMA UnclaimedStep ==
  ASSUME CreditInv, NEW p \in Process, Unclaimed(p)
  PROVE  CreditInv'
<1>1. Secured => Secured'
  BY DEF Secured, Unclaimed, Ends, At
<1>2. \A q \in Process : ~At(q, "unmark")' /\ (Closing(proc[q])' => Secured')
  BY <1>1 DEF CreditInv, Unclaimed, Ends, At, Closing
<1>. QED
  BY <1>1, <1>2 DEF CreditInv, Unclaimed

LEMMA RouteUnclaimed ==
  ASSUME IInv, CreditInv, NEW c \in Call, Route(c)
  PROVE  Unclaimed(c)
<1>1. c \in Process /\ UNCHANGED <<mode, redis, ledger, escrow, faults>> /\ proc[c].at = "idle"
  BY DEF Process, Route, Submit, Verify, Verdict, Finalize, Begin, Confirm, At
<1>2. ASSUME NEW op, NEW passed, Begin(c, op, passed)
      PROVE  Ends(c)
  <2>1. Seen(c, [Idle EXCEPT !.at = "chain", !.op = op, !.seen = state, !.passed = passed])
    BY <1>1, <1>2, GotoSeen DEF Begin
  <2>. QED
    BY <2>1 DEF Seen, Ends, Idle, Closing, CreditInv
<1>3. ASSUME NEW local \in Handler, local.at \in {"mark", "round"}, local.seen = Fresh, Goto(c, local)
      PROVE  Ends(c)
  <2>1. Seen(c, local)
    BY <1>1, <1>3, GotoSeen
  <2>. QED
    BY <1>3, <2>1 DEF Seen, Ends, Closing, Fresh
<1>4. ASSUME Confirm(c)
      PROVE  Ends(c)
  <2>. DEFINE local == [Idle EXCEPT !.op = "confirm"]
  <2>1. local \in Handler /\ local.seen = Fresh
    BY IdleHandler DEF Handler, Idle
  <2>2. CASE Goto(c, [local EXCEPT !.at = "mark"])
    <3>. DEFINE next == [local EXCEPT !.at = "mark"]
    <3>1. next \in Handler /\ next.at = "mark" /\ next.seen = Fresh
      BY ZenonT(60), <2>1 DEF Handler
    <3>. QED
      BY <1>3, <2>2, <3>1
  <2>3. ASSUME NEW r \in Attempt, Goto(c, [local EXCEPT !.at = "round", !.round = r])
        PROVE  Ends(c)
    <3>. DEFINE next == [local EXCEPT !.at = "round", !.round = r]
    <3>1. next \in Handler /\ next.at = "round" /\ next.seen = Fresh
      BY ZenonT(60), <2>1 DEF Handler, RoundKey
    <3>. QED
      BY <1>3, <2>3, <3>1
  <2>. QED
    BY <1>4, <2>2, <2>3 DEF Confirm
<1>5. Ends(c)
  <2>1. ASSUME NEW answer \in BOOLEAN, Submit(c, answer) \/ Verify(c, answer) \/ Verdict(c, answer)
        PROVE  Ends(c)
    <3>1. Begin(c, "submit", answer) \/ Begin(c, "verify", answer) \/ Begin(c, "verdict", answer)
      BY <2>1 DEF Submit, Verify, Verdict
    <3>. QED
      BY <1>2, <3>1
  <2>2. ASSUME Finalize(c) PROVE Ends(c)
    BY <1>2, <2>2 DEF Finalize
  <2>. QED
    BY <1>4, <2>1, <2>2 DEF Route
<1>. QED
  BY <1>1, <1>5 DEF Unclaimed, At, redis, ledger

LEMMA HandlerUnclaimed ==
  ASSUME IInv, CreditInv, NEW p \in Process,
         ReadChain(p) \/ Load(p) \/ Store(p) \/ Send(p) \/ Reread(p) \/ Receipt(p)
           \/ WaitTimeout(p)
  PROVE  Unclaimed(p)
<1>1. /\ proc[p] \in Handler /\ proc[p].at # "claim" /\ (Closing(proc[p]) => Secured)
      /\ UNCHANGED <<row, registered, marks, backup>>
  BY DEF IInv, TypeOK, CreditInv, ReadChain, Load, Store, Send, Reread, Receipt, WaitTimeout, At,
         redis, ledger
<1>2. state' = state \/ (state'.status = "verified" => Secured)
  <2>1. CASE Store(p)
    <3>1. state' = Patched(proc[p], proc[p].seen) /\ proc[p].at = "store" /\ proc[p].seen \in TaskState
      BY <1>1, <2>1 DEF Store, At, Handler
    <3>. QED
      BY <1>1, <3>1, PatchedOK DEF Closing
  <2>. QED
    BY <2>1 DEF ReadChain, Load, Send, Reread, Receipt, WaitTimeout, redis
<1>3. Ends(p)
  <2>1. CASE ReadChain(p)
    <3>. DEFINE local == [proc[p] EXCEPT !.round = chain.attempts]
                told == [local EXCEPT !.passed = (chain.status = "Completed")]
    <3>1. chain.attempts \in RoundKey
      BY Parameters DEF IInv, TypeOK, EscrowTask, RoundKey, Attempt, Ruling
    <3>2. local \in Handler /\ told \in Handler /\ local.seen = proc[p].seen
      BY <1>1, <3>1 DEF Handler
    <3>3. CASE Goto(p, [local EXCEPT !.at = "send"])
      <4>1. Seen(p, [local EXCEPT !.at = "send"])
        BY <3>3, GotoSeen
      <4>2. proc'[p].at = "send" /\ proc'[p].seen = proc[p].seen
        BY <3>2, <4>1 DEF Seen, Handler
      <4>. QED
        BY <1>1, <4>1, <4>2 DEF Seen, Ends, Closing
    <3>4. \/ Write(p, local, "submitted") \/ Write(p, local, "awaiting_verification")
          \/ Goto(p, [local EXCEPT !.at = "send"]) \/ Adopt(p, told) \/ Done(p)
      BY <2>1 DEF ReadChain
    <3>. QED
      BY <3>2, <3>3, <3>4, WriteEnds, AdoptEnds, DoneEnds
  <2>2. CASE Load(p)
    <3>1. Seen(p, [proc[p] EXCEPT !.at = "store", !.seen = state]) /\ proc[p].at = "load"
      BY <2>2, GotoSeen DEF Load, At
    <3>2. proc'[p].at = "store" /\ proc'[p].seen = state /\ proc'[p].patch = proc[p].patch
      BY <1>1, <3>1 DEF Seen, Handler
    <3>. QED
      BY <1>1, <3>1, <3>2 DEF Seen, Ends, Closing, CreditInv
  <2>3. CASE Store(p)
    <3>1. ASSUME NEW local \in Handler, local.at \in {"wait", "done", "round"}, local.seen = Fresh,
                 Goto(p, local)
          PROVE  Ends(p)
      BY <3>1, GotoSeen DEF Seen, Ends, Closing, Fresh
    <3>2. [proc[p] EXCEPT !.at = "wait", !.seen = Fresh] \in Handler
          /\ [proc[p] EXCEPT !.at = "wait", !.seen = Fresh].at = "wait"
          /\ [proc[p] EXCEPT !.at = "wait", !.seen = Fresh].seen = Fresh
      BY <1>1, IdleHandler DEF Handler
    <3>3. [Idle EXCEPT !.at = "done", !.op = "ruling"] \in Handler
          /\ [Idle EXCEPT !.at = "done", !.op = "ruling"].at = "done"
          /\ [Idle EXCEPT !.at = "done", !.op = "ruling"].seen = Fresh
      BY IdleHandler DEF Handler, Idle
    <3>. DEFINE next == [Idle EXCEPT !.at = "round", !.op = proc[p].op, !.round = proc[p].round]
    <3>4. next \in Handler /\ next.at = "round" /\ next.seen = Fresh
      BY ZenonT(120), <1>1, IdleHandler DEF Handler, Idle
    <3>5. \/ Goto(p, [proc[p] EXCEPT !.at = "wait", !.seen = Fresh])
          \/ Goto(p, [Idle EXCEPT !.at = "done", !.op = "ruling"])
          \/ Goto(p, next) \/ Done(p)
      BY <2>3 DEF Store
    <3>. QED
      BY <3>1, <3>2, <3>3, <3>4, <3>5, DoneEnds
  <2>4. CASE Send(p)
    <3>1. [proc[p] EXCEPT !.tx = "pool"] \in Handler
      BY <1>1 DEF Handler
    <3>. QED
      BY <1>1, <2>4, <3>1, WriteEnds, MoveEnds DEF Send
  <2>5. CASE Reread(p) \/ Receipt(p)
    BY <1>1, <2>5, WriteEnds, AdoptEnds DEF Reread, Receipt
  <2>6. CASE WaitTimeout(p)
    <3>1. [proc[p] EXCEPT !.tx = "none"] \in Handler
      BY <1>1 DEF Handler
    <3>. QED
      BY <2>6, <3>1, WriteEnds DEF WaitTimeout
  <2>. QED
    BY <2>1, <2>2, <2>3, <2>4, <2>5, <2>6
<1>. QED
  BY <1>1, <1>2, <1>3 DEF Unclaimed, At

LEMMA DockingUnclaimed ==
  ASSUME IInv, CreditInv, NEW p \in Process,
         ClaimRound(p) \/ Dock(p) \/ RecordHistory(p) \/ Unround(p)
  PROVE  Unclaimed(p)
<1>1. proc[p] \in Handler /\ proc[p].at # "claim" /\ marks \in Marks
  BY DEF IInv, TypeOK, ClaimRound, Dock, RecordHistory, Unround, At
<1>2. UNCHANGED <<state, row, registered, backup>> /\ marks'.credited = marks.credited
  BY <1>1 DEF ClaimRound, Dock, RecordHistory, Unround, redis, ledger, Marks
<1>3. Docked(p) \/ DockFailed(p) \/ Move(p, "dock") \/ Move(p, "history") \/ Move(p, "unround")
  BY DEF ClaimRound, Dock, RecordHistory, Unround
<1>4. Ends(p)
  BY <1>1, <1>3, WriteEnds, DoneEnds, MoveEnds DEF Docked, DockFailed
<1>. QED
  BY <1>1, <1>2, <1>4 DEF Unclaimed, At

LEMMA ListenUnclaimed ==
  ASSUME IInv, CreditInv, Listen
  PROVE  Unclaimed(Listener)
<1>. DEFINE p == Listener
<1>1. p \in Process /\ proc[p] \in Handler /\ proc[p].at # "claim" /\ marks \in Marks
  BY DEF Process, IInv, TypeOK, Listen, Mirror, ClaimRuling, UnclaimRuling, MarkDone, At
<1>2. UNCHANGED <<state, row, registered, backup>> /\ marks'.credited = marks.credited
  BY <1>1 DEF Listen, Mirror, ClaimRuling, UnclaimRuling, MarkDone, redis, ledger, Marks
<1>3. CASE Mirror
  <2>. DEFINE local == [Idle EXCEPT !.op = "ruling", !.round = Ruling]
  <2>1. local \in Handler /\ local.seen = Fresh
    BY IdleHandler DEF Handler, Idle, RoundKey
  <2>2. ASSUME NEW at \in {"mark", "ruling"}, Goto(p, [local EXCEPT !.at = at])
        PROVE  Ends(p)
    <3>1. Seen(p, [local EXCEPT !.at = at])
      BY <1>1, <2>2, GotoSeen
    <3>2. proc'[p].at = at /\ proc'[p].seen = Fresh
      BY <2>1, <3>1 DEF Seen, Handler
    <3>. QED
      BY <3>1, <3>2 DEF Seen, Ends, Closing, Fresh
  <2>. QED
    BY <1>1, <1>2, <1>3, <2>2 DEF Mirror, Unclaimed, At
<1>4. CASE ClaimRuling \/ UnclaimRuling \/ MarkDone
  <2>1. Write(p, proc[p], "failed") \/ Move(p, "round") \/ Done(p)
    BY <1>4 DEF ClaimRuling, UnclaimRuling, MarkDone
  <2>2. Ends(p)
    BY <1>1, <2>1, WriteEnds, MoveEnds, DoneEnds
  <2>. QED
    BY <1>1, <1>2, <2>2 DEF Unclaimed, At
<1>. QED
  BY <1>3, <1>4 DEF Listen

(* Whoever finds the marker finds the credit secured; whoever takes it, or *)
(* does not know whether it did, claims; and a claim ends with the row.    *)
LEMMA ClaimsSecured ==
  ASSUME Claimable, IInv, CreditInv, NEW p \in Process, Mark(p) \/ Claim(p) \/ Unmark(p)
  PROVE  CreditInv'
<1>1. proc[p] \in Handler /\ marks \in Marks /\ (Closing(proc[p]) => Secured)
      /\ UNCHANGED <<state, backup, registered>>
  BY DEF IInv, TypeOK, CreditInv, Mark, Claim, Unmark, redis, ledger
<1>2. ~Unmark(p)
  BY DEF CreditInv, Unmark
<1>3. CASE Mark(p) /\ marks.credited /\ Credited(p, proc[p]) /\ UNCHANGED marks
  <2>1. Secured
    BY <1>3 DEF CreditInv
  <2>2. Ends(p)
    BY <1>3, <2>1, CreditedEnds
  <2>. QED
    BY <1>1, <1>3, <2>2, UnclaimedStep DEF Unclaimed, Mark, At, ledger
<1>4. ASSUME Mark(p), NEW marker, Goto(p, [proc[p] EXCEPT !.at = "claim", !.marker = marker])
      PROVE  CreditInv'
  <2>1. Seen(p, [proc[p] EXCEPT !.at = "claim", !.marker = marker])
    BY <1>4, GotoSeen
  <2>2. proc'[p].at = "claim"
    BY <1>1, <2>1 DEF Seen, Handler
  <2>3. Secured'
    BY <2>2 DEF Secured, At
  <2>4. \A q \in Process : ~At(q, "unmark")'
    BY <2>1, <2>2 DEF Seen, CreditInv, At
  <2>5. UNCHANGED row
    BY <1>4 DEF Mark, ledger
  <2>. QED
    BY <1>1, <2>3, <2>4, <2>5 DEF CreditInv
<1>5. CASE Claim(p)
  <2>1. row' /\ Credited(p, proc[p]) /\ UNCHANGED marks
    BY <1>5 DEF Claim, Claimable, Fails, CreditInv, redis
  <2>2. Secured
    BY <1>5 DEF Claim, Secured
  <2>3. Secured' /\ Ends(p)
    BY <2>1, <2>2, CreditedEnds DEF Secured
  <2>4. \A q \in Process : ~At(q, "unmark")'
    BY <2>3 DEF Ends, CreditInv, At
  <2>. QED
    BY <1>1, <2>1, <2>3, <2>4 DEF CreditInv
<1>. QED
  BY <1>2, <1>3, <1>4, <1>5 DEF Mark

LEMMA OthersSecured ==
  ASSUME Claimable, IInv, CreditInv, Chain \/ Host \/ Rebroadcast \/ UNCHANGED vars
  PROVE  CreditInv'
<1>1. UNCHANGED <<row, registered>>
  BY DEF Chain, SubmitEvidence, Mine, Deadline, Dispute, ClaimTimeout, VerifierSettles, Rule,
         Host, Register, Crash, Snapshot, Restore, Rebroadcast, vars, offchain, ledger, CreditInv
<1>2. \A p \in Process : proc'[p].at = proc[p].at /\ proc'[p].patch = proc[p].patch
                         /\ proc'[p].seen = proc[p].seen
  <2>1. CASE Mine
    <3>. DEFINE tx == Head(pool)
    <3>1. PICK outcome \in {"success", "reverted"} :
            proc' = [p \in Process |-> IF p = tx.by THEN [proc[p] EXCEPT !.tx = outcome]
                                      ELSE proc[p]]
      BY <2>1 DEF Mine
    <3>. QED
      BY <3>1 DEF IInv, TypeOK, Handler
  <2>2. CASE ~Mine
    <3>1. UNCHANGED proc
      BY <2>2 DEF Chain, SubmitEvidence, Deadline, Dispute, ClaimTimeout, VerifierSettles, Rule,
         Host, Register, Crash, Snapshot, Restore, Rebroadcast, vars, Claimable, Fails
    <3>. QED
      BY <3>1
  <2>. QED
    BY <2>1, <2>2
<1>3. Secured' = Secured
  BY <1>1, <1>2 DEF Secured, At
<1>4. \A p \in Process : ~At(p, "unmark")' /\ (Closing(proc[p])' => Secured')
  BY <1>2, <1>3 DEF CreditInv, At, Closing
<1>5. \/ UNCHANGED <<state, marks, backup>>
      \/ UNCHANGED <<state, marks>> /\ Snapshot
      \/ state' = backup.state /\ marks' = backup.marks /\ UNCHANGED backup
  BY DEF Chain, SubmitEvidence, Mine, Deadline, Dispute, ClaimTimeout, VerifierSettles, Rule,
         Host, Register, Crash, Snapshot, Restore, Rebroadcast, vars, offchain, redis
<1>6. row => Secured
  BY DEF Secured
<1>7. CASE UNCHANGED <<state, marks>> /\ Snapshot
  <2>1. Secured => row
    BY <1>7 DEF Snapshot, Secured, At
  <2>2. backup' = [state |-> state, marks |-> marks]
    BY <1>7 DEF Snapshot
  <2>3. backup'.state = state /\ backup'.marks = marks
    BY <2>2
  <2>. QED
    BY <1>1, <1>3, <1>4, <1>7, <2>1, <2>3 DEF CreditInv
<1>. QED
  BY <1>1, <1>3, <1>4, <1>5, <1>6, <1>7 DEF CreditInv

(* No credit is lost (recordWorkerPayout, creditSettledPass): a record     *)
(* that reads "verified" has its row, or a handler still claims it.        *)
THEOREM NoCreditIsLost ==
  ASSUME Claimable
  PROVE  Spec => []NoCreditLost
<1>1. Init => CreditInv
  <2>. SUFFICES ASSUME Init PROVE CreditInv
    OBVIOUS
  <2>1. registered
    BY DEF Init, Claimable
  <2>2. \A p \in Process : proc[p].at = "idle" /\ proc[p].seen.status = "accepted"
    BY DEF Init, Idle, Fresh
  <2>3. /\ ~marks.credited /\ state.status = "accepted"
        /\ ~backup.marks.credited /\ backup.state.status = "accepted"
    BY DEF Init, Fresh, Unmarked
  <2>. QED
    BY <2>1, <2>2, <2>3 DEF CreditInv, Closing, At
<1>2. IInv /\ CreditInv /\ [Next]_vars => CreditInv'
  <2>. SUFFICES ASSUME IInv, CreditInv, [Next]_vars PROVE CreditInv'
    OBVIOUS
  <2>1. ASSUME NEW c \in Call, Route(c) PROVE CreditInv'
    BY <2>1, RouteUnclaimed, UnclaimedStep DEF Process
  <2>2. ASSUME NEW p \in Process, Continue(p) \/ WaitTimeout(p) PROVE CreditInv'
    BY <2>2, HandlerUnclaimed, DockingUnclaimed, ClaimsSecured, UnclaimedStep DEF Continue
  <2>3. CASE Listen
    BY <2>3, ListenUnclaimed, UnclaimedStep DEF Process
  <2>4. CASE Chain \/ Host \/ Rebroadcast \/ UNCHANGED vars
    BY <2>4, OthersSecured
  <2>. QED
    BY <2>1, <2>2, <2>3, <2>4 DEF Next, Process
<1>3. CreditInv => NoCreditLost
  BY DEF CreditInv, NoCreditLost, Secured, At
<1>. QED
  BY <1>1, <1>2, <1>3, Invariance, PTL DEF Spec

-----------------------------------------------------------------------------
(* No round is failed by the verdict of another, with one request at a     *)
(* time: two that move one record at once can leave it a round ahead of    *)
(* the verdict that fails it, and so can a Redis that forgets a round.     *)
OneAtATime == "restore" \notin Happens /\ \A c, d \in Call : c = d

(* Every fault allowed, a handler that is to fail a record, or to cost     *)
(* reputation, holds a round that failed.                                  *)
LEMMA CausesKept ==
  ASSUME CauseInv, NEW p \in Process, Causes(p), UNCHANGED <<chain, ruled, hJudged>>
  PROVE  CauseInv'
<1>1. Failures' = Failures
  BY DEF Failures
<1>2. \A q \in Process : CauseOK(proc[q])'
  BY <1>1 DEF Causes, CauseInv, CauseOK
<1>3. RoundsOK'
  BY DEF CauseInv, RoundsOK
<1>. QED
  BY <1>2, <1>3 DEF CauseInv

LEMMA DockingCauses ==
  ASSUME IInv, CauseInv, NEW p \in Process,
         ClaimRound(p) \/ Dock(p) \/ RecordHistory(p) \/ Unround(p)
  PROVE  Causes(p)
<1>1. proc[p] \in Handler /\ CauseOK(proc[p])
  BY DEF IInv, TypeOK, CauseInv
<1>2. ASSUME NEW at \in {"dock", "history", "unround"}, Move(p, at),
             at = "dock" => proc[p].round \in Failures
      PROVE  Causes(p)
  <2>1. Seen(p, [proc[p] EXCEPT !.at = at])
    BY <1>2, GotoSeen DEF Move
  <2>2. proc'[p].at = at /\ proc'[p].round = proc[p].round
    BY <1>1, <2>1 DEF Seen, Handler
  <2>. QED
    BY <1>2, <2>1, <2>2 DEF Seen, Causes, CauseOK, Docking, Settling, Awaiting
<1>3. ClaimRound(p) => proc[p].round \in Failures
  BY <1>1 DEF ClaimRound, At, CauseOK, Docking
<1>4. \/ Docked(p) \/ DockFailed(p)
      \/ ClaimRound(p) /\ Move(p, "dock")
      \/ Move(p, "history") \/ Move(p, "unround")
  BY DEF ClaimRound, Dock, RecordHistory, Unround
<1>. QED
  BY <1>2, <1>3, <1>4, DockedGoes DEF Goes

LEMMA CausesInvariant == Spec => []CauseInv
<1>1. Init => CauseInv
  BY InitMirrored DEF MirrorInv
<1>2. IInv /\ IInv' /\ CauseInv /\ [Next]_vars => CauseInv'
  <2>. SUFFICES ASSUME IInv, IInv', CauseInv, [Next]_vars PROVE CauseInv'
    OBVIOUS
  <2>1. ASSUME NEW c \in Call, Route(c)
        PROVE  CauseInv'
    BY <2>1, RouteMirrored, CausesKept DEF Quiet, Goes, Process
  <2>2. ASSUME NEW p \in Process, Continue(p) \/ WaitTimeout(p)
        PROVE  CauseInv'
    <3>1. UNCHANGED <<chain, ruled, hJudged>>
      BY <2>2 DEF Continue, ReadChain, Load, Store, Send, Reread, Receipt, WaitTimeout, Mark,
                  Claim, Unmark, ClaimRound, Dock, RecordHistory, Unround, escrow
    <3>2. Causes(p)
      BY <2>2, ReadChainMirrored, LoadMirrored, StoreMirrored, SettlementMirrored,
         CreditingMirrored, DockingCauses DEF Continue, Quiet, Goes
    <3>. QED
      BY <3>1, <3>2, CausesKept
  <2>3. CASE Listen
    BY <2>3, ListenMirrored, CausesKept DEF Quiet, Goes, Process
  <2>4. CASE Chain
    BY <2>4, ChainSeen
  <2>5. CASE Host \/ Rebroadcast \/ UNCHANGED vars
    <3>1. UNCHANGED <<chain, ruled, hJudged>> /\ (proc' = proc \/ proc' = [p \in Process |-> Idle])
      BY <2>5 DEF Host, Rebroadcast, Register, Crash, Snapshot, Restore, vars, escrow
    <3>2. Failures' = Failures
      BY <3>1 DEF Failures
    <3>3. \A p \in Process : CauseOK(proc[p])'
      BY <3>1, <3>2 DEF Idle, CauseInv, CauseOK, Docking, Settling, Awaiting
    <3>. QED
      BY <3>1, <3>3 DEF CauseInv, RoundsOK
  <2>. QED
    BY <2>1, <2>2, <2>3, <2>4, <2>5 DEF Next, Process
<1>. QED
  BY <1>1, <1>2, Invariance, PTL DEF Spec

(* From the choice to settle a round to the record's "failed", the record  *)
(* is at that round or before it, and all of those have failed by then.    *)
Failing(local) ==
  Settling(local) \/ (local.at \in {"load", "store"} /\ local.patch = "failed")

Within(record, local) == record.round \in 1 .. local.round
OfFailed(record) == record.status = "failed" => record.round \in Failures
Open(record) == record.status \in {"submitted", "awaiting_verification"}

(* Before a ruling the request's copy of the record is the record.         *)
CallOK(local) ==
  /\ local.op # "ruling"
  /\ local.at = "store" => OfFailed(local.seen)
  /\ Failing(local) =>
       /\ Within(state, local)
       /\ local.at = "store" => Within(local.seen, local)
       /\ At(Listener, "store") => Within(proc[Listener].seen, local)
  /\ ruled = "none" =>
       /\ local.at \in {"chain", "store"} => local.seen = state
       /\ local.at = "chain" /\ local.op # "submit" => Open(local.seen)
       /\ local.at \in {"load", "store"} /\ local.patch = "awaiting_verification" =>
            state.round >= 1

(* The listener only closes the record of a task that was paid.            *)
ListenerOK ==
  /\ ruled = "none" => At(Listener, "idle")
  /\ proc[Listener].at \in {"idle", "mark", "claim", "unmark", "load", "store", "done"}
  /\ proc[Listener].at \in {"load", "store"} => proc[Listener].patch = "verified"

FailInv ==
  ruled # "poster" =>
    /\ OfFailed(state) /\ (ruled = "none" /\ Open(state) => state.round >= 1)
    /\ ListenerOK
    /\ \A c \in Call : CallOK(proc[c])

(* Elsewhere a request holds nothing that the record's round bears on.     *)
Apart(local) ==
  /\ local.op # "ruling"
  /\ \/ local.at \notin {"chain", "send", "reread", "wait", "load", "store"}
     \/ local.at = "load" /\ local.patch \in {"submitted", "verified", "verifyError"}

LEMMA ApartOK ==
  ASSUME NEW local, Apart(local)
  PROVE  CallOK(local)
BY DEF Apart, CallOK, Failing, Settling, Awaiting

\* A request goes on beside the listener, and leaves the record alone.
LEMMA RequestStep ==
  ASSUME OneAtATime, FailInv, NEW c \in Call, UNCHANGED <<state, ruled, hJudged>>,
         \A q \in Process : q # c => proc'[q] = proc[q],
         ruled # "poster" => CallOK(proc'[c])
  PROVE  FailInv'
<1>1. proc'[Listener] = proc[Listener]
  BY Parameters DEF Process
<1>2. Failures' = Failures
  BY DEF Failures
<1>. SUFFICES ASSUME ruled # "poster"
              PROVE  OfFailed(state)' /\ (ruled = "none" /\ Open(state) => state.round >= 1)'
                     /\ ListenerOK' /\ CallOK(proc[c])'
  BY DEF FailInv, OneAtATime
<1>3. ListenerOK'
  BY <1>1 DEF FailInv, ListenerOK, At
<1>4. CallOK(proc[c])'
  BY <1>1, <1>2 DEF CallOK, OfFailed, Failing, Settling, Awaiting, Within, Open, At
<1>. QED
  BY <1>2, <1>3, <1>4 DEF FailInv, OfFailed, Open

LEMMA WriteApart ==
  ASSUME IInv, NEW c \in Call, NEW local \in Handler, local.op # "ruling",
         NEW patch \in {"submitted", "verified", "verifyError"}, Write(c, local, patch)
  PROVE  Seen(c, proc'[c]) /\ CallOK(proc'[c])
<1>. DEFINE next == [local EXCEPT !.at = "load", !.patch = patch, !.seen = Fresh,
                                  !.marker = "none"]
<1>1. Seen(c, next)
  BY GotoSeen DEF Write, Process
<1>2. next.at = "load" /\ next.patch = patch /\ next.op = local.op
  BY DEF Handler
<1>. HIDE DEF next
<1>. QED
  BY <1>1, <1>2, ApartOK DEF Seen, Apart

LEMMA DoneApart ==
  ASSUME IInv, NEW c \in Call, Done(c)
  PROVE  Seen(c, proc'[c]) /\ CallOK(proc'[c])
<1>1. Seen(c, Idle)
  BY GotoSeen DEF Done, Process
<1>. QED
  BY <1>1, ApartOK DEF Seen, Apart, Idle

LEMMA MoveApart ==
  ASSUME IInv, NEW c \in Call, NEW at, NEW local \in Handler,
         at \in {"claim", "unmark", "mark", "round", "dock", "history", "unround", "unrule"},
         local.op # "ruling", Goto(c, [local EXCEPT !.at = at])
  PROVE  Seen(c, proc'[c]) /\ CallOK(proc'[c])
<1>1. Seen(c, [local EXCEPT !.at = at])
  BY GotoSeen DEF Process
<1>2. proc'[c].at = at /\ proc'[c].op = local.op
  BY <1>1 DEF Seen, Handler
<1>. QED
  BY <1>1, <1>2, ApartOK DEF Seen, Apart

\* An outcome is mirrored: the record of a failed round is at it or before.
LEMMA AdoptFails ==
  ASSUME IInv, NEW c \in Call, NEW local \in Handler, local.op # "ruling", Adopt(c, local),
         ~local.passed => /\ Within(state, local)
                          /\ At(Listener, "store") => Within(proc[Listener].seen, local)
  PROVE  Seen(c, proc'[c]) /\ CallOK(proc'[c])
<1>. DEFINE next == [Idle EXCEPT !.op = local.op, !.round = local.round]
            write == [next EXCEPT !.at = "load", !.patch = "failed", !.seen = Fresh,
                                  !.marker = "none"]
<1>1. next \in Handler /\ next.round = local.round /\ next.op = local.op
  BY IdleHandler DEF Handler, Idle
<1>2. CASE local.passed
  <2>1. Seen(c, [next EXCEPT !.at = "mark"])
    BY <1>2, GotoSeen DEF Adopt, Process
  <2>2. proc'[c].at = "mark" /\ proc'[c].op = local.op
    BY <1>1, <2>1 DEF Seen, Handler
  <2>. QED
    BY <2>1, <2>2, ApartOK DEF Seen, Apart
<1>3. CASE ~local.passed
  <2>1. Seen(c, write)
    BY <1>3, GotoSeen DEF Adopt, Write, Process
  <2>2. write.at = "load" /\ write.patch = "failed" /\ write.round = local.round
        /\ write.op = local.op
    BY <1>1 DEF Handler
  <2>. HIDE DEF write
  <2>3. CallOK(write)
    BY <1>3, <2>2 DEF CallOK, Within
  <2>. QED
    BY <2>1, <2>3 DEF Seen
<1>. QED
  BY <1>2, <1>3

LEMMA RouteFails ==
  ASSUME OneAtATime, IInv, FailInv, NEW c \in Call, Route(c)
  PROVE  FailInv'
<1>1. UNCHANGED <<mode, redis, ledger, escrow, faults>>
  BY DEF Route, Submit, Verify, Verdict, Finalize, Begin, Confirm
<1>2. ASSUME NEW op \in {"submit", "finalize", "verify", "verdict"}, NEW passed,
             Begin(c, op, passed), op = "submit" \/ Open(state)
      PROVE  Seen(c, proc'[c]) /\ CallOK(proc'[c])
  <2>. DEFINE local == [Idle EXCEPT !.at = "chain", !.op = op, !.seen = state, !.passed = passed]
  <2>1. Seen(c, local)
    BY <1>2, GotoSeen DEF Begin, Process
  <2>2. local.at = "chain" /\ local.op = op /\ local.seen = state
    BY DEF Idle
  <2>. HIDE DEF local
  <2>. QED
    BY <1>2, <2>1, <2>2 DEF Seen, CallOK, Failing, Settling, Awaiting
<1>3. ASSUME Confirm(c)
      PROVE  Seen(c, proc'[c]) /\ CallOK(proc'[c])
  <2>. DEFINE local == [Idle EXCEPT !.op = "confirm"]
  <2>1. local \in Handler /\ local.op = "confirm"
    BY IdleHandler DEF Handler, Idle
  <2>2. CASE Goto(c, [local EXCEPT !.at = "mark"])
    BY <2>1, <2>2, MoveApart
  <2>3. ASSUME NEW r \in Attempt, Goto(c, [local EXCEPT !.at = "round", !.round = r])
        PROVE  Seen(c, proc'[c]) /\ CallOK(proc'[c])
    <3>1. Seen(c, [local EXCEPT !.at = "round", !.round = r])
      BY <2>3, GotoSeen DEF Process
    <3>2. proc'[c].at = "round" /\ proc'[c].op = "confirm"
      BY <2>1, <3>1 DEF Seen, Handler
    <3>. QED
      BY <3>1, <3>2, ApartOK DEF Seen, Apart
  <2>. QED
    BY <1>3, <2>2, <2>3 DEF Confirm
<1>4. Seen(c, proc'[c]) /\ CallOK(proc'[c])
  <2>1. ASSUME NEW answer \in BOOLEAN, Submit(c, answer) \/ Verify(c, answer) \/ Verdict(c, answer)
        PROVE  Seen(c, proc'[c]) /\ CallOK(proc'[c])
    <3>1. \/ Begin(c, "submit", answer)
          \/ Begin(c, "verify", answer) /\ Open(state)
          \/ Begin(c, "verdict", answer) /\ Open(state)
      BY <2>1 DEF Submit, Verify, Verdict, Open
    <3>. QED
      BY <1>2, <3>1
  <2>2. CASE Finalize(c)
    BY <1>2, <2>2 DEF Finalize, Open
  <2>. QED
    BY <1>3, <2>1, <2>2 DEF Route
<1>. QED
  BY <1>1, <1>4, RequestStep DEF Seen, redis, escrow

\* Until the escrow has ruled, what a request knows of the record holds.
LEMMA ReadChainFails ==
  ASSUME OneAtATime, IInv, CauseInv, FailInv, NEW c \in Call, ReadChain(c)
  PROVE  FailInv'
<1>. DEFINE local == [proc[c] EXCEPT !.round = chain.attempts]
            told == [local EXCEPT !.passed = (chain.status = "Completed")]
<1>1. UNCHANGED <<state, ruled, hJudged>>
  BY DEF ReadChain, redis, escrow
<1>2. /\ proc[c] \in Handler /\ proc[c].at = "chain" /\ c \in Process
      /\ chain.attempts \in 0 .. MaxAttempts /\ state.round \in Nat
  BY Parameters DEF ReadChain, At, Process, IInv, TypeOK, EscrowTask, TaskState
<1>3. chain.attempts \in RoundKey
  BY <1>2, Parameters DEF RoundKey, Attempt, Ruling
<1>4. /\ local \in Handler /\ local.round = chain.attempts /\ local.op = proc[c].op
      /\ local.seen = proc[c].seen
      /\ told \in Handler /\ told.round = chain.attempts /\ told.op = proc[c].op
      /\ told.passed = (chain.status = "Completed")
  BY <1>2, <1>3 DEF Handler
<1>5. SUFFICES ASSUME ruled # "poster"
               PROVE  Seen(c, proc'[c]) /\ CallOK(proc'[c])
  <2>1. \A q \in Process : q # c => proc'[q] = proc[q]
    BY <1>2 DEF ReadChain, Write, Goto, Adopt, Done, IInv, TypeOK
  <2>. QED
    BY <1>1, <2>1, <1>5, RequestStep
<1>6. CallOK(proc[c]) /\ ListenerOK /\ proc[c].op # "ruling"
      /\ (ruled = "none" /\ Open(state) => state.round >= 1)
  BY <1>5 DEF FailInv, CallOK
<1>7. ASSUME RoundBroadcast(local), ruled = "none", local.op # "submit"
      PROVE  state.round \in 1 .. chain.attempts /\ ~At(Listener, "store")
  BY <1>2, <1>4, <1>6, <1>7 DEF RoundBroadcast, CallOK, ListenerOK, At
<1>8. chain.status \in {"Submitted", "Verified"} => ruled = "none"
  BY <1>5 DEF CauseInv, RoundsOK, IInv, TypeOK
<1>. HIDE DEF local, told
<1>9. CASE Write(c, local, "submitted")
  BY <1>4, <1>6, <1>9, WriteApart
<1>10. CASE MayPark(local) /\ Write(c, local, "awaiting_verification")
  <2>. DEFINE next == [local EXCEPT !.at = "load", !.patch = "awaiting_verification",
                                    !.seen = Fresh, !.marker = "none"]
  <2>1. Seen(c, next)
    BY <1>2, <1>10, GotoSeen DEF Write
  <2>2. next.at = "load" /\ next.patch = "awaiting_verification" /\ next.op = local.op
    BY <1>4 DEF Handler
  <2>3. ruled = "none" => state.round >= 1
    BY <1>2, <1>4, <1>7, <1>10 DEF MayPark
  <2>. HIDE DEF next
  <2>. QED
    BY <1>4, <1>6, <2>1, <2>2, <2>3 DEF Seen, CallOK, Failing, Settling, Awaiting
<1>11. CASE MaySettle(local) /\ Goto(c, [local EXCEPT !.at = "send"])
  <2>. DEFINE next == [local EXCEPT !.at = "send"]
  <2>1. Seen(c, next)
    BY <1>2, <1>11, GotoSeen
  <2>2. next.at = "send" /\ next.round = chain.attempts /\ next.op = local.op
    BY <1>4 DEF Handler
  <2>3. Within(state, next) /\ ~At(Listener, "store")
    BY <1>7, <1>8, <1>11, <2>2 DEF MaySettle, Judges, Within
  <2>. HIDE DEF next
  <2>. QED
    BY <1>4, <1>6, <2>1, <2>2, <2>3 DEF Seen, CallOK
<1>12. CASE MayAdopt(local) /\ Adopt(c, told)
  <2>1. ~told.passed => Within(state, told) /\ ~At(Listener, "store")
    BY <1>4, <1>7, <1>8, <1>12 DEF MayAdopt, Judges, Within
  <2>. QED
    BY <1>4, <1>6, <1>12, <2>1, AdoptFails
<1>13. CASE Done(c)
  BY <1>13, DoneApart
<1>. QED
  BY <1>9, <1>10, <1>11, <1>12, <1>13 DEF ReadChain, local, told

LEMMA LoadFails ==
  ASSUME OneAtATime, IInv, FailInv, NEW c \in Call, Load(c)
  PROVE  FailInv'
<1>. DEFINE next == [proc[c] EXCEPT !.at = "store", !.seen = state]
<1>1. c \in Process /\ proc[c] \in Handler /\ proc[c].at = "load" /\ UNCHANGED <<state, ruled, hJudged>>
  BY DEF Process, IInv, TypeOK, Load, At, redis, escrow
<1>2. Seen(c, next)
  BY <1>1, GotoSeen DEF Load
<1>3. /\ next.at = "store" /\ next.seen = state /\ next.patch = proc[c].patch
      /\ next.round = proc[c].round /\ next.op = proc[c].op
  BY <1>1 DEF Handler
<1>. HIDE DEF next
<1>4. ASSUME ruled # "poster" PROVE CallOK(next)
  <2>1. CallOK(proc[c]) /\ OfFailed(state)
    BY <1>4 DEF FailInv
  <2>2. Failing(next) => Failing(proc[c])
    BY <1>1, <1>3 DEF Failing, Settling, Awaiting
  <2>3. Within(state, proc[c]) <=> Within(state, next)
    BY <1>3 DEF Within
  <2>4. Within(proc[Listener].seen, proc[c]) => Within(proc[Listener].seen, next)
    BY <1>3 DEF Within
  <2>. QED
    BY <1>1, <1>3, <2>1, <2>2, <2>3, <2>4 DEF CallOK
<1>. QED
  BY <1>1, <1>2, <1>4, RequestStep DEF Seen

LEMMA SettlementFails ==
  ASSUME OneAtATime, IInv, FailInv, NEW c \in Call,
         Send(c) \/ Reread(c) \/ Receipt(c) \/ WaitTimeout(c)
  PROVE  FailInv'
<1>1. c \in Process /\ proc[c] \in Handler /\ proc[c].at \in {"send", "reread", "wait"}
      /\ UNCHANGED <<state, ruled, hJudged>>
  BY DEF Process, IInv, TypeOK, Send, Reread, Receipt, WaitTimeout, At, redis, escrow
<1>2. Failing(proc[c])
  BY <1>1 DEF Failing, Settling, Awaiting
<1>. DEFINE pooled == [proc[c] EXCEPT !.tx = "pool"]
            left == [proc[c] EXCEPT !.tx = "none"]
<1>3. /\ pooled \in Handler /\ pooled.op = proc[c].op /\ pooled.round = proc[c].round
      /\ left \in Handler /\ left.op = proc[c].op
  BY <1>1 DEF Handler
<1>4. \/ Write(c, pooled, "txHash") \/ Move(c, "reread")
      \/ Adopt(c, proc[c])
      \/ Write(c, proc[c], "verifyError") \/ Write(c, left, "verifyError")
  BY DEF Send, Reread, Receipt, WaitTimeout
<1>5. \A q \in Process : q # c => proc'[q] = proc[q]
  BY <1>1, <1>4 DEF Write, Goto, Move, Adopt, IInv, TypeOK
<1>6. ASSUME ruled # "poster" PROVE CallOK(proc'[c])
  <2>1. /\ CallOK(proc[c]) /\ proc[c].op # "ruling" /\ Within(state, proc[c])
        /\ At(Listener, "store") => Within(proc[Listener].seen, proc[c])
    BY <1>2, <1>6 DEF FailInv, CallOK
  <2>. HIDE DEF pooled, left
  <2>2. ASSUME NEW next, Seen(c, next), next.op = proc[c].op, next.round = proc[c].round,
               next.at = "reread" \/ (next.at = "load" /\ next.patch = "txHash")
        PROVE  CallOK(proc'[c])
    BY <2>1, <2>2 DEF Seen, CallOK, Within
  <2>3. CASE Write(c, pooled, "txHash")
    <3>. DEFINE next == [pooled EXCEPT !.at = "load", !.patch = "txHash", !.seen = Fresh,
                                       !.marker = "none"]
    <3>1. Seen(c, next)
      BY <1>1, <2>3, GotoSeen DEF Write
    <3>2. next.at = "load" /\ next.patch = "txHash" /\ next.op = proc[c].op
          /\ next.round = proc[c].round
      BY <1>3 DEF Handler
    <3>. HIDE DEF next
    <3>. QED
      BY <2>2, <3>1, <3>2
  <2>4. CASE Move(c, "reread")
    <3>. DEFINE next == [proc[c] EXCEPT !.at = "reread"]
    <3>1. Seen(c, next)
      BY <1>1, <2>4, GotoSeen DEF Move
    <3>2. next.at = "reread" /\ next.op = proc[c].op /\ next.round = proc[c].round
      BY <1>1 DEF Handler
    <3>. HIDE DEF next
    <3>. QED
      BY <2>2, <3>1, <3>2
  <2>. QED
    BY <1>1, <1>3, <1>4, <2>1, <2>3, <2>4, AdoptFails, WriteApart
<1>. QED
  BY <1>1, <1>5, <1>6, RequestStep

\* The accounting of a request: nothing here is on its way to "failed".
LEMMA AccountingFails ==
  ASSUME OneAtATime, IInv, FailInv, NEW c \in Call,
         \/ Mark(c) \/ Claim(c) \/ Unmark(c)
         \/ ClaimRound(c) \/ Dock(c) \/ RecordHistory(c) \/ Unround(c)
  PROVE  FailInv'
<1>1. c \in Process /\ proc[c] \in Handler /\ UNCHANGED <<state, ruled, hJudged>>
  BY DEF Process, IInv, TypeOK, Mark, Claim, Unmark, ClaimRound, Dock, RecordHistory, Unround,
         redis, escrow
<1>2. ASSUME ruled # "poster"
      PROVE  Seen(c, proc'[c]) /\ CallOK(proc'[c])
  <2>1. proc[c].op # "ruling"
    BY <1>2 DEF FailInv, CallOK
  <2>2. ASSUME NEW at \in {"claim", "unmark"}, NEW marker \in {"set", "unknown", "unregistered"},
               Goto(c, [proc[c] EXCEPT !.at = at, !.marker = marker])
        PROVE  Seen(c, proc'[c]) /\ CallOK(proc'[c])
    <3>1. Seen(c, [proc[c] EXCEPT !.at = at, !.marker = marker])
      BY <1>1, <2>2, GotoSeen
    <3>2. proc'[c].at = at /\ proc'[c].op = proc[c].op
      BY <1>1, <3>1 DEF Seen, Handler
    <3>. QED
      BY <2>1, <3>1, <3>2, ApartOK DEF Seen, Apart
  <2>3. ASSUME NEW at \in {"claim", "unmark", "dock", "history", "unround", "unrule"}, Move(c, at)
        PROVE  Seen(c, proc'[c]) /\ CallOK(proc'[c])
    BY <1>1, <2>1, <2>3, MoveApart DEF Move
  <2>4. ASSUME Credited(c, proc[c]) \/ Docked(c) \/ DockFailed(c) \/ Done(c)
        PROVE  Seen(c, proc'[c]) /\ CallOK(proc'[c])
    BY <1>1, <2>1, <2>4, DoneApart, WriteApart DEF Credited, Docked, DockFailed
  <2>5. CASE Mark(c) \/ Claim(c) \/ Unmark(c)
    BY <2>2, <2>3, <2>4, <2>5 DEF Mark, Claim, Unmark
  <2>6. CASE ClaimRound(c) \/ Dock(c) \/ RecordHistory(c) \/ Unround(c)
    BY <2>3, <2>4, <2>6 DEF ClaimRound, Dock, RecordHistory, Unround
  <2>. QED
    BY <2>5, <2>6
<1>3. \A q \in Process : q # c => proc'[q] = proc[q]
  BY <1>1 DEF Mark, Claim, Unmark, ClaimRound, Dock, RecordHistory, Unround, Credited, Docked,
              DockFailed, Done, Move, Write, Goto, IInv, TypeOK
<1>. QED
  BY <1>1, <1>2, <1>3, RequestStep

\* Every round up to a failed one of the escrow's has failed.
LEMMA FailedUpTo ==
  ASSUME TypeOK, RoundsOK, ruled # "poster", NEW n \in Failures, NEW r \in 1 .. n
  PROVE  r \in Failures
<1>1. n \in Attempt /\ hJudged[n].verdict = "fail" /\ n <= chain.attempts
  BY DEF Failures, RoundsOK
<1>2. r \in Attempt /\ (r = n \/ r < chain.attempts)
  BY <1>1, Parameters DEF TypeOK, EscrowTask, Attempt
<1>. QED
  BY <1>1, <1>2 DEF RoundsOK, Failures

LEMMA StoreFails ==
  ASSUME OneAtATime, IInv, CauseInv, FailInv, NEW c \in Call, Store(c)
  PROVE  FailInv'
<1>1. /\ c \in Process /\ proc[c] \in Handler /\ proc[c].at = "store" /\ CauseOK(proc[c])
      /\ UNCHANGED <<ruled, hJudged>> /\ state' = Patched(proc[c], proc[c].seen)
      /\ proc[c].seen \in TaskState /\ proc[c].round \in Nat /\ state.round \in Nat
  BY Parameters DEF Process, IInv, TypeOK, Handler, CauseInv, Store, At, TaskState, RoundKey, Attempt, Ruling
<1>2. Failures' = Failures
  BY <1>1 DEF Failures
<1>. SUFFICES ASSUME ruled # "poster"
              PROVE  /\ OfFailed(state)' /\ (ruled = "none" /\ Open(state) => state.round >= 1)'
                     /\ ListenerOK' /\ CallOK(proc[c])'
  BY <1>1 DEF FailInv, OneAtATime
<1>3. CallOK(proc[c]) /\ ListenerOK /\ (ruled = "none" /\ Open(state) => state.round >= 1)
  BY DEF FailInv
<1>4. /\ proc[c].patch = "submitted" =>
           state'.status = "submitted" /\ state'.round = proc[c].round + 1
      /\ proc[c].patch \in {"awaiting_verification", "verified", "failed"} =>
           state'.status = proc[c].patch /\ state'.round = proc[c].seen.round
      /\ proc[c].patch \notin {"submitted", "awaiting_verification", "verified", "failed"} =>
           state' = proc[c].seen
  BY <1>1 DEF Patched, TaskState
<1>5. OfFailed(state)'
  <2>1. CASE proc[c].patch = "failed"
    <3>1. Within(proc[c].seen, proc[c])
      BY <1>1, <1>3, <2>1 DEF CallOK, Failing
    <3>2. proc[c].round \in Failures
      BY <1>1, <1>3, <2>1 DEF CauseOK, Docking, CallOK
    <3>3. proc[c].seen.round \in Failures
      BY <3>1, <3>2, FailedUpTo DEF Within, IInv, CauseInv
    <3>. QED
      BY <1>2, <1>4, <2>1, <3>3 DEF OfFailed
  <2>2. CASE proc[c].patch # "failed"
    <3>1. OfFailed(proc[c].seen)
      BY <1>1, <1>3 DEF CallOK
    <3>. QED
      BY <1>2, <1>4, <2>2, <3>1 DEF OfFailed
  <2>. QED
    BY <2>1, <2>2
<1>6. (ruled = "none" /\ Open(state) => state.round >= 1)'
  <2>. SUFFICES ASSUME ruled = "none", Open(state') PROVE state'.round >= 1
    BY <1>1 DEF Open
  <2>1. proc[c].seen = state
        /\ (proc[c].patch = "awaiting_verification" => state.round >= 1)
    BY <1>1, <1>3 DEF CallOK
  <2>2. proc[c].patch = "submitted" => state'.round >= 1
    BY <1>1, <1>4
  <2>. QED
    BY <1>3, <1>4, <2>1, <2>2 DEF Open
<1>. DEFINE wait == [proc[c] EXCEPT !.at = "wait", !.seen = Fresh]
            next == [Idle EXCEPT !.at = "round", !.op = proc[c].op, !.round = proc[c].round]
<1>7. /\ wait \in Handler /\ wait.at = "wait" /\ wait.op = proc[c].op /\ wait.round = proc[c].round
      /\ next.at = "round" /\ next.op = proc[c].op
  BY <1>1, IdleHandler DEF Handler, Idle
<1>8. \/ proc[c].patch = "txHash" /\ Goto(c, wait)
      \/ Goto(c, next)
      \/ Done(c)
  BY <1>3 DEF Store, CallOK
<1>. HIDE DEF wait, next
<1>9. proc'[Listener] = proc[Listener]
  BY <1>1, <1>8, Parameters DEF Process, Goto, Done, IInv, TypeOK
<1>10. ListenerOK'
  BY <1>1, <1>3, <1>9 DEF ListenerOK, At
<1>11. CallOK(proc[c])'
  <2>1. CASE proc[c].patch = "txHash" /\ Goto(c, wait)
    <3>1. Seen(c, wait)
      BY <1>1, <2>1, GotoSeen
    <3>2. /\ Within(proc[c].seen, proc[c]) /\ state' = proc[c].seen
          /\ At(Listener, "store") => Within(proc[Listener].seen, proc[c])
      BY <1>1, <1>3, <1>4, <2>1 DEF CallOK, Failing, Settling, Awaiting
    <3>. QED
      BY <1>3, <1>7, <1>9, <3>1, <3>2 DEF Seen, CallOK, Within, At
  <2>2. CASE Goto(c, next)
    <3>1. Seen(c, next)
      BY <1>1, <2>2, GotoSeen
    <3>. QED
      BY <1>3, <1>7, <3>1 DEF Seen, CallOK, Failing, Settling, Awaiting
  <2>3. CASE Done(c)
    <3>1. Seen(c, Idle)
      BY <1>1, <2>3, GotoSeen DEF Done
    <3>. QED
      BY <3>1 DEF Seen, Idle, CallOK, Failing, Settling, Awaiting
  <2>. QED
    BY <1>8, <2>1, <2>2, <2>3
<1>. QED
  BY <1>5, <1>6, <1>10, <1>11

\* The listener's own copy of the record is as old as the record at most.
LEMMA ListenerFails ==
  ASSUME IInv, FailInv, Listen \/ Continue(Listener)
  PROVE  FailInv'
<1>. DEFINE p == Listener
<1>1. /\ p \in Process /\ proc[p] \in Handler /\ UNCHANGED <<ruled, hJudged>>
      /\ proc[p].seen \in TaskState
  BY DEF Process, IInv, TypeOK, Handler, Listen, Mirror, ClaimRuling, UnclaimRuling, MarkDone,
         Continue, ReadChain, Load, Store, Send, Reread, Receipt, Mark, Claim, Unmark,
         ClaimRound, Dock, RecordHistory, Unround, escrow
<1>2. Failures' = Failures
  BY <1>1 DEF Failures
<1>. SUFFICES ASSUME ruled # "poster"
              PROVE  /\ OfFailed(state)' /\ (ruled = "none" /\ Open(state) => state.round >= 1)'
                     /\ ListenerOK'
                     /\ \A c \in Call : CallOK(proc[c])'
  BY <1>1 DEF FailInv
<1>3. /\ OfFailed(state) /\ ListenerOK /\ \A c \in Call : CallOK(proc[c])
  BY DEF FailInv
<1>4. /\ Mirror \/ Load(p) \/ Store(p) \/ Mark(p) \/ Claim(p) \/ Unmark(p) \/ MarkDone
      /\ ruled # "none"
  BY <1>3, Parameters DEF ListenerOK, At, Listen, Mirror, ClaimRuling, UnclaimRuling, MarkDone,
         Continue, ReadChain, Load, Store, Send, Reread, Receipt, Mark, Claim, Unmark,
         ClaimRound, Dock, RecordHistory, Unround
<1>5. ASSUME NEW local, Seen(p, local),
             local.at \in {"idle", "mark", "claim", "unmark", "load", "done"},
             local.at = "load" => local.patch = "verified",
             state' = state \/ /\ At(p, "store") /\ state'.status = "verified"
                               /\ state'.round = proc[p].seen.round
      PROVE  /\ OfFailed(state)' /\ (ruled = "none" /\ Open(state) => state.round >= 1)'
             /\ ListenerOK' /\ \A c \in Call : CallOK(proc[c])'
  <2>1. \A c \in Call : proc'[c] = proc[c]
    BY <1>5, Parameters DEF Seen, Process
  <2>2. proc'[p] = local
    BY <1>5 DEF Seen
  <2>3. OfFailed(state)' /\ ListenerOK'
    BY <1>1, <1>2, <1>3, <1>4, <1>5, <2>2 DEF OfFailed, ListenerOK, At
  <2>4. ASSUME NEW c \in Call PROVE CallOK(proc[c])'
    <3>1. CallOK(proc[c]) /\ proc'[c] = proc[c]
      BY <1>3, <2>1
    <3>2. Failing(proc[c]) => Within(state', proc[c])
      BY <1>5, <3>1 DEF CallOK, Within
    <3>. QED
      BY <1>1, <1>2, <1>4, <1>5, <2>2, <3>1, <3>2
         DEF CallOK, OfFailed, Failing, Settling, Awaiting, Within, At
  <2>. QED
    BY <1>1, <1>4, <2>3, <2>4
<1>6. CASE Mirror
  <2>. DEFINE local == [Idle EXCEPT !.op = "ruling", !.round = Ruling]
              next == [local EXCEPT !.at = "mark"]
  <2>1. ruled = "worker" /\ Goto(p, next) /\ state' = state
    BY <1>4, <1>6 DEF Mirror, redis, IInv, TypeOK
  <2>2. Seen(p, next)
    BY <1>1, <2>1, GotoSeen
  <2>3. local \in Handler
    BY IdleHandler DEF Handler, Idle, RoundKey
  <2>4. next.at = "mark"
    BY <2>3 DEF Handler
  <2>. HIDE DEF next
  <2>. QED
    BY <1>5, <2>1, <2>2, <2>4
<1>7. CASE MarkDone
  <2>1. Seen(p, Idle) /\ state' = state
    BY <1>1, <1>7, GotoSeen DEF MarkDone, Done
  <2>2. Idle.at = "idle"
    BY DEF Idle
  <2>. QED
    BY <1>5, <2>1, <2>2
<1>8. CASE Mark(p) \/ Claim(p) \/ Unmark(p)
  <2>1. state' = state
    BY <1>8 DEF Mark, Claim, Unmark, redis
  <2>2. ASSUME NEW at \in {"claim", "unmark"}, NEW marker,
               Goto(p, [proc[p] EXCEPT !.at = at, !.marker = marker])
        PROVE  \E local : Seen(p, local) /\ local.at = at
    <3>1. Seen(p, [proc[p] EXCEPT !.at = at, !.marker = marker])
      BY <1>1, <2>2, GotoSeen
    <3>2. proc'[p].at = at
      BY <1>1, <3>1 DEF Seen, Handler
    <3>. QED
      BY <3>1, <3>2 DEF Seen
  <2>3. ASSUME Move(p, "unmark")
        PROVE  \E local : Seen(p, local) /\ local.at = "unmark"
    <3>1. Seen(p, [proc[p] EXCEPT !.at = "unmark"])
      BY <1>1, <2>3, GotoSeen DEF Move
    <3>2. proc'[p].at = "unmark"
      BY <1>1, <3>1 DEF Seen, Handler
    <3>. QED
      BY <3>1, <3>2 DEF Seen
  <2>4. ASSUME Credited(p, proc[p]) \/ Done(p)
        PROVE  \E local : Seen(p, local) /\ (local.at = "idle" \/ (local.at = "load" /\ local.patch = "verified"))
    <3>1. CASE Done(p)
      BY <1>1, <3>1, GotoSeen DEF Done, Idle
    <3>2. CASE Write(p, proc[p], "verified")
      <4>. DEFINE next == [proc[p] EXCEPT !.at = "load", !.patch = "verified", !.seen = Fresh,
                                          !.marker = "none"]
      <4>1. Seen(p, next)
        BY <1>1, <3>2, GotoSeen DEF Write
      <4>2. next.at = "load" /\ next.patch = "verified"
        BY <1>1 DEF Handler
      <4>. HIDE DEF next
      <4>. QED
        BY <4>1, <4>2
    <3>. QED
      BY <2>4, <3>1, <3>2 DEF Credited
  <2>5. \E local : /\ Seen(p, local)
                   /\ \/ local.at \in {"idle", "claim", "unmark"}
                      \/ local.at = "load" /\ local.patch = "verified"
    BY <1>8, <2>2, <2>3, <2>4 DEF Mark, Claim, Unmark
  <2>. QED
    BY <1>5, <2>1, <2>5
<1>9. CASE Store(p)
  <2>1. /\ proc[p].at = "store" /\ proc[p].patch = "verified"
        /\ state' = Patched(proc[p], proc[p].seen)
    BY <1>3, <1>9 DEF Store, At, ListenerOK
  <2>2. state'.status = "verified" /\ state'.round = proc[p].seen.round
    BY <1>1, <2>1 DEF Patched, TaskState
  <2>3. Goto(p, [Idle EXCEPT !.at = "done", !.op = "ruling"]) \/ Done(p)
    BY <1>9, <2>1 DEF Store
  <2>4. \/ Seen(p, [Idle EXCEPT !.at = "done", !.op = "ruling"])
        \/ Seen(p, Idle)
    BY <1>1, <2>3, GotoSeen DEF Done
  <2>5. [Idle EXCEPT !.at = "done", !.op = "ruling"].at = "done" /\ Idle.at = "idle"
    BY DEF Idle
  <2>. QED
    BY <1>5, <2>1, <2>2, <2>4, <2>5 DEF At
<1>10. CASE Load(p)
  <2>. DEFINE next == [proc[p] EXCEPT !.at = "store", !.seen = state]
  <2>1. Seen(p, next) /\ state' = state
    BY <1>1, <1>10, GotoSeen DEF Load, redis
  <2>2. next.at = "store" /\ next.seen = state /\ next.patch = "verified"
    BY <1>1, <1>3, <1>10 DEF Load, At, ListenerOK, Handler
  <2>. HIDE DEF next
  <2>3. OfFailed(state)' /\ ListenerOK'
    BY <1>1, <1>2, <1>3, <1>4, <2>1, <2>2 DEF Seen, OfFailed, ListenerOK, At
  <2>4. ASSUME NEW c \in Call PROVE CallOK(proc[c])'
    <3>1. CallOK(proc[c]) /\ proc'[c] = proc[c] /\ proc'[p].seen = state
      BY <1>3, <2>1, <2>2, Parameters DEF Seen, Process
    <3>. QED
      BY <1>1, <1>2, <1>4, <2>1, <3>1
         DEF CallOK, OfFailed, Failing, Settling, Awaiting, Within, At
  <2>. QED
    BY <1>1, <1>4, <2>3, <2>4
<1>. QED
  BY <1>4, <1>6, <1>7, <1>8, <1>9, <1>10

\* The escrow, and the host without a restore: a round that failed stays so,
\* and nobody's copy of the record changes.
LEMMA AroundFails ==
  ASSUME OneAtATime, IInv, CauseInv, FailInv, Chain \/ Host \/ Rebroadcast \/ UNCHANGED vars
  PROVE  FailInv'
<1>1. Failures \subseteq Failures' /\ (ruled = "none" \/ ruled' = ruled)
  <2>1. CASE Chain
    <3>1. /\ \A r \in Attempt : hJudged[r].verdict = "fail" => hJudged'[r].verdict = "fail"
          /\ ruled = "none" \/ ruled' = ruled
      <4>1. ASSUME NEW passed, NEW on, Judged(passed, on), NEW r \in Attempt,
                   hJudged[r].verdict = "fail"
            PROVE  hJudged'[r].verdict = "fail"
        <5>1. r # chain.attempts /\ DOMAIN hJudged = Attempt
          BY <4>1 DEF Judged, CauseInv, RoundsOK, IInv, TypeOK
        <5>2. hJudged'[r] = hJudged[r]
          BY <4>1, <5>1 DEF Judged
        <5>. QED
          BY <4>1, <5>2
      <4>2. hJudged' = hJudged \/ \E passed, on : Judged(passed, on)
        BY <2>1 DEF Chain, SubmitEvidence, Mine, Deadline, Dispute, ClaimTimeout, VerifierSettles,
                    Rule
      <4>3. ruled' = ruled \/ chain.status = "Disputed"
        BY <2>1 DEF Chain, SubmitEvidence, Mine, Deadline, Dispute, ClaimTimeout, VerifierSettles,
                    Rule
      <4>4. chain.status = "Disputed" => ruled = "none"
        BY DEF CauseInv, RoundsOK
      <4>. QED
        BY <4>1, <4>2, <4>3, <4>4
    <3>. QED
      BY <3>1 DEF Failures
  <2>2. CASE ~Chain
    BY <2>2 DEF Host, Rebroadcast, Register, Crash, Snapshot, Restore, vars, escrow, Failures
  <2>. QED
    BY <2>1, <2>2
<1>2. state' = state
  BY DEF Chain, SubmitEvidence, Mine, Deadline, Dispute, ClaimTimeout, VerifierSettles, Rule,
         Host, Register, Crash, Snapshot, Restore, Rebroadcast, vars, offchain, redis,
         OneAtATime, Fails
<1>3. ASSUME NEW p \in Process
      PROVE  \/ proc'[p] = Idle
             \/ /\ proc'[p].at = proc[p].at /\ proc'[p].op = proc[p].op
                /\ proc'[p].seen = proc[p].seen /\ proc'[p].patch = proc[p].patch
                /\ proc'[p].round = proc[p].round
  <2>1. CASE Mine
    <3>. DEFINE tx == Head(pool)
    <3>1. PICK outcome \in {"success", "reverted"} :
            proc' = [q \in Process |-> IF q = tx.by THEN [proc[q] EXCEPT !.tx = outcome]
                                      ELSE proc[q]]
      BY <2>1 DEF Mine
    <3>. QED
      BY <3>1 DEF IInv, TypeOK, Handler
  <2>2. CASE ~Mine
    <3>1. proc' = proc \/ proc' = [q \in Process |-> Idle]
      BY <2>2 DEF Chain, SubmitEvidence, Deadline, Dispute, ClaimTimeout, VerifierSettles, Rule,
         Host, Register, Crash, Snapshot, Restore, Rebroadcast, vars
    <3>. QED
      BY <3>1
  <2>. QED
    BY <2>1, <2>2
<1>. SUFFICES ASSUME ruled # "poster"
              PROVE  /\ OfFailed(state)' /\ (ruled = "none" /\ Open(state) => state.round >= 1)'
                     /\ ListenerOK'
                     /\ \A c \in Call : CallOK(proc[c])'
  BY <1>1 DEF FailInv
<1>4. /\ OfFailed(state) /\ ListenerOK /\ (ruled = "none" /\ Open(state) => state.round >= 1)
      /\ \A c \in Call : CallOK(proc[c])
  BY DEF FailInv
<1>5. ruled' = "none" => ruled = "none"
  BY <1>1
<1>6. Listener \in Process /\ Idle.at = "idle" /\ Idle.op = "none"
  BY DEF Process, Idle
<1>7. OfFailed(state)' /\ (ruled = "none" /\ Open(state) => state.round >= 1)'
  BY <1>1, <1>2, <1>4, <1>5 DEF OfFailed, Open
<1>8. ListenerOK'
  BY <1>3, <1>4, <1>5, <1>6 DEF ListenerOK, At
<1>9. ASSUME NEW c \in Call PROVE CallOK(proc[c])'
  <2>1. c \in Process /\ CallOK(proc[c])
    BY <1>4 DEF Process
  <2>2. /\ At(Listener, "store")' => At(Listener, "store") /\ proc'[Listener].seen = proc[Listener].seen
    BY <1>3, <1>6 DEF At
  <2>3. CASE proc'[c] = Idle
    BY <1>6, <2>3 DEF CallOK, Failing, Settling, Awaiting
  <2>4. CASE /\ proc'[c].at = proc[c].at /\ proc'[c].op = proc[c].op
             /\ proc'[c].seen = proc[c].seen /\ proc'[c].patch = proc[c].patch
             /\ proc'[c].round = proc[c].round
    <3>1. /\ proc'[c].op # "ruling"
          /\ proc'[c].at = "store" /\ proc'[c].seen.status = "failed" =>
               proc'[c].seen.round \in Failures'
      BY <1>1, <2>1, <2>4 DEF CallOK, OfFailed
    <3>2. Failing(proc'[c]) =>
            /\ Within(state', proc'[c])
            /\ proc'[c].at = "store" => Within(proc'[c].seen, proc'[c])
            /\ At(Listener, "store")' => Within(proc'[Listener].seen, proc'[c])
      BY <1>2, <2>1, <2>2, <2>4 DEF CallOK, Failing, Settling, Awaiting, Within
    <3>3. ruled' = "none" =>
            /\ proc'[c].at \in {"chain", "store"} => proc'[c].seen = state'
            /\ proc'[c].at = "chain" /\ proc'[c].op # "submit" => Open(proc'[c].seen)
            /\ proc'[c].at \in {"load", "store"} /\ proc'[c].patch = "awaiting_verification" =>
                 state'.round >= 1
      BY <1>2, <1>5, <2>1, <2>4 DEF CallOK
    <3>. QED
      BY <3>1, <3>2, <3>3 DEF CallOK, OfFailed, Failing, Settling, Awaiting, Within, Open, At
  <2>. QED
    BY <1>3, <2>1, <2>3, <2>4
<1>. QED
  BY <1>7, <1>8, <1>9

(* No observer fails a round by the verdict of another (RoundBroadcast and *)
(* Adopt: the gates of /finalize, /verify and /verdict, settleVerification *)
(* after them, the listener beside them), whatever the sends, receipts,    *)
(* commands, queries and restarts do: a record that reads "failed" is of a *)
(* round that failed on the escrow, or of a refund.                        *)
THEOREM FailedIsFailed ==
  ASSUME OneAtATime
  PROVE  Spec => []FailedMeansFailed
<1>1. Init => FailInv
  <2>. SUFFICES ASSUME Init PROVE FailInv
    OBVIOUS
  <2>1. /\ state.status = "accepted"
        /\ \A p \in Process : proc[p].at = "idle" /\ proc[p].op = "none"
    BY DEF Init, Fresh, Idle
  <2>2. ListenerOK
    BY <2>1 DEF ListenerOK, At, Process
  <2>3. \A c \in Call : CallOK(proc[c])
    BY <2>1 DEF CallOK, Failing, Settling, Awaiting, Process
  <2>. QED
    BY <2>1, <2>2, <2>3 DEF FailInv, OfFailed, Open
<1>2. IInv /\ CauseInv /\ FailInv /\ [Next]_vars => FailInv'
  <2>. SUFFICES ASSUME IInv, CauseInv, FailInv, [Next]_vars PROVE FailInv'
    OBVIOUS
  <2>1. ASSUME NEW c \in Call, Route(c) \/ WaitTimeout(c) \/ Continue(c) PROVE FailInv'
    BY <2>1, RouteFails, ReadChainFails, LoadFails, StoreFails, SettlementFails, AccountingFails
       DEF Continue
  <2>2. CASE Listen \/ Continue(Listener)
    BY <2>2, ListenerFails
  <2>3. CASE Chain \/ Host \/ Rebroadcast \/ UNCHANGED vars
    BY <2>3, AroundFails
  <2>. QED
    BY <2>1, <2>2, <2>3 DEF Next, Process
<1>3. IInv /\ FailInv => FailedMeansFailed
  BY DEF FailInv, OfFailed, Failures, FailedMeansFailed
<1>. QED
  BY <1>1, <1>2, <1>3, Invariance, CausesInvariant, PTL DEF Spec

=============================================================================
