--------------------------- MODULE A2ALockProofs ---------------------------
(* Two accepts settle at the same time only when a lock has run out under  *)
(* one of them, for any number of agents and requests, with any number of  *)
(* locks lapsing and at any moment.  A handler past the lock whose lock    *)
(* has not lapsed holds the key itself; only AcquireLock, Unlock, LapseLock*)
(* and Crash touch the key, and no other step takes a handler past it.     *)
(* On the lock rests the second half: an accepted task keeps its           *)
(* assignment, because the one handler that holds the lock and the gas     *)
(* sweep never both carry a stale record of it.                            *)
EXTENDS A2AAssignmentProofs

Entering == {"lock", "read"}

LockHeld == \A p \in Request : Locked(p) /\ p \notin hLapsed => lock = p
EntersAsAccept(p) == proc[p].at \in Entering => proc[p].op = "accept"

LockInv == LockHeld /\ \A p \in Process : EntersAsAccept(p)

(* One handler moves on, and not past the lock.                            *)
KeepsLock(p) ==
  /\ \A q \in Process \ {p} : proc'[q] = proc[q]
  /\ Locked(p)' => Locked(p)
  /\ EntersAsAccept(p)'
  /\ UNCHANGED <<lock, hLapsed>>

LEMMA KeepsLockInv ==
  ASSUME LockInv, NEW p \in Process, KeepsLock(p)
  PROVE  LockInv'
<1>1. ASSUME NEW q \in Process
      PROVE  (Locked(q)' => Locked(q)) /\ EntersAsAccept(q)'
  <2>1. CASE q = p
    BY <2>1 DEF KeepsLock
  <2>2. CASE q # p
    <3>1. proc'[q] = proc[q]
      BY <2>2 DEF KeepsLock
    <3>. QED
      BY <3>1 DEF LockInv, Locked, EntersAsAccept
  <2>. QED
    BY <2>1, <2>2
<1>2. LockHeld'
  BY <1>1 DEF LockInv, LockHeld, KeepsLock, Process
<1>. QED
  BY <1>1, <1>2 DEF LockInv

\* A handler that goes on with what it was called for keeps its side of the lock.
LEMMA GoingOn ==
  ASSUME TypeOK, NEW p \in Process, NEW local, Goto(p, local),
         local.op \in {"accept", "resume"} /\ local.at # "lock" => Locked(p),
         local.at \in Entering => local.op = "accept",
         UNCHANGED <<lock, hLapsed>>
  PROVE  KeepsLock(p)
<1>1. proc' = [proc EXCEPT ![p] = local] /\ proc \in [Process -> Handler]
  BY DEF Goto, TypeOK
<1>2. proc'[p] = local /\ \A q \in Process \ {p} : proc'[q] = proc[q]
  BY <1>1
<1>. QED
  BY <1>2 DEF KeepsLock, Locked, EntersAsAccept

\* The operation stays, and the handler was not waiting for the lock.
LEMMA SameCall ==
  ASSUME TypeOK, NEW p \in Process, NEW local, Goto(p, local),
         proc[p].at # "lock", local.at \notin Entering,
         local.op = proc[p].op \/ proc[p].op \in {"accept", "resume"},
         UNCHANGED <<lock, hLapsed>>
  PROVE  KeepsLock(p)
BY GoingOn DEF Locked

Moves(p) ==
  \/ \E at \in Step \ Entering : Move(p, at)
  \/ \E res : Answer(p, res)
  \/ \E res : AssignError(p, res)
  \/ \E write : Update(p, proc[p], write)
  \/ Leave(p) \/ Confirmed(p) \/ Done(p)

LEMMA MovesKeepLock ==
  ASSUME TypeOK, NEW p \in Process, proc[p].at # "lock", UNCHANGED <<lock, hLapsed>>,
         Moves(p)
  PROVE  KeepsLock(p)
<1>1. proc[p] \in Handler
  BY DEF TypeOK
<1>2. ASSUME NEW at \in Step \ Entering, Move(p, at) PROVE KeepsLock(p)
  BY <1>1, <1>2, SameCall DEF Move, Handler
<1>3. ASSUME NEW res, Answer(p, res) PROVE KeepsLock(p)
  BY <1>1, <1>3, SameCall DEF Answer, Handler, Entering
<1>4. ASSUME NEW res, AssignError(p, res) PROVE KeepsLock(p)
  BY <1>1, <1>4, SameCall DEF AssignError, Update, Handler, Entering
<1>5. ASSUME NEW write, Update(p, proc[p], write) PROVE KeepsLock(p)
  BY <1>1, <1>5, SameCall DEF Update, Handler, Entering
<1>6. ASSUME Leave(p) PROVE KeepsLock(p)
  BY <1>1, <1>6, SameCall DEF Leave, Idle, Handler, Entering
<1>7. ASSUME Confirmed(p) PROVE KeepsLock(p)
  BY <1>1, <1>7, SameCall DEF Confirmed, Handler, Entering
<1>8. ASSUME Done(p) PROVE KeepsLock(p)
  BY <1>8, GoingOn DEF Done, Idle, Entering
<1>. QED
  BY <1>2, <1>3, <1>4, <1>5, <1>6, <1>7, <1>8 DEF Moves

LEMMA UpdatesKeepLock ==
  ASSUME TypeOK, NEW p \in Process, Load(p) \/ Store(p)
  PROVE  KeepsLock(p)
<1>1. proc[p] \in Handler /\ UNCHANGED <<lock, hLapsed>>
  BY DEF TypeOK, Load, Store, keys
<1>2. CASE Load(p)
  BY <1>1, <1>2, SameCall DEF Load, At, Handler, Entering
<1>3. CASE Store(p)
  <2>1. proc[p].at = "store" /\ AfterStore(p)
    BY <1>3 DEF Store, At
  <2>2. \/ \E at \in {"mark", "wait", "result"} :
             Goto(p, [proc[p] EXCEPT !.at = at, !.seen = Missing, !.write = "none"])
        \/ Leave(p) \/ Done(p)
    BY <2>1 DEF AfterStore
  <2>3. ASSUME NEW at \in {"mark", "wait", "result"},
               Goto(p, [proc[p] EXCEPT !.at = at, !.seen = Missing, !.write = "none"])
        PROVE  KeepsLock(p)
    BY <1>1, <2>1, <2>3, SameCall DEF Handler, Entering
  <2>. QED
    BY <1>1, <2>1, <2>2, <2>3, MovesKeepLock DEF Moves
<1>. QED
  BY <1>2, <1>3

LEMMA AcceptKeepsLock ==
  ASSUME TypeOK, NEW p \in Process, EntersAsAccept(p),
         \/ ReadHolder(p) \/ TryAccept(p) \/ RewrapFailed(p) \/ StartDeadline(p)
         \/ Settle(p) \/ Wait(p) \/ Unconfirmed(p) \/ Confirm(p)
         \/ ClearError(p) \/ Grant(p) \/ Refuse(p)
  PROVE  KeepsLock(p)
<1>1. proc[p] \in Handler
  BY DEF TypeOK
<1>2. CASE ReadHolder(p)
  <2>1. proc[p].at = "read" /\ UNCHANGED <<lock, hLapsed>>
    BY <1>2 DEF ReadHolder, At, keys
  <2>2. proc[p].op = "accept"
    BY <2>1 DEF EntersAsAccept, Entering
  <2>3. CASE Move(p, "cas")
    BY <1>1, <2>1, <2>3, MovesKeepLock DEF Moves, Step, Entering
  <2>4. CASE Goto(p, [proc[p] EXCEPT !.at = "settle", !.op = "resume"])
    BY <1>1, <2>1, <2>2, <2>4, SameCall DEF Handler, Entering
  <2>. QED
    BY <1>2, <2>3, <2>4 DEF ReadHolder
<1>3. CASE Wait(p)
  <2>1. proc[p].at = "wait" /\ UNCHANGED <<lock, hLapsed>>
    BY <1>3 DEF Wait, At, keys
  <2>2. CASE Answer(p, "success")
    BY <2>1, <2>2, MovesKeepLock DEF Moves
  <2>3. ASSUME NEW res, Goto(p, [proc[p] EXCEPT !.at = "unconfirmed", !.res = res])
        PROVE  KeepsLock(p)
    BY <1>1, <2>1, <2>3, SameCall DEF Handler, Entering
  <2>. QED
    BY <1>3, <2>2, <2>3 DEF Wait
<1>4. CASE Confirm(p)
  <2>1. proc[p].at = "confirm" /\ UNCHANGED <<lock, hLapsed>>
    BY <1>4 DEF Confirm, At, keys
  <2>2. CASE Goto(p, [proc[p] EXCEPT !.at = "result", !.res = "elsewhere", !.found = chain.worker])
    BY <1>1, <2>1, <2>2, SameCall DEF Handler, Entering
  <2>3. CASE Moves(p)
    BY <2>1, <2>3, MovesKeepLock
  <2>. QED
    BY <1>4, <2>2, <2>3 DEF Confirm, Moves
<1>5. CASE TryAccept(p) \/ RewrapFailed(p) \/ StartDeadline(p)
  <2>1. proc[p].at \in {"cas", "rewrap"} /\ UNCHANGED <<lock, hLapsed>>
    BY <1>5 DEF TryAccept, RewrapFailed, StartDeadline, At, keys
  <2>2. Moves(p)
    BY <1>5 DEF TryAccept, RewrapFailed, StartDeadline, Moves, Step, Entering
  <2>. QED
    BY <2>1, <2>2, MovesKeepLock
<1>6. CASE Settle(p) \/ Unconfirmed(p) \/ ClearError(p)
  <2>1. proc[p].at \in {"settle", "unconfirmed", "clear"} /\ UNCHANGED <<lock, hLapsed>>
    BY <1>6 DEF Settle, Unconfirmed, ClearError, At, keys
  <2>2. Moves(p)
    BY <1>6 DEF Settle, Unconfirmed, ClearError, Moves, Step, Entering
  <2>. QED
    BY <2>1, <2>2, MovesKeepLock
<1>7. CASE Grant(p) \/ Refuse(p)
  <2>1. proc[p].at = "result" /\ UNCHANGED <<lock, hLapsed>>
    BY <1>7 DEF Grant, Refuse, At, keys
  <2>2. Moves(p)
    BY <1>7 DEF Grant, Refuse, Moves
  <2>. QED
    BY <2>1, <2>2, MovesKeepLock
<1>. QED
  BY <1>2, <1>3, <1>4, <1>5, <1>6, <1>7

LEMMA SendKeepsLock ==
  ASSUME TypeOK, NEW p \in Process, Send(p)
  PROVE  KeepsLock(p)
<1>1. proc[p] \in Handler /\ proc[p].at = "send" /\ UNCHANGED <<lock, hLapsed>>
  BY DEF TypeOK, Send, At, keys
<1>2. CASE Moves(p)
  BY <1>1, <1>2, MovesKeepLock
<1>3. ASSUME NEW t, Update(p, [proc[p] EXCEPT !.tx = t], "broadcast")
      PROVE  KeepsLock(p)
  BY <1>1, <1>3, SameCall DEF Update, Handler, Entering
<1>. QED
  BY <1>2, <1>3 DEF Send, Moves, Step, Entering

LEMMA OthersKeepLock ==
  ASSUME TypeOK, NEW p \in Process,
         \/ IndexWrite(p) \/ CheckChain(p) \/ Release(p) \/ ForceRead(p) \/ ForceWrite(p)
         \/ Index(p)
         \/ \E w \in Worker : AcceptCheck(p, w) \/ Submit(p, w)
         \/ \E op \in {"release", "force", "rewind"} : HandBack(p, op)
  PROVE  KeepsLock(p)
<1>1. proc[p] \in Handler /\ UNCHANGED <<lock, hLapsed>>
  BY DEF TypeOK, IndexWrite, CheckChain, Release, ForceRead, ForceWrite, Index, AcceptCheck,
         Submit, HandBack, keys
<1>2. CASE IndexWrite(p) \/ Release(p) \/ ForceWrite(p)
  BY <1>1, <1>2, MovesKeepLock DEF IndexWrite, Release, ForceWrite, Moves, At
<1>3. CASE CheckChain(p)
  <2>1. proc[p].at = "chain"
    BY <1>3 DEF CheckChain, At
  <2>2. CASE Moves(p)
    BY <1>1, <2>1, <2>2, MovesKeepLock
  <2>3. CASE Goto(p, [proc[p] EXCEPT !.at = "forceRead", !.seen = Missing])
    BY <1>1, <2>1, <2>3, SameCall DEF Handler, Entering
  <2>4. CASE Update(p, [proc[p] EXCEPT !.seen = Missing], "accepted")
    BY <1>1, <2>1, <2>4, SameCall DEF Update, Handler, Entering
  <2>. QED
    BY <1>3, <2>2, <2>3, <2>4 DEF CheckChain, Moves, Step, Entering
<1>4. CASE ForceRead(p)
  <2>1. proc[p].at = "forceRead"
    BY <1>4 DEF ForceRead, At
  <2>2. CASE Done(p)
    BY <1>1, <2>1, <2>2, MovesKeepLock DEF Moves
  <2>3. CASE Goto(p, [proc[p] EXCEPT !.at = "forceWrite", !.seen = state])
    BY <1>1, <2>1, <2>3, SameCall DEF Handler, Entering
  <2>. QED
    BY <1>4, <2>2, <2>3 DEF ForceRead
<1>5. CASE Index(p)
  BY <1>1, <1>5, GoingOn DEF Index, Idle, Entering
<1>6. ASSUME NEW w \in Worker, AcceptCheck(p, w) \/ Submit(p, w)
      PROVE  KeepsLock(p)
  BY <1>1, <1>6, GoingOn DEF AcceptCheck, Submit, Idle, Entering
<1>7. ASSUME NEW op \in {"release", "force", "rewind"}, HandBack(p, op)
      PROVE  KeepsLock(p)
  BY <1>1, <1>7, GoingOn DEF HandBack, Idle, Entering
<1>. QED
  BY <1>2, <1>3, <1>4, <1>5, <1>6, <1>7

LEMMA SweepsKeepLock ==
  ASSUME TypeOK, ExpirySweepStep \/ GasSweepStep
  PROVE  \E p \in Process : KeepsLock(p)
<1>1. CASE ExpirySweepStep
  <2>. DEFINE p == ExpirySweep
  <2>1. p \in Process /\ proc[p] \in Handler /\ UNCHANGED <<lock, hLapsed>>
    BY <1>1 DEF Process, TypeOK, ExpirySweepStep, ResyncRead, ResyncCompare, ResyncWrite,
                ListOpen, Expire, keys
  <2>2. CASE ResyncRead(p) \/ ResyncCompare(p) \/ ResyncWrite(p)
    <3>1. proc[p].at # "lock"
      BY <2>2 DEF ResyncRead, ResyncCompare, ResyncWrite, At
    <3>2. CASE Move(p, "resyncWrite")
      BY <2>1, <3>1, <3>2, MovesKeepLock DEF Moves, Step, Entering
    <3>3. CASE ResyncRead(p)
      BY <2>1, <3>3, GoingOn DEF ResyncRead, Idle, Entering
    <3>4. CASE Goto(p, [Idle EXCEPT !.at = "list"])
      BY <2>1, <3>4, GoingOn DEF Idle, Entering
    <3>. QED
      BY <2>2, <3>2, <3>3, <3>4 DEF ResyncCompare, ResyncWrite
  <2>3. CASE ListOpen(p) \/ Expire(p)
    <3>1. proc[p].at # "lock" /\ Moves(p)
      BY <2>3 DEF ListOpen, Expire, At, Moves, Step, Entering
    <3>. QED
      BY <2>1, <3>1, MovesKeepLock
  <2>. QED
    BY <1>1, <2>1, <2>2, <2>3 DEF ExpirySweepStep
<1>2. CASE GasSweepStep
  <2>. DEFINE p == GasSweep
  <2>1. p \in Process /\ proc[p] \in Handler
    BY DEF Process, TypeOK
  <2>2. CASE Load(p) \/ Store(p)
    BY <2>1, <2>2, UpdatesKeepLock
  <2>3. CASE GasList(p) \/ GasRead(p) \/ GasChain(p)
    <3>1. proc[p].at # "lock" /\ UNCHANGED <<lock, hLapsed>>
      BY <2>3 DEF GasList, GasRead, GasChain, At, keys
    <3>2. CASE GasList(p)
      BY <2>1, <3>1, <3>2, GoingOn DEF GasList, Idle, Entering
    <3>3. CASE Moves(p)
      BY <2>1, <3>1, <3>3, MovesKeepLock
    <3>4. CASE Goto(p, [proc[p] EXCEPT !.at = "chain", !.seen = state])
      BY <2>1, <3>1, <3>4, SameCall DEF Handler, Entering
    <3>5. CASE Update(p, [proc[p] EXCEPT !.tx = proc[p].seen.tx], "noError")
      BY <2>1, <3>1, <3>5, SameCall DEF Update, Handler, Entering
    <3>6. CASE Goto(p, [proc[p] EXCEPT !.at = "mark", !.tx = proc[p].seen.tx])
      BY <2>1, <3>1, <3>6, SameCall DEF Handler, Entering
    <3>. QED
      BY <2>3, <3>2, <3>3, <3>4, <3>5, <3>6 DEF GasRead, GasChain, Moves, Step, Entering
  <2>4. CASE Receipt(p) \/ GasReopen(p) \/ MarkReconciled(p)
    <3>1. proc[p].at # "lock" /\ UNCHANGED <<lock, hLapsed>> /\ Moves(p)
      BY <2>4 DEF Receipt, GasReopen, MarkReconciled, At, keys, Moves, Step, Entering
    <3>. QED
      BY <2>1, <3>1, MovesKeepLock
  <2>. QED
    BY <1>2, <2>1, <2>2, <2>3, <2>4 DEF GasSweepStep
<1>. QED
  BY <1>1, <1>2

\* The steps that touch the key itself.
LEMMA LockChanges ==
  ASSUME TypeOK, LockInv,
         \/ \E p \in Request : AcquireLock(p) \/ Unlock(p)
         \/ LapseLock \/ Crash
  PROVE  LockInv'
<1>1. ASSUME NEW p \in Request, AcquireLock(p)
      PROVE  LockInv'
  <2>1. p \in Process /\ proc[p] \in Handler /\ proc[p].at = "lock" /\ proc[p].op = "accept"
    BY <1>1 DEF Process, TypeOK, AcquireLock, At, LockInv, EntersAsAccept, Entering
  <2>2. CASE lock = NoRequest
    <3>1. lock' = p /\ hLapsed' = hLapsed /\ proc' = [proc EXCEPT ![p].at = "read"]
      BY <1>1, <2>2, <2>1 DEF AcquireLock, Move, Goto
    <3>2. \A q \in Process : proc'[q] = IF q = p THEN [proc[p] EXCEPT !.at = "read"] ELSE proc[q]
      BY <3>1, <2>1 DEF TypeOK
    <3>3. \A q \in Request \ {p} : Locked(q)' = Locked(q)
      BY <3>2 DEF Locked, Process
    <3>4. LockHeld'
      BY <2>2, <3>1, <3>3, Parameters DEF LockInv, LockHeld
    <3>5. \A q \in Process : EntersAsAccept(q)'
      BY <2>1, <3>2 DEF LockInv, EntersAsAccept, Handler
    <3>. QED
      BY <3>4, <3>5 DEF LockInv
  <2>3. CASE lock # NoRequest
    <3>1. Done(p) /\ UNCHANGED <<lock, hLapsed>>
      BY <1>1, <2>3 DEF AcquireLock
    <3>. QED
      BY <2>1, <3>1, GoingOn, KeepsLockInv DEF Done, Idle, Entering
  <2>. QED
    BY <2>2, <2>3
<1>2. ASSUME NEW p \in Request, Unlock(p)
      PROVE  LockInv'
  <2>1. \A q \in Process : proc'[q] = IF q = p THEN Idle ELSE proc[q]
    BY <1>2 DEF Unlock, Done, Goto, TypeOK
  <2>2. hLapsed' = hLapsed \ {p} /\ (lock # p => lock' = lock)
    BY <1>2 DEF Unlock
  <2>3. ~Locked(p)' /\ \A q \in Request \ {p} : Locked(q)' = Locked(q)
    BY <2>1 DEF Locked, Idle, Process
  <2>4. LockHeld'
    BY <2>2, <2>3 DEF LockInv, LockHeld
  <2>5. \A q \in Process : EntersAsAccept(q)'
    BY <2>1 DEF LockInv, EntersAsAccept, Idle, Entering
  <2>. QED
    BY <2>4, <2>5 DEF LockInv
<1>3. CASE LapseLock
  <2>1. proc' = proc /\ hLapsed' = IF Locked(lock) THEN hLapsed \cup {lock} ELSE hLapsed
    BY <1>3 DEF LapseLock
  <2>2. \A q \in Request : Locked(q)' = Locked(q)
    BY <2>1 DEF Locked
  <2>3. LockHeld'
    BY <2>1, <2>2 DEF LockInv, LockHeld
  <2>4. \A q \in Process : EntersAsAccept(q)'
    BY <2>1 DEF LockInv, EntersAsAccept
  <2>. QED
    BY <2>3, <2>4 DEF LockInv
<1>4. CASE Crash
  <2>1. proc' = [q \in Process |-> Idle]
    BY <1>4 DEF Crash
  <2>. QED
    BY <2>1 DEF LockInv, LockHeld, Locked, EntersAsAccept, Idle, Entering, Process
<1>. QED
  BY <1>1, <1>2, <1>3, <1>4

\* The escrow, the clocks and the store's own steps touch no handler and no lock.
LEMMA BackgroundKeepsLock ==
  ASSUME RefuseExpired \/ CloseRefunded \/ Escrow \/ ServerClock \/ LapseKey \/ Age \/ Restart
  PROVE  UNCHANGED <<proc, lock, hLapsed>>
<1>1. CASE RefuseExpired \/ CloseRefunded
  BY <1>1 DEF RefuseExpired, CloseRefunded, keys
<1>2. CASE Escrow
  BY <1>2 DEF Escrow, Mine, Drop, DirectAssign, Cancel, SubmitEvidence, SetChain, BlockLate, keys
<1>3. CASE ServerClock \/ LapseKey \/ Age \/ Restart
  BY <1>3 DEF ServerClock, LapseKey, Age, Restart, keys
<1>. QED
  BY <1>1, <1>2, <1>3

LEMMA NextLockInv == TypeOK /\ LockInv /\ [Next]_vars => LockInv'
<1>. SUFFICES ASSUME TypeOK, LockInv, [Next]_vars
              PROVE  LockInv'
  OBVIOUS
<1>1. ASSUME NEW p \in Request, Calls(p)
      PROVE  LockInv'
  <2>1. KeepsLock(p)
    BY <1>1, OthersKeepLock DEF Calls, Process
  <2>. QED
    BY <2>1, KeepsLockInv DEF Process
<1>2. ASSUME NEW p \in Request, Steps(p)
      PROVE  LockInv'
  <2>1. p \in Process /\ EntersAsAccept(p)
    BY DEF Process, LockInv
  <2>2. CASE AcquireLock(p) \/ Unlock(p)
    BY <2>2, LockChanges
  <2>3. CASE Load(p) \/ Store(p)
    BY <2>1, <2>3, UpdatesKeepLock, KeepsLockInv
  <2>4. CASE IndexWrite(p) \/ CheckChain(p) \/ Release(p) \/ ForceRead(p) \/ ForceWrite(p)
    BY <2>1, <2>4, OthersKeepLock, KeepsLockInv
  <2>5. CASE Send(p)
    BY <2>1, <2>5, SendKeepsLock, KeepsLockInv
  <2>6. CASE \/ ReadHolder(p) \/ TryAccept(p) \/ RewrapFailed(p) \/ StartDeadline(p)
             \/ Settle(p) \/ Wait(p) \/ Unconfirmed(p) \/ Confirm(p)
             \/ ClearError(p) \/ Grant(p) \/ Refuse(p)
    BY <2>1, <2>6, AcceptKeepsLock, KeepsLockInv
  <2>. QED
    BY <1>2, <2>2, <2>3, <2>4, <2>5, <2>6 DEF Steps
<1>3. CASE ExpirySweepStep \/ GasSweepStep
  BY <1>3, SweepsKeepLock, KeepsLockInv
<1>4. CASE LapseLock \/ Crash
  BY <1>4, LockChanges
<1>5. CASE RefuseExpired \/ CloseRefunded \/ Escrow \/ ServerClock \/ LapseKey \/ Age \/ Restart
           \/ UNCHANGED vars
  <2>1. UNCHANGED <<proc, lock, hLapsed>>
    BY <1>5, BackgroundKeepsLock DEF vars, keys
  <2>. QED
    BY <2>1 DEF LockInv, LockHeld, Locked, EntersAsAccept
<1>. QED
  BY <1>1, <1>2, <1>3, <1>4, <1>5 DEF Next

LEMMA InitLockInv == Init => LockInv
BY DEF Init, LockInv, LockHeld, Locked, EntersAsAccept, Idle, Entering, Process

(* However many locks run out under their handlers, two accepts whose      *)
(* locks have not are never past the lock together: nobody takes a lock    *)
(* that is held, and nobody deletes one that has passed to another request *)
(* (acquireAcceptLock, releaseAcceptLock, keepAcceptLock).                 *)
THEOREM AcceptsAloneHolds == Spec => []AcceptsAlone
<1>1. Spec => []LockInv
  BY InitLockInv, NextLockInv, A2ATypeCorrect, PTL DEF Spec
<1>2. LockInv => AcceptsAlone
  BY DEF LockInv, LockHeld, AcceptsAlone
<1>. QED
  BY <1>1, <1>2, PTL

-----------------------------------------------------------------------------
(* A task whose assignment is on its way *)

(* Nobody hands the task back, lists it twice, or outlives his lock: each  *)
(* of these lets two writers of the record lose each other's update.       *)
Undisturbed == Happens \cap {"reindex", "release", "force", "rewind", "lapse"} = {}

Accepting(local) == local.op \in {"accept", "resume"}
Holds(local) == Accepting(local) /\ local.at \notin {"lock", "read", "cas", "unlock"}
Sweeping == proc[GasSweep].at \notin {"idle", "mark"}
Offered(record) == record.status \in {"open", "accepted"}

(* A handler has no transaction before it sends one, and fails with one    *)
(* only if it was reverted.                                                *)
RequestOK(local) ==
  /\ \/ local.at = "idle" /\ ~Accepting(local)
     \/ local.at = "index" /\ ~Accepting(local) /\ local.seen.status = "missing"
     \/ /\ local.op = "submit"
        /\ local.at = "chain" \/ (Updating(local) /\ local.write = "submitted")
     \/ Accepting(local) /\ local.at \in Settling \cup {"load", "store", "unlock"}
  /\ Accepting(local) /\ local.at \in {"lock", "read", "cas", "rewrap", "settle", "send", "confirm"}
       => local.tx = 0 /\ local.res = "none"
  /\ local.res \in {"error", "reverted"} => local.tx = 0 \/ txs[local.tx].st = "reverted"
  /\ local.at = "send" => mapped
  /\ Updating(local) => local.write # "accepted"

(* The sweep reopens for a transaction that is lost, and repairs the       *)
(* record once nothing can be sent any more.                               *)
GasOK(local) ==
  /\ local.at \in {"idle", "gasRead", "chain", "receipt", "reopen", "mark", "load", "store"}
  /\ Updating(local) => local.write = "noError" /\ ~(mapped /\ Funded)
  /\ local.at = "reopen" => local.seen.tx = 0 \/ txs[local.seen.tx].st \in {"reverted", "dropped"}

ExpiryOK(local) == local.at \in {"idle", "resync", "resyncWrite", "list", "expire"}

CourseOK ==
  /\ \A p \in Request : RequestOK(proc[p])
  /\ GasOK(proc[GasSweep]) /\ ExpiryOK(proc[ExpirySweep])

(* The task is listed once, before anybody has to do with it.              *)
RecordOK ==
  /\ state.status = "missing" => \A p \in Process : At(p, "idle") \/ At(p, "index")
  /\ \A p \in Process : At(p, "index") => state.status = "missing"
  /\ \A p, q \in Process : At(p, "index") /\ At(q, "index") => p = q
  /\ \A p \in Process : At(p, "store") => proc[p].seen.status # "missing"

(* While a handler works on a task that was reopened under it, the sweep   *)
(* rests; so what either stores over an open task is not yet assigned.     *)
RaceOK ==
  /\ \A p \in Request : Holds(proc[p]) =>
       /\ state.status = "open" => ~Sweeping
       /\ At(p, "store") /\ proc[p].seen.status = "open" => ~Sweeping /\ state.status # "accepted"
  /\ Sweeping /\ state.status = "open" => state.tx = 0
  /\ At(GasSweep, "store") /\ proc[GasSweep].seen.status = "open" =>
       /\ Offered(state) => state.tx = 0
       /\ \A p \in Request : Holds(proc[p]) /\ Updating(proc[p]) =>
            /\ proc[p].write # "broadcast"
            /\ At(p, "store") /\ Offered(proc[p].seen) => proc[p].seen.tx = 0

KeepInv == hLapsed = {} /\ CourseOK /\ RecordOK /\ RaceOK

\* What no step undoes.
Onwards ==
  /\ mapped' = mapped /\ (Funded' => Funded)
  /\ \A t \in Tx : txs[t].st \in {"reverted", "dropped"} => txs'[t].st = txs[t].st

LEMMA NextOnwards == IInv /\ [Next]_vars => Onwards
<1>. SUFFICES ASSUME IInv, [Next]_vars PROVE Onwards
  OBVIOUS
<1>1. CASE UNCHANGED <<chain, txs, mapped>>
  BY <1>1 DEF Onwards, Funded
<1>2. ASSUME NEW p \in Request, Send(p)
      PROVE  Onwards
  <2>1. mapped' = mapped /\ chain' = chain
    BY <1>2 DEF Send
  <2>2. txs' = txs \/ \E t \in Tx : txs[t].st = "unused" /\ \E w : txs' = [txs EXCEPT ![t] = w]
    BY <1>2 DEF Send
  <2>. QED
    BY <2>1, <2>2 DEF Onwards, Funded, IInv, TypeOK
<1>3. ASSUME NEW t \in Tx, Mine(t) \/ Drop(t)
      PROVE  Onwards
  <2>1. mapped' = mapped /\ (Funded' => Funded)
    BY <1>3 DEF Mine, Drop, Funded
  <2>2. txs[t].st = "pool" /\ \E st : txs' = [txs EXCEPT ![t].st = st]
    BY <1>3 DEF Mine, Drop
  <2>. QED
    BY <2>1, <2>2 DEF Onwards, IInv, TypeOK
<1>4. CASE Cancel \/ SubmitEvidence \/ BlockLate \/ \E w \in Worker : DirectAssign(w)
  BY <1>4 DEF Cancel, SubmitEvidence, BlockLate, DirectAssign, SetChain, Onwards, Funded
<1>5. ASSUME NEW p \in Process,
             \/ Index(p) \/ \E w \in Worker : AcceptCheck(p, w) \/ Submit(p, w)
             \/ \E op \in {"release", "force", "rewind"} : HandBack(p, op)
             \/ Load(p) \/ Store(p) \/ IndexWrite(p)
             \/ AcquireLock(p) \/ ReadHolder(p) \/ TryAccept(p) \/ RewrapFailed(p) \/ StartDeadline(p)
             \/ Settle(p) \/ Wait(p) \/ Unconfirmed(p) \/ Confirm(p) \/ ClearError(p)
             \/ Grant(p) \/ Refuse(p) \/ Unlock(p)
             \/ CheckChain(p) \/ Release(p) \/ ForceRead(p) \/ ForceWrite(p)
      PROVE  UNCHANGED escrow
  BY <1>5 DEF Index, AcceptCheck, Submit, HandBack, Load, Store, IndexWrite, AcquireLock, ReadHolder,
              TryAccept, RewrapFailed, StartDeadline, Settle, Wait, Unconfirmed, Confirm, ClearError,
              Grant, Refuse, Unlock, CheckChain, Release, ForceRead, ForceWrite
<1>6. CASE \/ ExpirySweepStep \/ GasSweepStep \/ RefuseExpired \/ CloseRefunded \/ ServerClock
           \/ LapseKey \/ Age \/ LapseLock \/ Crash \/ Restart \/ UNCHANGED vars
  BY <1>1, <1>6
     DEF ExpirySweepStep, ResyncRead, ResyncCompare, ResyncWrite, ListOpen, Expire, GasSweepStep, GasList,
         GasRead, GasChain, Receipt, GasReopen, MarkReconciled, Load, Store, RefuseExpired,
         CloseRefunded, ServerClock, LapseKey, Age, LapseLock, Crash, Restart, vars, escrow
<1>7. ASSUME NEW p \in Request, Calls(p) \/ Steps(p)
      PROVE  Onwards
  BY <1>1, <1>2, <1>5, <1>7 DEF Calls, Steps, escrow, Process
<1>. QED
  BY <1>3, <1>4, <1>6, <1>7 DEF Next, Escrow

LEMMA OnwardsKeeps ==
  ASSUME Onwards, NEW local \in Handler
  PROVE  (RequestOK(local) => RequestOK(local)') /\ (GasOK(local) => GasOK(local)')
<1>1. local.tx = 0 \/ local.tx \in Tx
  BY Parameters DEF Handler, Tx
<1>2. local.seen.tx = 0 \/ local.seen.tx \in Tx
  BY Parameters DEF Handler, TaskState, Tx
<1>. QED
  BY <1>1, <1>2 DEF Onwards, RequestOK, GasOK, Accepting, Updating

\* The lock keeps the other accepts out.
LEMMA HoldsAlone ==
  ASSUME LockInv, KeepInv, NEW p \in Request, NEW q \in Request,
         Accepting(proc[p]) /\ ~At(p, "lock"), Accepting(proc[q]) /\ ~At(q, "lock")
  PROVE  p = q
BY DEF LockInv, LockHeld, KeepInv, Locked, Accepting, At

LEMMA Processes ==
  /\ \A p \in Request : p \in Process /\ p # GasSweep /\ p # ExpirySweep
  /\ GasSweep \in Process /\ ExpirySweep \in Process /\ GasSweep # ExpirySweep
  /\ \A p \in Process : p \in Request \/ p = GasSweep \/ p = ExpirySweep
BY Parameters DEF Process

(* What one process goes on to is in order by itself.                      *)
InOrder(p, next) ==
  /\ p \in Request => RequestOK(next)
  /\ p = GasSweep => GasOK(next)
  /\ p = ExpirySweep => ExpiryOK(next)

LEMMA OthersStay ==
  ASSUME IInv, NEW p \in Process, NEW next, Goto(p, next)
  PROVE  \A q \in Process : proc'[q] = IF q = p THEN next ELSE proc[q]
BY DEF IInv, TypeOK, Goto

LEMMA CourseOKKept ==
  ASSUME IInv, CourseOK, Onwards, NEW p \in Process, NEW next \in Handler, Goto(p, next),
         InOrder(p, next)
  PROVE  CourseOK'
<1>1. \A q \in Process : proc'[q] = IF q = p THEN next ELSE proc[q]
  BY OthersStay
<1>2. \A q \in Process : proc[q] \in Handler
  BY DEF IInv, TypeOK
<1>3. ASSUME NEW q \in Request PROVE RequestOK(proc[q])'
  <2>1. RequestOK(proc'[q]) /\ proc'[q] \in Handler
    BY <1>1, <1>2, Processes DEF InOrder, CourseOK
  <2>. QED
    BY <2>1, OnwardsKeeps DEF RequestOK, Accepting, Updating
<1>4. GasOK(proc[GasSweep])'
  <2>1. GasOK(proc'[GasSweep]) /\ proc'[GasSweep] \in Handler
    BY <1>1, <1>2, Processes DEF InOrder, CourseOK
  <2>. QED
    BY <2>1, OnwardsKeeps DEF GasOK, Updating, Funded
<1>5. ExpiryOK(proc[ExpirySweep])'
  BY <1>1, Processes DEF InOrder, CourseOK, ExpiryOK
<1>. QED
  BY <1>3, <1>4, <1>5 DEF CourseOK

(* One process goes on from what it reads, and leaves the record alone.    *)
Course(p, next) ==
  /\ p \in Request =>
       /\ RequestOK(next)
       /\ Holds(next) => Holds(proc[p]) \/ state.status # "open"
       /\ Holds(next) /\ Updating(next) /\ next.write = "broadcast" =>
            (Updating(proc[p]) /\ proc[p].write = "broadcast" /\ Holds(proc[p])) \/ (mapped /\ Funded)
  /\ p = GasSweep =>
       GasOK(next) /\ (next.at \notin {"idle", "mark"} => Sweeping \/ state.status = "accepted")
  /\ p = ExpirySweep => ExpiryOK(next)
  /\ next.at = "index" => state.status = "missing" /\ \A q \in Process \ {p} : ~At(q, "index")
  /\ state.status = "missing" => next.at \in {"idle", "index"}
  /\ next.at = "store" => next.seen = state

LEMMA CourseKept ==
  ASSUME IInv, KeepInv, Onwards, NEW p \in Process, NEW next \in Handler, Goto(p, next),
         Course(p, next), UNCHANGED state, hLapsed' = {}
  PROVE  KeepInv'
<1>1. \A q \in Process : proc'[q] = IF q = p THEN next ELSE proc[q]
  BY OthersStay
<1>3. CourseOK'
  BY CourseOKKept DEF Course, InOrder, KeepInv
<1>4. RecordOK'
  BY <1>1 DEF Course, KeepInv, RecordOK, At
<1>5. RaceOK'
  <2>1. ASSUME NEW q \in Request, Holds(proc'[q])
        PROVE  /\ state.status = "open" => ~Sweeping'
               /\ At(q, "store")' /\ proc'[q].seen.status = "open" =>
                    ~Sweeping' /\ state.status # "accepted"
    BY <1>1, <2>1, Processes DEF Course, KeepInv, RaceOK, Sweeping, At
  <2>2. Sweeping' /\ state.status = "open" => state.tx = 0
    BY <1>1, Processes DEF Course, KeepInv, RaceOK, Sweeping
  <2>3. ASSUME At(GasSweep, "store")', proc'[GasSweep].seen.status = "open"
        PROVE  /\ Offered(state) => state.tx = 0
               /\ \A q \in Request : Holds(proc'[q]) /\ Updating(proc'[q]) =>
                    /\ proc'[q].write # "broadcast"
                    /\ At(q, "store")' /\ Offered(proc'[q].seen) => proc'[q].seen.tx = 0
    <3>1. CASE p = GasSweep
      <4>1. next.seen = state /\ state.status = "open" /\ Sweeping'
        BY <1>1, <2>3, <3>1, Processes DEF Course, At, Sweeping
      <4>2. \A q \in Request : ~Holds(proc'[q])
        BY <2>1, <4>1
      <4>. QED
        BY <2>2, <4>1, <4>2
    <3>2. CASE p # GasSweep
      <4>1. /\ proc'[GasSweep] = proc[GasSweep]
            /\ At(GasSweep, "store") /\ proc[GasSweep].seen.status = "open"
        BY <1>1, <2>3, <3>2, Processes DEF At
      <4>2. ~(mapped /\ Funded)
        BY <4>1 DEF At, KeepInv, CourseOK, GasOK, Updating
      <4>. QED
        BY <1>1, <4>1, <4>2, Processes DEF Course, KeepInv, RaceOK, At
    <3>. QED
      BY <3>1, <3>2
  <2>. QED
    BY <2>1, <2>2, <2>3 DEF RaceOK, Holds, Accepting, Updating, At, Sweeping, Offered
<1>. QED
  BY <1>3, <1>4, <1>5 DEF KeepInv

LEMMA StepKept ==
  ASSUME IInv, IInv', KeepInv, Onwards, NEW p \in Process, NEW next, Goto(p, next),
         Course(p, next), UNCHANGED state, hLapsed' = {}
  PROVE  KeepInv'
<1>1. next \in Handler
  <2>1. proc'[p] = next /\ proc'[p] \in Handler
    BY DEF IInv, TypeOK, Goto
  <2>. QED
    BY <2>1
<1>. QED
  BY <1>1, CourseKept

\* An accept that is under way, and what it may go on to.
LEMMA GoesOn ==
  ASSUME KeepInv, NEW p \in Request, NEW next, ~At(p, "idle"), ~At(p, "index"),
         RequestOK(next), next.at \notin {"index", "store"},
         Holds(next) => Holds(proc[p]) \/ state.status = "accepted",
         next.at = "load" /\ next.write = "broadcast" => mapped /\ Funded
  PROVE  Course(p, next)
<1>1. state.status # "missing"
  BY Processes DEF KeepInv, RecordOK
<1>2. p # GasSweep /\ p # ExpirySweep
  BY Processes
<1>. QED
  BY <1>1, <1>2 DEF Course, Updating

\* With no transaction, or with one that is known to be reverted, it may fail.
LEMMA FailsOK ==
  ASSUME NEW local \in Handler, RequestOK(local), Accepting(local),
         NEW res, res \in {"error", "reverted"} => local.tx = 0 \/ txs[local.tx].st = "reverted"
  PROVE  /\ \A at \in {"unconfirmed", "clear", "result"} :
              RequestOK([local EXCEPT !.at = at, !.res = res])
         /\ RequestOK([local EXCEPT !.res = res, !.at = "load", !.write = "assignError"])
BY DEF RequestOK, Accepting, Settling, Updating, Handler

LEMMA EndsOK ==
  /\ RequestOK(Idle) /\ GasOK(Idle) /\ ExpiryOK(Idle)
  /\ \A op \in {"accept", "resume"} : RequestOK([Idle EXCEPT !.at = "unlock", !.op = op])
BY DEF RequestOK, GasOK, ExpiryOK, Idle, Accepting, Updating, Settling

LEMMA AcceptCourse ==
  ASSUME IInv, KeepInv, NEW p \in Request,
         \/ AcquireLock(p) \/ ReadHolder(p) \/ StartDeadline(p)
         \/ Settle(p) \/ Send(p) \/ Wait(p) \/ Unconfirmed(p) \/ Confirm(p) \/ ClearError(p)
         \/ Grant(p) \/ Unlock(p)
  PROVE  \E next : Goto(p, next) /\ Course(p, next)
<1>. DEFINE local == proc[p]
<1>1. local \in Handler /\ RequestOK(local)
  BY Processes DEF IInv, TypeOK, KeepInv, CourseOK
<1>2. local.at \in Settling \cup {"unlock"}
  BY DEF AcquireLock, ReadHolder, StartDeadline, Settle, Send, Wait, Unconfirmed, Confirm, ClearError,
         Grant, Unlock, At, Settling
<1>3. Accepting(local) /\ ~At(p, "idle") /\ ~At(p, "index")
  BY <1>1, <1>2 DEF RequestOK, Settling, Updating, At
<1>4. ASSUME Done(p) \/ Leave(p)
      PROVE  \E next : Goto(p, next) /\ Course(p, next)
  <2>1. RequestOK(Idle) /\ RequestOK([Idle EXCEPT !.at = "unlock", !.op = local.op])
    BY <1>3, EndsOK DEF Accepting
  <2>2. Idle.at = "idle" /\ ~Holds(Idle)
    BY DEF Idle, Holds, Accepting
  <2>3. /\ [Idle EXCEPT !.at = "unlock", !.op = local.op].at = "unlock"
        /\ ~Holds([Idle EXCEPT !.at = "unlock", !.op = local.op])
    BY DEF Idle, Holds
  <2>. QED
    BY <1>3, <1>4, <2>1, <2>2, <2>3, GoesOn DEF Done, Leave
<1>5. ASSUME NEW at \in {"unconfirmed", "clear", "result"}, NEW res, Holds(local),
             res \in {"error", "reverted"} => local.tx = 0 \/ txs[local.tx].st = "reverted",
             Goto(p, [local EXCEPT !.at = at, !.res = res])
      PROVE  \E next : Goto(p, next) /\ Course(p, next)
  <2>. DEFINE next == [local EXCEPT !.at = at, !.res = res]
  <2>1. RequestOK(next)
    BY <1>1, <1>3, <1>5, FailsOK
  <2>2. next.at = at
    BY <1>1 DEF Handler
  <2>. HIDE DEF next, local
  <2>3. Course(p, next)
    BY <1>3, <1>5, <2>1, <2>2, GoesOn DEF local
  <2>. QED
    BY <1>5, <2>3 DEF next
<1>6. ASSUME NEW res, Holds(local), AssignError(p, res),
             res \in {"error", "reverted"} => local.tx = 0 \/ txs[local.tx].st = "reverted"
      PROVE  \E next : Goto(p, next) /\ Course(p, next)
  <2>. DEFINE next == [local EXCEPT !.res = res, !.at = "load", !.write = "assignError"]
  <2>1. RequestOK(next)
    BY <1>1, <1>3, <1>6, FailsOK
  <2>2. next.at = "load" /\ next.write = "assignError"
    BY <1>1 DEF Handler
  <2>3. Goto(p, next)
    BY <1>6 DEF AssignError, Update
  <2>. HIDE DEF next, local
  <2>4. Course(p, next)
    BY <1>3, <1>6, <2>1, <2>2, GoesOn DEF local
  <2>. QED
    BY <2>3, <2>4
<1>7. ASSUME NEW at \in Settling, Move(p, at), RequestOK([local EXCEPT !.at = at]),
             at \in {"read", "cas"} \/ Holds(local)
      PROVE  \E next : Goto(p, next) /\ Course(p, next)
  <2>. DEFINE next == [local EXCEPT !.at = at]
  <2>1. next.at = at /\ at \notin {"index", "store", "load"}
    BY <1>1 DEF Handler, Settling
  <2>. HIDE DEF next, local
  <2>2. Course(p, next)
    BY <1>3, <1>7, <2>1, GoesOn DEF local, next, Holds
  <2>. QED
    BY <1>7, <2>2 DEF Move, next, local
<1>8. CASE AcquireLock(p)
  <2>1. local.at = "lock" /\ (Move(p, "read") \/ Done(p))
    BY <1>8 DEF AcquireLock, At
  <2>2. RequestOK([local EXCEPT !.at = "read"])
    BY <1>1, <1>3, <2>1 DEF RequestOK, Accepting, Settling, Updating, Handler
  <2>. QED
    BY <1>4, <1>7, <2>1, <2>2 DEF Settling
<1>9. CASE ReadHolder(p)
  <2>1. /\ local.at = "read"
        /\ \/ Move(p, "cas")
           \/ state.status = "accepted" /\ Goto(p, [local EXCEPT !.at = "settle", !.op = "resume"])
    BY <1>9 DEF ReadHolder, At
  <2>2. RequestOK([local EXCEPT !.at = "cas"])
    BY <1>1, <1>3, <2>1 DEF RequestOK, Accepting, Settling, Updating, Handler
  <2>3. ASSUME state.status = "accepted", Goto(p, [local EXCEPT !.at = "settle", !.op = "resume"])
        PROVE  \E next : Goto(p, next) /\ Course(p, next)
    <3>. DEFINE next == [local EXCEPT !.at = "settle", !.op = "resume"]
    <3>1. RequestOK(next) /\ next.at = "settle"
      BY <1>1, <1>3, <2>1 DEF RequestOK, Accepting, Settling, Updating, Handler
    <3>. HIDE DEF next, local
    <3>2. Course(p, next)
      BY <1>3, <2>3, <3>1, GoesOn
    <3>. QED
      BY <2>3, <3>2 DEF next
  <2>. QED
    BY <1>7, <2>1, <2>2, <2>3 DEF Settling
<1>10. CASE StartDeadline(p)
  <2>1. local.at = "rewrap" /\ Move(p, "settle")
    BY <1>10 DEF StartDeadline, At
  <2>2. RequestOK([local EXCEPT !.at = "settle"])
    BY <1>1, <1>3, <2>1 DEF RequestOK, Accepting, Settling, Updating, Handler
  <2>3. Holds(local) /\ "settle" \in Settling
    BY <1>3, <2>1 DEF Holds, Settling
  <2>. QED
    BY <1>7, <2>1, <2>2, <2>3
<1>11. CASE Settle(p)
  <2>1. local.at = "settle" /\ Holds(local) /\ local.tx = 0 /\ local.res = "none"
    BY <1>1, <1>3, <1>11 DEF Settle, At, Holds, RequestOK
  <2>2. \/ \E res : Answer(p, res) \/ AssignError(p, res)
        \/ Move(p, "confirm") \/ (mapped /\ Move(p, "send"))
    BY <1>11 DEF Settle
  <2>3. /\ RequestOK([local EXCEPT !.at = "confirm"])
        /\ mapped => RequestOK([local EXCEPT !.at = "send"])
    BY <1>1, <1>3, <2>1 DEF RequestOK, Accepting, Settling, Updating, Handler
  <2>. QED
    BY <1>5, <1>6, <1>7, <2>1, <2>2, <2>3 DEF Answer, Settling
<1>12. CASE Send(p)
  <2>1. local.at = "send" /\ Holds(local) /\ local.tx = 0 /\ local.res = "none" /\ mapped
    BY <1>1, <1>3, <1>12 DEF Send, At, Holds, RequestOK
  <2>2. \/ \E res : Answer(p, res) \/ AssignError(p, res)
        \/ Move(p, "confirm")
        \/ Funded /\ \E t \in Tx : Update(p, [local EXCEPT !.tx = t], "broadcast")
    BY <1>12 DEF Send, Funded
  <2>3. RequestOK([local EXCEPT !.at = "confirm"])
    BY <1>1, <1>3, <2>1 DEF RequestOK, Accepting, Settling, Updating, Handler
  <2>4. ASSUME NEW t \in Tx, Funded, Update(p, [local EXCEPT !.tx = t], "broadcast")
        PROVE  \E next : Goto(p, next) /\ Course(p, next)
    <3>. DEFINE next == [local EXCEPT !.tx = t, !.at = "load", !.write = "broadcast"]
    <3>1. RequestOK(next) /\ next.at = "load"
      BY <1>1, <1>3, <2>1 DEF RequestOK, Accepting, Settling, Updating, Handler
    <3>2. Goto(p, next)
      BY <2>4 DEF Update
    <3>. HIDE DEF next, local
    <3>3. Course(p, next)
      BY <1>3, <2>1, <2>4, <3>1, GoesOn DEF local
    <3>. QED
      BY <3>2, <3>3
  <2>. QED
    BY <1>5, <1>6, <1>7, <2>1, <2>2, <2>3, <2>4 DEF Answer, Settling
<1>13. CASE Wait(p)
  <2>1. local.at = "wait" /\ Holds(local)
    BY <1>3, <1>13 DEF Wait, At, Holds
  <2>2. \E res : \E at \in {"unconfirmed", "result"} :
          /\ res \in {"error", "reverted"} => txs[local.tx].st = "reverted"
          /\ Goto(p, [local EXCEPT !.at = at, !.res = res])
    BY <1>13 DEF Wait, Answer
  <2>. QED
    BY <1>5, <2>1, <2>2
<1>14. CASE Unconfirmed(p) \/ Confirm(p)
  <2>1. /\ local.at \in {"unconfirmed", "confirm"} /\ Holds(local)
        /\ local.at = "confirm" => local.tx = 0
        /\ local.res = "reverted" => local.tx = 0 \/ txs[local.tx].st = "reverted"
    BY <1>1, <1>3, <1>14 DEF Unconfirmed, Confirm, At, Holds, RequestOK
  <2>2. \/ Confirmed(p) \/ Answer(p, "pending") \/ Answer(p, "cancelled")
        \/ (local.at = "confirm" \/ local.res = "reverted") /\ AssignError(p, "error")
        \/ Goto(p, [local EXCEPT !.at = "result", !.res = "elsewhere", !.found = chain.worker])
    BY <1>14 DEF Unconfirmed, Confirm, At
  <2>3. ASSUME Goto(p, [local EXCEPT !.at = "result", !.res = "elsewhere", !.found = chain.worker])
        PROVE  \E next : Goto(p, next) /\ Course(p, next)
    <3>. DEFINE next == [local EXCEPT !.at = "result", !.res = "elsewhere", !.found = chain.worker]
    <3>1. RequestOK(next) /\ next.at = "result"
      BY <1>1, <1>3 DEF RequestOK, Accepting, Settling, Updating, Handler
    <3>. HIDE DEF next, local
    <3>2. Course(p, next)
      BY <1>3, <2>1, <3>1, GoesOn DEF local
    <3>. QED
      BY <2>3, <3>2 DEF next
  <2>4. CASE Confirmed(p) \/ Answer(p, "pending") \/ Answer(p, "cancelled")
    BY <1>5, <2>1, <2>4 DEF Confirmed, Answer
  <2>5. CASE (local.at = "confirm" \/ local.res = "reverted") /\ AssignError(p, "error")
    BY <1>6, <2>1, <2>5
  <2>. QED
    BY <2>2, <2>3, <2>4, <2>5
<1>15. CASE ClearError(p)
  <2>1. local.at = "clear" /\ Holds(local)
    BY <1>3, <1>15 DEF ClearError, At, Holds
  <2>2. RequestOK([local EXCEPT !.at = "result"])
    BY <1>1, <1>3, <2>1 DEF RequestOK, Accepting, Settling, Updating, Handler
  <2>3. ASSUME Update(p, local, "noError")
        PROVE  \E next : Goto(p, next) /\ Course(p, next)
    <3>. DEFINE next == [local EXCEPT !.at = "load", !.write = "noError"]
    <3>1. RequestOK(next) /\ next.at = "load" /\ next.write = "noError"
      BY <1>1, <1>3, <2>1 DEF RequestOK, Accepting, Settling, Updating, Handler
    <3>2. Goto(p, next)
      BY <2>3 DEF Update
    <3>. HIDE DEF next, local
    <3>3. Course(p, next)
      BY <1>3, <2>1, <3>1, GoesOn DEF local
    <3>. QED
      BY <3>2, <3>3
  <2>. QED
    BY <1>7, <1>15, <2>1, <2>2, <2>3 DEF ClearError, Settling
<1>16. CASE Grant(p) \/ Unlock(p)
  BY <1>4, <1>16 DEF Grant, Unlock
<1>. QED
  BY <1>8, <1>9, <1>10, <1>11, <1>12, <1>13, <1>14, <1>15, <1>16

\* A call begins, or reads the chain; hand-backs do not occur.
LEMMA CallCourse ==
  ASSUME Undisturbed, IInv, KeepInv, NEW p \in Request,
         \/ Index(p) \/ \E w \in Worker : AcceptCheck(p, w) \/ Submit(p, w)
         \/ \E op \in {"release", "force", "rewind"} : HandBack(p, op)
         \/ CheckChain(p)
  PROVE  \E next : Goto(p, next) /\ Course(p, next)
<1>. DEFINE local == proc[p]
<1>1. local \in Handler /\ RequestOK(local) /\ p # GasSweep /\ p # ExpirySweep /\ p \in Process
  BY Processes DEF IInv, TypeOK, KeepInv, CourseOK
<1>2. ~\E op \in {"release", "force", "rewind"} : HandBack(p, op)
  BY DEF Undisturbed, HandBack
<1>3. CASE Index(p)
  <2>. DEFINE next == [Idle EXCEPT !.at = "index", !.op = "index", !.seen = state]
  <2>1. /\ Goto(p, next) /\ At(p, "idle") /\ state.status = "missing"
        /\ \A q \in Request : ~At(q, "index")
    BY <1>3 DEF Index, Undisturbed
  <2>2. \A q \in Process : ~At(q, "index")
    BY <2>1, Processes DEF KeepInv, CourseOK, GasOK, ExpiryOK, At
  <2>3. /\ RequestOK(next) /\ ~Holds(next) /\ next.at = "index"
    BY <2>1 DEF RequestOK, Holds, Accepting, Updating, Idle
  <2>. HIDE DEF next
  <2>4. Course(p, next)
    BY <1>1, <2>1, <2>2, <2>3 DEF Course
  <2>. QED
    BY <2>1, <2>4
<1>4. ASSUME NEW w \in Worker, AcceptCheck(p, w)
      PROVE  \E next : Goto(p, next) /\ Course(p, next)
  <2>. DEFINE next == [Idle EXCEPT !.at = "lock", !.op = "accept", !.caller = w]
  <2>1. Goto(p, next) /\ state.status # "missing"
    BY <1>4 DEF AcceptCheck
  <2>2. RequestOK(next) /\ ~Holds(next) /\ next.at = "lock"
    BY DEF RequestOK, Holds, Accepting, Updating, Idle, Settling
  <2>. HIDE DEF next
  <2>3. Course(p, next)
    BY <1>1, <2>1, <2>2 DEF Course
  <2>. QED
    BY <2>1, <2>3
<1>5. ASSUME NEW w \in Worker, Submit(p, w)
      PROVE  \E next : Goto(p, next) /\ Course(p, next)
  <2>. DEFINE next == [Idle EXCEPT !.at = "chain", !.op = "submit", !.caller = w]
  <2>1. Goto(p, next) /\ state.status # "missing"
    BY <1>5 DEF Submit
  <2>2. RequestOK(next) /\ ~Holds(next) /\ next.at = "chain"
    BY DEF RequestOK, Holds, Accepting, Updating, Idle, Settling
  <2>. HIDE DEF next
  <2>3. Course(p, next)
    BY <1>1, <2>1, <2>2 DEF Course
  <2>. QED
    BY <2>1, <2>3
<1>6. CASE CheckChain(p)
  <2>1. local.at = "chain"
    BY <1>6 DEF CheckChain, At
  <2>2. local.op = "submit" /\ state.status # "missing"
    <3>1. local.op = "submit"
      BY <1>1, <2>1 DEF RequestOK, Accepting, Settling, Updating
    <3>2. state.status # "missing"
      BY <1>1, <2>1 DEF KeepInv, RecordOK, At
    <3>. QED
      BY <3>1, <3>2
  <2>3. Done(p) \/ Update(p, local, "submitted")
    BY <1>6, <2>2 DEF CheckChain
  <2>4. CASE Done(p)
    <3>1. Idle.at = "idle" /\ ~Holds(Idle) /\ RequestOK(Idle)
      BY EndsOK DEF Idle, Holds, Accepting
    <3>2. Course(p, Idle)
      BY <1>1, <2>2, <3>1 DEF Course
    <3>. QED
      BY <2>4, <3>2 DEF Done
  <2>5. CASE Update(p, local, "submitted")
    <3>. DEFINE next == [local EXCEPT !.at = "load", !.write = "submitted"]
    <3>1. RequestOK(next) /\ ~Holds(next) /\ next.at = "load"
      BY <1>1, <2>1, <2>2 DEF RequestOK, Holds, Accepting, Updating, Settling, Handler
    <3>2. Goto(p, next)
      BY <2>5 DEF Update
    <3>. HIDE DEF next
    <3>3. Course(p, next)
      BY <1>1, <2>2, <3>1 DEF Course
    <3>. QED
      BY <3>2, <3>3
  <2>. QED
    BY <2>3, <2>4, <2>5
<1>. QED
  BY <1>2, <1>3, <1>4, <1>5, <1>6

LEMMA LoadCourse ==
  ASSUME IInv, KeepInv, NEW p \in Process, Load(p)
  PROVE  \E next : Goto(p, next) /\ Course(p, next)
<1>. DEFINE local == proc[p]
            next == [local EXCEPT !.at = "store", !.seen = state]
<1>1. local \in Handler /\ local.at = "load" /\ Goto(p, next)
  BY DEF IInv, TypeOK, Load, At
<1>2. /\ next.at = "store" /\ next.seen = state
      /\ next.op = local.op /\ next.write = local.write /\ next.tx = local.tx /\ next.res = local.res
  BY <1>1 DEF Handler
<1>3. state.status # "missing"
  BY <1>1 DEF KeepInv, RecordOK, At
<1>4. p \in Request => RequestOK(local)
  BY DEF KeepInv, CourseOK
<1>5. p = GasSweep => GasOK(local) /\ Sweeping
  BY <1>1 DEF KeepInv, CourseOK, Sweeping
<1>6. p # ExpirySweep
  BY <1>1 DEF KeepInv, CourseOK, ExpiryOK
<1>. HIDE DEF next
<1>7. RequestOK(local) => RequestOK(next)
  BY <1>1, <1>2 DEF RequestOK, Accepting, Updating, Settling
<1>8. GasOK(local) => GasOK(next)
  BY <1>1, <1>2 DEF GasOK, Updating
<1>9. /\ Holds(next) => Holds(local)
      /\ Updating(next) /\ next.write = "broadcast" => Updating(local) /\ local.write = "broadcast"
  BY <1>1, <1>2 DEF Holds, Accepting, Updating
<1>10. Course(p, next)
  BY <1>2, <1>3, <1>4, <1>5, <1>6, <1>7, <1>8, <1>9 DEF Course
<1>. QED
  BY <1>1, <1>10

LEMMA SweepCourse ==
  ASSUME IInv, KeepInv, NEW p \in Process,
         \/ p = ExpirySweep /\ (ResyncRead(p) \/ ResyncCompare(p) \/ ResyncWrite(p) \/ ListOpen(p))
         \/ p = GasSweep /\ (GasList(p) \/ GasRead(p) \/ GasChain(p) \/ Receipt(p) \/ MarkReconciled(p))
  PROVE  \E next : Goto(p, next) /\ Course(p, next)
<1>. DEFINE local == proc[p]
<1>1. local \in Handler /\ p \notin Request
  BY Processes DEF IInv, TypeOK
<1>2. Idle.at = "idle" /\ GasOK(Idle) /\ ExpiryOK(Idle)
  BY EndsOK DEF Idle
<1>3. ASSUME Done(p)
      PROVE  \E next : Goto(p, next) /\ Course(p, next)
  <2>1. Course(p, Idle)
    BY <1>1, <1>2 DEF Course
  <2>. QED
    BY <1>3, <2>1 DEF Done
<1>4. CASE p = ExpirySweep
  <2>1. p # GasSweep
    BY <1>4, Processes
  <2>2. ASSUME NEW next, Goto(p, next), next.at \in {"resync", "resyncWrite", "list", "expire"},
               state.status # "missing"
        PROVE  \E n : Goto(p, n) /\ Course(p, n)
    BY <1>1, <1>4, <2>1, <2>2 DEF Course, ExpiryOK
  <2>3. CASE ResyncRead(p)
    <3>. DEFINE next == [Idle EXCEPT !.at = "resync", !.op = "sweep",
                                   !.write = IF state.status = "open" THEN "open" ELSE "none"]
    <3>1. Goto(p, next) /\ state.status # "missing"
      BY <2>3 DEF ResyncRead
    <3>2. next.at = "resync"
      BY DEF Idle
    <3>. HIDE DEF next
    <3>. QED
      BY <2>2, <3>1, <3>2
  <2>4. CASE ResyncCompare(p) \/ ResyncWrite(p) \/ ListOpen(p)
    <3>1. state.status # "missing"
      BY <2>4 DEF ResyncCompare, ResyncWrite, ListOpen, At, KeepInv, RecordOK
    <3>2. [Idle EXCEPT !.at = "list"].at = "list" /\ \A at : [local EXCEPT !.at = at].at = at
      BY <1>1 DEF Idle, Handler
    <3>3. \/ Done(p) \/ Goto(p, [Idle EXCEPT !.at = "list"])
          \/ \E at \in {"resyncWrite", "expire"} : Goto(p, [local EXCEPT !.at = at])
      BY <2>4 DEF ResyncCompare, ResyncWrite, ListOpen, Move
    <3>4. CASE Goto(p, [Idle EXCEPT !.at = "list"])
      BY <2>2, <3>1, <3>2, <3>4
    <3>5. ASSUME NEW at \in {"resyncWrite", "expire"}, Goto(p, [local EXCEPT !.at = at])
          PROVE  \E next : Goto(p, next) /\ Course(p, next)
      BY <2>2, <3>1, <3>2, <3>5
    <3>. QED
      BY <1>3, <3>3, <3>4, <3>5
  <2>. QED
    BY <1>4, <2>1, <2>3, <2>4
<1>5. CASE p = GasSweep
  <2>1. p # ExpirySweep /\ GasOK(local)
    BY <1>5, Processes DEF KeepInv, CourseOK
  <2>2. ASSUME NEW next, Goto(p, next), GasOK(next), next.at \notin {"index", "store"},
               Sweeping \/ state.status = "accepted", state.status # "missing"
        PROVE  \E n : Goto(p, n) /\ Course(p, n)
    BY <1>1, <1>5, <2>1, <2>2 DEF Course
  <2>3. CASE GasList(p)
    <3>. DEFINE next == [Idle EXCEPT !.at = "gasRead", !.op = "sweep", !.caller = state.executor]
    <3>1. Goto(p, next) /\ state.status = "accepted"
      BY <2>3 DEF GasList
    <3>2. GasOK(next) /\ next.at = "gasRead"
      BY DEF GasOK, Idle, Updating
    <3>. QED
      BY <2>2, <3>1, <3>2
  <2>4. CASE MarkReconciled(p)
    BY <1>3, <2>4 DEF MarkReconciled
  <2>5. ASSUME local.at \in {"gasRead", "chain", "receipt"}
        PROVE  Sweeping /\ state.status # "missing"
    BY <1>5, <2>5 DEF Sweeping, KeepInv, RecordOK, At
  <2>6. CASE GasRead(p)
    <3>. DEFINE next == [local EXCEPT !.at = "chain", !.seen = state]
    <3>1. local.at = "gasRead" /\ (Done(p) \/ Goto(p, next))
      BY <2>6 DEF GasRead, At
    <3>2. GasOK(next) /\ next.at = "chain"
      BY <1>1 DEF GasOK, Updating, Handler
    <3>. HIDE DEF next
    <3>. QED
      BY <1>3, <2>2, <2>5, <3>1, <3>2
  <2>7. CASE GasChain(p)
    <3>. DEFINE repair == [local EXCEPT !.tx = local.seen.tx, !.at = "load", !.write = "noError"]
                mark == [local EXCEPT !.at = "mark", !.tx = local.seen.tx]
                receipt == [local EXCEPT !.at = "receipt"]
                reopen == [local EXCEPT !.at = "reopen"]
    <3>1. /\ local.at = "chain"
          /\ \/ Done(p) \/ Goto(p, receipt) \/ Goto(p, mark)
             \/ ReadsPastFunded /\ Goto(p, repair)
             \/ local.seen.tx = 0 /\ Goto(p, reopen)
      BY <2>7 DEF GasChain, At, Move, Update
    <3>2. /\ GasOK(receipt) /\ receipt.at = "receipt" /\ GasOK(mark) /\ mark.at = "mark"
          /\ repair.at = "load" /\ repair.write = "noError" /\ reopen.at = "reopen"
          /\ reopen.seen = local.seen
      BY <1>1 DEF GasOK, Updating, Handler
    <3>. HIDE DEF repair, mark, receipt, reopen
    <3>3. (ReadsPastFunded => GasOK(repair)) /\ (local.seen.tx = 0 => GasOK(reopen))
      BY <3>2 DEF GasOK, Updating, ReadsPastFunded, Funded
    <3>. QED
      BY <1>3, <2>2, <2>5, <3>1, <3>2, <3>3
  <2>8. CASE Receipt(p)
    <3>. DEFINE reopen == [local EXCEPT !.at = "reopen"]
    <3>1. /\ local.at = "receipt"
          /\ \/ Done(p)
             \/ txs[local.seen.tx].st \in {"reverted", "dropped"} /\ Goto(p, reopen)
      BY <2>8 DEF Receipt, At, Move
    <3>2. reopen.at = "reopen" /\ reopen.seen = local.seen
      BY <1>1 DEF Handler
    <3>. HIDE DEF reopen
    <3>3. txs[local.seen.tx].st \in {"reverted", "dropped"} => GasOK(reopen)
      BY <3>2 DEF GasOK, Updating
    <3>. QED
      BY <1>3, <2>2, <2>5, <3>1, <3>2, <3>3
  <2>. QED
    BY <1>5, <2>1, <2>3, <2>4, <2>6, <2>7, <2>8
<1>. QED
  BY <1>4, <1>5

(* One process writes the record.                                          *)
LEMMA RecordWrites ==
  ASSUME IInv, IInv', KeepInv, Onwards, NEW p \in Process, NEW next, Goto(p, next), InOrder(p, next),
         next.at \notin {"index", "load", "store"}, state'.status # "missing",
         \A q \in Process \ {p} : ~At(q, "index"), RaceOK', hLapsed' = {}
  PROVE  KeepInv'
<1>1. \A q \in Process : proc'[q] = IF q = p THEN next ELSE proc[q]
  BY OthersStay
<1>2. next \in Handler
  BY <1>1 DEF IInv, TypeOK
<1>3. CourseOK'
  BY <1>2, CourseOKKept DEF KeepInv
<1>4. RecordOK'
  BY <1>1 DEF KeepInv, RecordOK, At
<1>. QED
  BY <1>3, <1>4 DEF KeepInv

\* The holder of the lock writes it.
LEMMA HolderWrites ==
  ASSUME IInv, LockInv, KeepInv, NEW p \in Request, Accepting(proc[p]), ~At(p, "lock"),
         NEW next, Goto(p, next), ~Updating(next),
         Holds(next) /\ state'.status = "open" => ~Sweeping,
         Sweeping /\ state'.status = "open" => state'.tx = 0,
         At(GasSweep, "store") /\ proc[GasSweep].seen.status = "open" /\ Offered(state') => state'.tx = 0
  PROVE  RaceOK'
<1>1. \A q \in Process : proc'[q] = IF q = p THEN next ELSE proc[q]
  BY Processes, OthersStay
<1>2. proc'[GasSweep] = proc[GasSweep]
  BY <1>1, Processes
<1>3. ASSUME NEW q \in Request, Holds(proc'[q])
      PROVE  q = p
  <2>. SUFFICES ASSUME q # p PROVE FALSE
    OBVIOUS
  <2>1. Holds(proc[q])
    BY <1>1, <1>3, Processes
  <2>. QED
    BY <2>1, HoldsAlone DEF Holds, At
<1>4. ASSUME NEW q \in Request, Holds(proc'[q])
      PROVE  ~Updating(proc'[q]) /\ (state'.status = "open" => ~Sweeping)
  BY <1>1, <1>3, <1>4, Processes
<1>5. (At(GasSweep, "store") <=> At(GasSweep, "store")') /\ (Sweeping <=> Sweeping')
  BY <1>2 DEF At, Sweeping
<1>. QED
  BY <1>2, <1>4, <1>5 DEF RaceOK, Holds, Accepting, Updating, At, Offered

\* Somebody closes it.
LEMMA CloserWrites ==
  ASSUME IInv, KeepInv, NEW p \in Process, p # GasSweep, NEW next, Goto(p, next), ~Holds(next),
         ~Offered(state')
  PROVE  RaceOK'
<1>1. \A q \in Process : proc'[q] = IF q = p THEN next ELSE proc[q]
  BY OthersStay
<1>2. proc'[GasSweep] = proc[GasSweep]
  BY <1>1, Processes
<1>3. ASSUME NEW q \in Request, Holds(proc'[q])
      PROVE  proc'[q] = proc[q]
  BY <1>1, <1>3, Processes
<1>4. (At(GasSweep, "store") <=> At(GasSweep, "store")') /\ (Sweeping <=> Sweeping')
  BY <1>2 DEF At, Sweeping
<1>5. ASSUME NEW q \in Request, Holds(proc'[q])
      PROVE  At(q, "store") <=> At(q, "store")'
  BY <1>3, <1>5 DEF At
<1>6. state'.status # "open" /\ state'.status # "accepted"
  BY DEF Offered
<1>7. ASSUME NEW q \in Request, Holds(proc'[q]), At(q, "store")', proc'[q].seen.status = "open"
      PROVE  ~Sweeping'
  BY <1>3, <1>4, <1>5, <1>7 DEF KeepInv, RaceOK
<1>8. ASSUME At(GasSweep, "store")', proc'[GasSweep].seen.status = "open",
             NEW q \in Request, Holds(proc'[q]), Updating(proc'[q])
      PROVE  /\ proc'[q].write # "broadcast"
             /\ At(q, "store")' /\ Offered(proc'[q].seen) => proc'[q].seen.tx = 0
  BY <1>2, <1>3, <1>4, <1>5, <1>8 DEF KeepInv, RaceOK
<1>. QED
  BY <1>2, <1>6, <1>7, <1>8 DEF RaceOK, Holds, Accepting, Updating, At, Offered

\* The sweep puts it down.
LEMMA SweepRests ==
  ASSUME IInv, KeepInv, NEW next, Goto(GasSweep, next), next.at \in {"idle", "mark"},
         state' = state \/ state'.status # "accepted" \/
           \A q \in Request : Holds(proc[q]) => ~(At(q, "store") /\ proc[q].seen.status = "open")
  PROVE  RaceOK'
<1>1. \A q \in Process : proc'[q] = IF q = GasSweep THEN next ELSE proc[q]
  BY Processes, OthersStay
<1>2. ~Sweeping' /\ ~At(GasSweep, "store")'
  BY <1>1, Processes DEF At, Sweeping
<1>3. ASSUME NEW q \in Request
      PROVE  proc'[q] = proc[q] /\ (At(q, "store") <=> At(q, "store")')
  BY <1>1, Processes DEF At
<1>4. ASSUME NEW q \in Request, Holds(proc'[q]), At(q, "store")', proc'[q].seen.status = "open"
      PROVE  state'.status # "accepted"
  BY <1>3, <1>4 DEF KeepInv, RaceOK
<1>. QED
  BY <1>2, <1>4 DEF RaceOK, Holds, Accepting, Updating, At

\* Nobody goes on, and the record at most is closed.
LEMMA BackgroundKeeps ==
  ASSUME IInv, KeepInv, Onwards, UNCHANGED proc, hLapsed' = {},
         state' = state \/ (state.status # "missing" /\ state'.status = "failed")
  PROVE  KeepInv'
<1>1. \A q \in Process : proc[q] \in Handler
  BY DEF IInv, TypeOK
<1>2. CourseOK'
  <2>1. ASSUME NEW q \in Request PROVE RequestOK(proc[q])'
    <3>1. RequestOK(proc'[q]) /\ proc'[q] \in Handler
      BY <1>1, Processes DEF KeepInv, CourseOK
    <3>. QED
      BY <3>1, OnwardsKeeps DEF RequestOK, Accepting, Updating
  <2>2. GasOK(proc[GasSweep])'
    <3>1. GasOK(proc'[GasSweep]) /\ proc'[GasSweep] \in Handler
      BY <1>1, Processes DEF KeepInv, CourseOK
    <3>. QED
      BY <3>1, OnwardsKeeps DEF GasOK, Updating, Funded
  <2>. QED
    BY <2>1, <2>2 DEF KeepInv, CourseOK, ExpiryOK
<1>3. RecordOK'
  BY DEF KeepInv, RecordOK, At
<1>4. RaceOK'
  BY DEF KeepInv, RaceOK, Holds, Accepting, Updating, At, Sweeping, Offered
<1>. QED
  BY <1>2, <1>3, <1>4 DEF KeepInv

\* updateState keeps the status and the transaction, or says what it makes of them.
LEMMA PatchedOffer ==
  ASSUME NEW local, local.write \in Patch \ {"accepted"}, NEW old \in TaskState
  PROVE  LET new == Patched(local, old)
         IN /\ new.status = "open" => old.status = "open"
            /\ Offered(new) => Offered(old)
            /\ local.write # "broadcast" => new.tx = old.tx
            /\ local.write = "noError" => new.status = old.status
            /\ local.write = "submitted" => new.status = "submitted"
            /\ old.status # "missing" => new.status # "missing"
BY DEF Patched, Patch, TaskState, Offered

LEMMA StoreKeeps ==
  ASSUME IInv, IInv', LockInv, KeepInv, Onwards, NEW p \in Process, Store(p), hLapsed' = {}
  PROVE  KeepInv'
<1>. DEFINE local == proc[p]
            new == Patched(local, local.seen)
<1>1. /\ local \in Handler /\ local.at = "store" /\ local.seen \in TaskState
      /\ state' = new /\ AfterStore(p)
  BY DEF IInv, TypeOK, Handler, Store, At
<1>2. local.write \in Patch /\ local.seen.status # "missing" /\ p # ExpirySweep
  BY <1>1 DEF IInv, HandlerOK, Updating, KeepInv, RecordOK, CourseOK, ExpiryOK, At
<1>3. \A q \in Process : ~At(q, "index")
  BY <1>1 DEF KeepInv, RecordOK, At
<1>4. CASE p = GasSweep
  <2>. DEFINE next == [local EXCEPT !.at = "mark", !.seen = Missing, !.write = "none"]
  <2>1. Goto(p, next) /\ local.write = "noError" /\ local.write # "accepted"
    BY <1>1, <1>4 DEF AfterStore, KeepInv, CourseOK, GasOK, Updating
  <2>2. next.at = "mark" /\ next.write = "none"
    BY <1>1 DEF Handler
  <2>3. state'.status = local.seen.status
    BY <1>1, <1>2, <2>1, PatchedOffer
  <2>. HIDE DEF next
  <2>4. InOrder(p, next)
    BY <1>4, <2>2, Processes DEF InOrder, GasOK, Updating
  <2>5. \A q \in Request : Holds(proc[q]) => ~(At(q, "store") /\ proc[q].seen.status = "open")
    BY <1>1, <1>4 DEF KeepInv, RaceOK, Sweeping
  <2>6. RaceOK'
    BY <1>4, <2>1, <2>2, <2>5, SweepRests
  <2>. QED
    BY <1>2, <1>3, <2>1, <2>2, <2>3, <2>4, <2>6, RecordWrites
<1>5. CASE p \in Request
  <2>1. RequestOK(local) /\ p # GasSweep /\ p # ExpirySweep
    BY <1>5, Processes DEF KeepInv, CourseOK
  <2>2. local.write # "accepted"
    BY <1>1, <2>1 DEF RequestOK, Updating
  <2>3. CASE Accepting(local)
    <3>1. PICK next : /\ Goto(p, next) /\ RequestOK(next) /\ next.at \in {"wait", "result", "unlock", "idle"}
      <4>1. ASSUME NEW at \in {"wait", "result"},
                   Goto(p, [local EXCEPT !.at = at, !.seen = Missing, !.write = "none"])
            PROVE  \E next : /\ Goto(p, next) /\ RequestOK(next)
                             /\ next.at \in {"wait", "result", "unlock", "idle"}
        <5>. DEFINE next == [local EXCEPT !.at = at, !.seen = Missing, !.write = "none"]
        <5>1. next.at = at /\ RequestOK(next)
          BY <1>1, <2>1, <2>3 DEF RequestOK, Accepting, Updating, Settling, Handler
        <5>. QED
          BY <4>1, <5>1
      <4>2. ASSUME Leave(p) \/ Done(p)
            PROVE  \E next : /\ Goto(p, next) /\ RequestOK(next)
                             /\ next.at \in {"wait", "result", "unlock", "idle"}
        <5>1. /\ Idle.at = "idle" /\ [Idle EXCEPT !.at = "unlock", !.op = local.op].at = "unlock"
              /\ RequestOK(Idle) /\ RequestOK([Idle EXCEPT !.at = "unlock", !.op = local.op])
          BY <2>3, EndsOK DEF Idle, Accepting
        <5>. QED
          BY <4>2, <5>1 DEF Leave, Done
      <4>. QED
        BY <1>1, <2>1, <4>1, <4>2 DEF AfterStore
    <3>2. /\ local.seen.status = "open" => ~Sweeping
          /\ At(GasSweep, "store") /\ proc[GasSweep].seen.status = "open" =>
               local.write # "broadcast" /\ (Offered(local.seen) => local.seen.tx = 0)
      BY <1>1, <1>5, <2>3 DEF KeepInv, RaceOK, Holds, Updating, At
    <3>3. RaceOK'
      <4>1. state'.status = "open" => local.seen.status = "open"
        BY <1>1, <1>2, <2>2, PatchedOffer
      <4>2. Offered(state') => Offered(local.seen)
        BY <1>1, <1>2, <2>2, PatchedOffer
      <4>3. local.write # "broadcast" => state'.tx = local.seen.tx
        BY <1>1, <1>2, <2>2, PatchedOffer
      <4>4. ~At(p, "lock") /\ ~Updating(next)
        BY <1>1, <3>1 DEF At, Updating
      <4>. HIDE DEF local
      <4>. QED
        BY <1>5, <2>3, <3>1, <3>2, <4>1, <4>2, <4>3, <4>4, HolderWrites DEF local
    <3>4. state'.status # "missing"
      BY <1>1, <1>2, <2>2, PatchedOffer
    <3>. QED
      BY <1>3, <2>1, <3>1, <3>3, <3>4, RecordWrites DEF InOrder
  <2>4. CASE ~Accepting(local)
    <3>1. local.op = "submit" /\ local.write = "submitted"
      BY <1>1, <2>1, <2>4 DEF RequestOK, Updating
    <3>2. Goto(p, Idle) /\ state'.status = "submitted"
      BY <1>1, <1>2, <2>1, <3>1, PatchedOffer DEF AfterStore, Done
    <3>3. Idle.at = "idle" /\ ~Holds(Idle) /\ RequestOK(Idle)
      BY EndsOK DEF Idle, Holds, Accepting
    <3>4. RaceOK'
      BY <2>1, <3>2, <3>3, CloserWrites DEF Offered
    <3>. QED
      BY <1>3, <2>1, <3>2, <3>3, <3>4, RecordWrites DEF InOrder
  <2>. QED
    BY <2>3, <2>4
<1>. QED
  BY <1>2, <1>4, <1>5, Processes

\* The task is listed.
LEMMA IndexKeeps ==
  ASSUME IInv, IInv', KeepInv, Onwards, NEW p \in Request, IndexWrite(p), hLapsed' = {}
  PROVE  KeepInv'
<1>1. p \in Process /\ RequestOK(proc[p]) /\ At(p, "index")
  BY Processes DEF IndexWrite, KeepInv, CourseOK
<1>2. state.status = "missing" /\ \A q \in Process \ {p} : At(q, "idle")
  BY <1>1 DEF KeepInv, RecordOK
<1>3. proc[p].seen.status = "missing"
  BY <1>1 DEF RequestOK, At, Settling, Updating
<1>4. Goto(p, Idle) /\ state' = Listed /\ state'.status # "missing"
  BY <1>3 DEF IndexWrite, Done, Listed, Missing
<1>5. Idle.at = "idle" /\ ~Holds(Idle) /\ RequestOK(Idle)
  BY EndsOK DEF Idle, Holds, Accepting
<1>6. \A q \in Process : proc'[q] = IF q = p THEN Idle ELSE proc[q]
  BY <1>1, <1>4, OthersStay
<1>7. RaceOK'
  <2>1. \A q \in Process : At(q, "idle")'
    BY <1>2, <1>5, <1>6 DEF At
  <2>2. ~Sweeping' /\ ~At(GasSweep, "store")'
    BY <2>1, Processes DEF At, Sweeping
  <2>3. \A q \in Request : ~At(q, "store")'
    BY <2>1, Processes DEF At
  <2>. QED
    BY <2>2, <2>3 DEF RaceOK, At, Sweeping
<1>8. \A q \in Process \ {p} : ~At(q, "index")
  BY <1>2 DEF At
<1>. QED
  BY <1>1, <1>4, <1>5, <1>7, <1>8, Processes, RecordWrites DEF InOrder

\* The accept handler's own scripts.
LEMMA AcceptKeeps ==
  ASSUME IInv, IInv', LockInv, KeepInv, Onwards, NEW p \in Request,
         TryAccept(p) \/ RewrapFailed(p) \/ Refuse(p), hLapsed' = {}
  PROVE  KeepInv'
<1>. DEFINE local == proc[p]
            ends == [Idle EXCEPT !.at = "unlock", !.op = local.op]
<1>1. p \in Process /\ local \in Handler /\ RequestOK(local)
  BY Processes DEF IInv, TypeOK, KeepInv, CourseOK
<1>2. Accepting(local) /\ local.at \in {"cas", "rewrap", "result"}
  <2>1. local.at \in {"cas", "rewrap", "result"}
    BY DEF TryAccept, RewrapFailed, Refuse, At
  <2>. QED
    BY <1>1, <2>1 DEF RequestOK, Updating
<1>3. /\ ~At(p, "idle") /\ ~At(p, "index") /\ ~At(p, "lock") /\ state.status # "missing"
      /\ \A q \in Process : ~At(q, "index")
  BY <1>1, <1>2 DEF KeepInv, RecordOK, At
<1>4. RequestOK(ends) /\ ends.at = "unlock" /\ ~Holds(ends) /\ ~Updating(ends)
  BY <1>2, EndsOK DEF Accepting, Idle, Holds, Updating
<1>. HIDE DEF ends
<1>5. ASSUME Goto(p, ends), UNCHANGED state
      PROVE  KeepInv'
  <2>1. Course(p, ends)
    BY <1>3, <1>4, GoesOn
  <2>. QED
    BY <1>1, <1>5, <2>1, StepKept
<1>6. ASSUME Goto(p, ends), state' = Listed
      PROVE  KeepInv'
  <2>1. state'.status = "open" /\ state'.tx = 0
    BY <1>6 DEF Listed, Missing
  <2>2. RaceOK'
    BY <1>2, <1>3, <1>4, <1>6, <2>1, HolderWrites
  <2>. QED
    BY <1>1, <1>3, <1>4, <1>6, <2>1, <2>2, Processes, RecordWrites DEF InOrder
<1>7. CASE TryAccept(p)
  <2>. DEFINE next == [local EXCEPT !.at = "rewrap"]
  <2>1. \/ Goto(p, ends) /\ UNCHANGED state
        \/ /\ state.status = "open" /\ Goto(p, next) /\ local.at = "cas"
           /\ state' = [state EXCEPT !.status = "accepted", !.executor = local.caller]
    BY <1>7 DEF TryAccept, Move, Leave, store, ends, At
  <2>2. ASSUME state.status = "open", Goto(p, next), local.at = "cas",
               state' = [state EXCEPT !.status = "accepted", !.executor = local.caller]
        PROVE  KeepInv'
    <3>1. RequestOK(next) /\ next.at = "rewrap" /\ ~Updating(next)
      BY <1>1, <1>2, <2>2 DEF RequestOK, Accepting, Settling, Updating, Handler
    <3>2. state'.status = "accepted" /\ state'.tx = state.tx
      BY <2>2 DEF IInv, TypeOK, TaskState
    <3>. HIDE DEF next
    <3>3. At(GasSweep, "store") /\ proc[GasSweep].seen.status = "open" => state'.tx = 0
      BY <2>2, <3>2 DEF KeepInv, RaceOK, Offered
    <3>4. RaceOK'
      BY <1>2, <1>3, <2>2, <3>1, <3>2, <3>3, HolderWrites
    <3>. QED
      BY <1>1, <1>3, <2>2, <3>1, <3>2, <3>4, Processes, RecordWrites DEF InOrder
  <2>. QED
    BY <1>5, <2>1, <2>2
<1>8. CASE RewrapFailed(p)
  BY <1>5, <1>6, <1>8 DEF RewrapFailed, TryRelease, Leave, store, ends
<1>9. CASE Refuse(p)
  <2>1. \/ Goto(p, ends) /\ (UNCHANGED state \/ state' = Listed)
        \/ /\ UNCHANGED state
           /\ \E write \in {"expired", "cancelled", "escrow_mismatch", "reconcile"} :
                Update(p, local, write)
    BY <1>9 DEF Refuse, TryRelease, Leave, store, ends
  <2>2. ASSUME NEW write \in {"expired", "cancelled", "escrow_mismatch", "reconcile"},
               Update(p, local, write), UNCHANGED state
        PROVE  KeepInv'
    <3>. DEFINE next == [local EXCEPT !.at = "load", !.write = write]
    <3>1. Goto(p, next) /\ local.at = "result"
      BY <1>9, <2>2 DEF Update, Refuse, At
    <3>2. RequestOK(next) /\ next.at = "load" /\ next.write = write
      BY <1>1, <1>2, <3>1 DEF RequestOK, Accepting, Settling, Updating, Handler
    <3>3. Holds(local)
      BY <1>2, <3>1 DEF Holds
    <3>. HIDE DEF next, local
    <3>4. Course(p, next)
      BY <1>3, <2>2, <3>2, <3>3, GoesOn DEF local
    <3>. QED
      BY <1>1, <2>2, <3>1, <3>4, StepKept
  <2>. QED
    BY <1>5, <1>6, <2>1, <2>2
<1>. QED
  BY <1>7, <1>8, <1>9

\* The two sweeps' scripts.
LEMMA SweepKeeps ==
  ASSUME IInv, IInv', KeepInv, Onwards, Expire(ExpirySweep) \/ GasReopen(GasSweep), hLapsed' = {}
  PROVE  KeepInv'
<1>1. Idle.at = "idle" /\ ~Holds(Idle) /\ GasOK(Idle) /\ ExpiryOK(Idle)
  BY EndsOK DEF Idle, Holds, Accepting
<1>2. CASE Expire(ExpirySweep)
  <2>. DEFINE p == ExpirySweep
  <2>1. p \in Process /\ p # GasSweep /\ p \notin Request
    BY Processes
  <2>2. At(p, "expire") /\ Goto(p, Idle)
    BY <1>2 DEF Expire, Done
  <2>3. state.status # "missing" /\ \A q \in Process : ~At(q, "index")
    BY <2>1, <2>2 DEF KeepInv, RecordOK, At
  <2>4. UNCHANGED state \/ state'.status = "failed"
    BY <1>2 DEF Expire, TryExpire, store, IInv, TypeOK, TaskState
  <2>5. CASE UNCHANGED state
    <3>1. Course(p, Idle)
      BY <1>1, <2>1, <2>3 DEF Course
    <3>. QED
      BY <2>1, <2>2, <2>5, <3>1, StepKept
  <2>6. CASE state'.status = "failed"
    <3>1. RaceOK'
      BY <1>1, <2>1, <2>2, <2>6, CloserWrites DEF Offered
    <3>. QED
      BY <1>1, <2>1, <2>2, <2>3, <2>6, <3>1, RecordWrites DEF InOrder
  <2>. QED
    BY <2>4, <2>5, <2>6
<1>3. CASE GasReopen(GasSweep)
  <2>. DEFINE p == GasSweep
  <2>1. p \in Process /\ p # ExpirySweep /\ p \notin Request
    BY Processes
  <2>2. At(p, "reopen") /\ Goto(p, Idle)
    BY <1>3 DEF GasReopen, Done
  <2>3. state.status # "missing" /\ \A q \in Process : ~At(q, "index")
    BY <2>1, <2>2 DEF KeepInv, RecordOK, At
  <2>4. UNCHANGED state \/ state'.status = "open"
    BY <1>3 DEF GasReopen, TryRelease, store, Listed, Missing
  <2>5. RaceOK'
    BY <1>1, <2>2, <2>4, SweepRests
  <2>. QED
    BY <1>1, <2>1, <2>2, <2>3, <2>4, <2>5, RecordWrites DEF InOrder
<1>. QED
  BY <1>2, <1>3

\* Nobody's lock runs out under him.
LEMMA LockLasts ==
  ASSUME Undisturbed, IInv, hLapsed = {}, [Next]_vars
  PROVE  hLapsed' = {}
<1>1. CASE LapseLock
  BY <1>1 DEF LapseLock, Undisturbed
<1>2. CASE Crash
  BY <1>2 DEF Crash
<1>3. ASSUME NEW p \in Request, Unlock(p)
      PROVE  hLapsed' = {}
  BY <1>3 DEF Unlock
<1>4. ASSUME NEW p \in Request, Calls(p) \/ Steps(p), ~Unlock(p)
      PROVE  hLapsed' = {}
  BY <1>4 DEF Calls, AcceptCheck, Submit, Index, HandBack, Steps, Load, Store, IndexWrite,
       AcquireLock, ReadHolder, TryAccept, RewrapFailed, StartDeadline, Settle, Send, Wait,
       Unconfirmed, Confirm, ClearError, Grant, Refuse, CheckChain, Release, ForceRead,
       ForceWrite, keys
<1>5. CASE \/ ExpirySweepStep \/ GasSweepStep \/ RefuseExpired \/ CloseRefunded \/ Escrow
           \/ ServerClock \/ LapseKey \/ Age \/ Restart \/ UNCHANGED vars
  BY <1>5 DEF ExpirySweepStep, ResyncRead, ResyncCompare, ResyncWrite, ListOpen, Expire,
       GasSweepStep, GasList, GasRead, GasChain, Receipt, GasReopen, MarkReconciled, Load, Store,
       RefuseExpired, CloseRefunded, Escrow, Mine, Drop, DirectAssign, Cancel, SubmitEvidence,
       SetChain, BlockLate, ServerClock, LapseKey, Age, Restart, vars, keys
<1>. QED
  BY <1>1, <1>2, <1>3, <1>4, <1>5 DEF Next

\* A handler that stands at one of the hand-backs' steps was called to hand back.
LEMMA NoHandBack ==
  ASSUME KeepInv, NEW p \in Request
  PROVE  ~(Release(p) \/ ForceRead(p) \/ ForceWrite(p))
<1>1. RequestOK(proc[p])
  BY DEF KeepInv, CourseOK
<1>. QED
  BY <1>1 DEF Release, ForceRead, ForceWrite, At, RequestOK, Settling, Updating

LEMMA NextKeep ==
  ASSUME Undisturbed
  PROVE  IInv /\ IInv' /\ LockInv /\ KeepInv /\ [Next]_vars => KeepInv'
<1>. SUFFICES ASSUME IInv, IInv', LockInv, KeepInv, [Next]_vars
              PROVE  KeepInv'
  OBVIOUS
<1>1. Onwards /\ hLapsed' = {}
  BY NextOnwards, LockLasts DEF KeepInv
<1>2. ASSUME NEW p \in Process, \E next : Goto(p, next) /\ Course(p, next), UNCHANGED state
      PROVE  KeepInv'
  BY <1>1, <1>2, StepKept
<1>3. ASSUME NEW p \in Request, Calls(p)
      PROVE  KeepInv'
  <2>1. UNCHANGED state
    BY <1>3 DEF Calls, Index, AcceptCheck, Submit, HandBack, store
  <2>2. \E next : Goto(p, next) /\ Course(p, next)
    BY <1>3, CallCourse DEF Calls
  <2>. QED
    BY <1>2, <2>1, <2>2, Processes
<1>4. ASSUME NEW p \in Request, Steps(p)
      PROVE  KeepInv'
  <2>1. CASE Store(p)
    BY <1>1, <2>1, StoreKeeps, Processes
  <2>2. CASE IndexWrite(p)
    BY <1>1, <2>2, IndexKeeps
  <2>3. CASE TryAccept(p) \/ RewrapFailed(p) \/ Refuse(p)
    BY <1>1, <2>3, AcceptKeeps
  <2>4. CASE Load(p)
    BY <1>2, <2>4, LoadCourse, Processes DEF Load, store
  <2>5. CASE CheckChain(p)
    BY <1>2, <2>5, CallCourse, Processes DEF CheckChain, store
  <2>6. CASE \/ AcquireLock(p) \/ ReadHolder(p) \/ StartDeadline(p)
             \/ Settle(p) \/ Send(p) \/ Wait(p) \/ Unconfirmed(p) \/ Confirm(p) \/ ClearError(p)
             \/ Grant(p) \/ Unlock(p)
    <3>1. UNCHANGED state
      BY <2>6 DEF AcquireLock, ReadHolder, StartDeadline, Settle, Send, Wait, Unconfirmed, Confirm,
                  ClearError, Grant, Unlock, store
    <3>2. \E next : Goto(p, next) /\ Course(p, next)
      BY <2>6, AcceptCourse
    <3>. QED
      BY <1>2, <3>1, <3>2, Processes
  <2>. QED
    BY <1>4, <2>1, <2>2, <2>3, <2>4, <2>5, <2>6, NoHandBack DEF Steps
<1>5. CASE ExpirySweepStep
  <2>1. CASE Expire(ExpirySweep)
    BY <1>1, <2>1, SweepKeeps
  <2>2. CASE \/ ResyncRead(ExpirySweep) \/ ResyncCompare(ExpirySweep) \/ ResyncWrite(ExpirySweep)
             \/ ListOpen(ExpirySweep)
    <3>1. UNCHANGED state
      BY <2>2 DEF ResyncRead, ResyncCompare, ResyncWrite, ListOpen, store
    <3>. QED
      BY <1>2, <2>2, <3>1, SweepCourse, Processes
  <2>. QED
    BY <1>5, <2>1, <2>2 DEF ExpirySweepStep
<1>6. CASE GasSweepStep
  <2>1. CASE GasReopen(GasSweep)
    BY <1>1, <2>1, SweepKeeps
  <2>2. CASE Store(GasSweep)
    BY <1>1, <2>2, StoreKeeps, Processes
  <2>3. CASE Load(GasSweep)
    BY <1>2, <2>3, LoadCourse, Processes DEF Load, store
  <2>4. CASE \/ GasList(GasSweep) \/ GasRead(GasSweep) \/ GasChain(GasSweep) \/ Receipt(GasSweep)
             \/ MarkReconciled(GasSweep)
    <3>1. UNCHANGED state
      BY <2>4 DEF GasList, GasRead, GasChain, Receipt, MarkReconciled, store
    <3>. QED
      BY <1>2, <2>4, <3>1, SweepCourse, Processes
  <2>. QED
    BY <1>6, <2>1, <2>2, <2>3, <2>4 DEF GasSweepStep
<1>7. CASE Crash
  <2>1. UNCHANGED state /\ \A q \in Process : proc'[q] = Idle
    BY <1>7 DEF Crash, store
  <2>2. /\ Idle.at = "idle" /\ RequestOK(Idle)' /\ GasOK(Idle)' /\ ExpiryOK(Idle)
        /\ ~Holds(Idle)
    BY EndsOK DEF Idle, RequestOK, GasOK, Holds, Accepting, Updating
  <2>3. CourseOK'
    BY <2>1, <2>2, Processes DEF CourseOK, RequestOK, GasOK, ExpiryOK, Accepting, Updating, Idle
  <2>4. RecordOK'
    BY <2>1, <2>2 DEF RecordOK, At
  <2>5. RaceOK'
    BY <2>1, <2>2, Processes DEF RaceOK, At, Sweeping, Holds, Accepting
  <2>. QED
    BY <1>1, <2>3, <2>4, <2>5 DEF KeepInv
<1>8. CASE \/ RefuseExpired \/ CloseRefunded \/ Escrow \/ ServerClock \/ LapseKey \/ Age
           \/ LapseLock \/ Restart \/ UNCHANGED vars
  <2>1. UNCHANGED proc
    BY <1>8, BackgroundKeepsLock DEF LapseLock, vars
  <2>2. CASE RefuseExpired \/ CloseRefunded
    <3>1. state.status # "missing" /\ state'.status = "failed"
      BY <2>2 DEF RefuseExpired, TryExpire, CloseRefunded, IInv, TypeOK, TaskState
    <3>. QED
      BY <1>1, <2>1, <3>1, BackgroundKeeps
  <2>3. CASE Escrow \/ ServerClock \/ LapseKey \/ Age \/ LapseLock \/ Restart \/ UNCHANGED vars
    <3>1. UNCHANGED state
      BY <2>3 DEF Escrow, Mine, Drop, DirectAssign, Cancel, SubmitEvidence, SetChain, BlockLate,
                  ServerClock, LapseKey, Age, LapseLock, Restart, vars, store
    <3>. QED
      BY <1>1, <2>1, <3>1, BackgroundKeeps
  <2>. QED
    BY <1>8, <2>2, <2>3
<1>. QED
  BY <1>3, <1>4, <1>5, <1>6, <1>7, <1>8 DEF Next

\* An accepted task that comes back on the board has no assignment that may still land.
LEMMA ReopenedIsLost ==
  ASSUME Undisturbed, IInv, LockInv, KeepInv, Next, state.status = "accepted", state'.status = "open"
  PROVE  state.tx = 0 \/ txs[state.tx].st \in {"reverted", "dropped"}
<1>. DEFINE Lost == state.tx = 0 \/ txs[state.tx].st \in {"reverted", "dropped"}
<1>1. state' # state
  OBVIOUS
<1>2. ASSUME NEW p \in Process, Store(p)
      PROVE  Lost
  <2>. DEFINE local == proc[p]
  <2>1. /\ local \in Handler /\ local.at = "store" /\ local.seen \in TaskState
        /\ state' = Patched(local, local.seen)
    BY <1>2 DEF IInv, TypeOK, Handler, Store, At
  <2>2. local.write \in Patch /\ p # ExpirySweep
    BY <2>1 DEF IInv, HandlerOK, Updating, KeepInv, CourseOK, ExpiryOK
  <2>3. CASE p = GasSweep
    <3>1. local.write # "accepted"
      BY <2>1, <2>3 DEF KeepInv, CourseOK, GasOK, Updating
    <3>2. local.seen.status = "open"
      BY <2>1, <2>2, <3>1, PatchedOffer
    <3>. QED
      BY <2>1, <2>3, <3>2 DEF KeepInv, RaceOK, At, Offered
  <2>4. CASE p \in Request
    <3>1. RequestOK(local) /\ local.write # "accepted"
      BY <2>1, <2>4 DEF KeepInv, CourseOK, RequestOK, Updating
    <3>2. local.seen.status = "open" /\ local.write # "submitted"
      BY <2>1, <2>2, <3>1, PatchedOffer
    <3>3. Holds(local)
      BY <2>1, <3>1, <3>2 DEF RequestOK, Updating, Holds
    <3>. QED
      BY <2>1, <2>4, <3>2, <3>3 DEF KeepInv, RaceOK, At
  <2>. QED
    BY <2>2, <2>3, <2>4, Processes
<1>3. ASSUME NEW executor, NEW tx, NEW status, TryRelease(executor, tx, status)
      PROVE  state.tx = tx
  BY <1>1, <1>3 DEF TryRelease, StillAccepted, store
<1>4. ASSUME NEW p \in Request, TryAccept(p) \/ RewrapFailed(p) \/ Refuse(p)
      PROVE  Lost
  <2>1. RequestOK(proc[p]) /\ proc[p] \in Handler
    BY Processes DEF KeepInv, CourseOK, IInv, TypeOK
  <2>2. ~TryAccept(p)
    BY <1>1 DEF TryAccept, store
  <2>3. ASSUME RewrapFailed(p) PROVE Lost
    BY <1>3, <2>3 DEF RewrapFailed
  <2>4. ASSUME Refuse(p) PROVE Lost
    <3>1. proc[p].res = "error" /\ TryRelease(proc[p].caller, proc[p].tx, "accepted")
      BY <1>1, <2>4 DEF Refuse, store
    <3>2. state.tx = proc[p].tx
      BY <1>3, <3>1
    <3>. QED
      BY <2>1, <3>1, <3>2 DEF RequestOK
  <2>. QED
    BY <1>4, <2>2, <2>3, <2>4
<1>5. ASSUME GasReopen(GasSweep)
      PROVE  Lost
  <2>1. state.tx = proc[GasSweep].seen.tx
    BY <1>3, <1>5 DEF GasReopen
  <2>. QED
    BY <1>5, <2>1 DEF GasReopen, At, KeepInv, CourseOK, GasOK
<1>6. ASSUME NEW p \in Request, IndexWrite(p)
      PROVE  FALSE
  <2>1. At(p, "index") /\ p \in Process
    BY <1>6, Processes DEF IndexWrite
  <2>. QED
    BY <2>1 DEF KeepInv, RecordOK
<1>7. ~(Expire(ExpirySweep) \/ RefuseExpired \/ CloseRefunded)
  BY <1>1 DEF Expire, TryExpire, RefuseExpired, CloseRefunded, store, IInv, TypeOK, TaskState
<1>8. ASSUME NEW p \in Request, Calls(p)
      PROVE  FALSE
  BY <1>1, <1>8 DEF Calls, Index, AcceptCheck, Submit, HandBack, store
<1>9. ASSUME NEW p \in Request, Steps(p)
      PROVE  Lost
  <2>1. ~(\/ Load(p) \/ AcquireLock(p) \/ ReadHolder(p) \/ StartDeadline(p)
          \/ Settle(p) \/ Send(p) \/ Wait(p) \/ Unconfirmed(p) \/ Confirm(p) \/ ClearError(p)
          \/ Grant(p) \/ Unlock(p) \/ CheckChain(p))
    BY <1>1 DEF Load, AcquireLock, ReadHolder, StartDeadline, Settle, Send, Wait, Unconfirmed,
                Confirm, ClearError, Grant, Unlock, CheckChain, store
  <2>. QED
    BY <1>2, <1>4, <1>6, <1>9, <2>1, NoHandBack, Processes DEF Steps
<1>10. ASSUME ExpirySweepStep \/ GasSweepStep
       PROVE  Lost
  <2>1. ~(\/ ResyncRead(ExpirySweep) \/ ResyncCompare(ExpirySweep) \/ ResyncWrite(ExpirySweep)
          \/ ListOpen(ExpirySweep) \/ GasList(GasSweep) \/ GasRead(GasSweep) \/ GasChain(GasSweep)
          \/ Receipt(GasSweep) \/ MarkReconciled(GasSweep) \/ Load(GasSweep))
    BY <1>1 DEF ResyncRead, ResyncCompare, ResyncWrite, ListOpen, GasList, GasRead, GasChain, Receipt,
                MarkReconciled, Load, store
  <2>. QED
    BY <1>2, <1>5, <1>7, <1>10, <2>1, Processes DEF ExpirySweepStep, GasSweepStep
<1>11. ~(Escrow \/ ServerClock \/ LapseKey \/ Age \/ LapseLock \/ Crash \/ Restart)
  BY <1>1 DEF Escrow, Mine, Drop, DirectAssign, Cancel, SubmitEvidence, SetChain, BlockLate,
              ServerClock, LapseKey, Age, LapseLock, Crash, Restart, store
<1>. QED
  BY <1>7, <1>8, <1>9, <1>10, <1>11 DEF Next

LEMMA InitKeep == Init => KeepInv
<1>. SUFFICES ASSUME Init PROVE KeepInv
  OBVIOUS
<1>1. /\ state.status = "missing" /\ hLapsed = {}
      /\ \A p \in Process : proc[p] = Idle
  BY DEF Init, Missing
<1>2. /\ Idle.at = "idle" /\ RequestOK(Idle) /\ GasOK(Idle) /\ ExpiryOK(Idle)
      /\ ~Holds(Idle)
  BY EndsOK DEF Idle, Holds, Accepting
<1>3. CourseOK
  BY <1>1, <1>2, Processes DEF CourseOK
<1>4. RecordOK
  BY <1>1, <1>2 DEF RecordOK, At
<1>5. RaceOK
  BY <1>1, <1>2, Processes DEF RaceOK, At, Sweeping
<1>. QED
  BY <1>1, <1>3, <1>4, <1>5 DEF KeepInv

(* As long as nobody hands the task back or lists it twice, and every      *)
(* accept ends within its lock, a task whose assignment may still mine, or *)
(* has mined, is not put back on the board: not by the accept handler that *)
(* saw its settlement fail, not by the sweep that found no assignment, and *)
(* not by a record that updateState read before the task was accepted      *)
(* (tryReleaseAccepted, sweepGasLiveness, updateState).                    *)
THEOREM LiveTxKeepsTaskHolds ==
  ASSUME Undisturbed
  PROVE  Spec => LiveTxKeepsTask
<1>1. Init => LockInv /\ KeepInv
  BY InitLockInv, InitKeep
<1>2. IInv /\ IInv' /\ LockInv /\ KeepInv /\ [Next]_vars => LockInv' /\ KeepInv'
  BY NextLockInv, NextKeep DEF IInv
<1>3. IInv /\ LockInv /\ KeepInv /\ [Next]_vars =>
        [/\ state.status = "accepted" /\ state'.status = "open"
         /\ state.tx # 0 /\ txs[state.tx].st \in {"pool", "mined"}
         => \E p \in Request : proc[p].op \in {"release", "force"} /\ proc'[p] = Idle ]_vars
  BY ReopenedIsLost
<1>. QED
  BY <1>1, <1>2, <1>3, A2AInvariant, PTL DEF Spec, LiveTxKeepsTask

=============================================================================
