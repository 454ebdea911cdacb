--------------------------- MODULE MirrorPromise ---------------------------
(***************************************************************************)
(* What the off-chain accounts promise about one escrow task, whoever      *)
(* observes it and in whatever order: a payment to the executor is         *)
(* credited once and stays credited, a failed round or a refund by ruling  *)
(* costs reputation once, and nothing is mirrored that did not happen.     *)
(***************************************************************************)
EXTENDS Naturals

CONSTANT Cause    \* what may cost reputation: a round, or a ruling

VARIABLES paid, failed, earned, docked

promiseVars == <<paid, failed, earned, docked>>

Init == ~paid /\ failed = {} /\ earned = 0 /\ docked = [r \in Cause |-> 0]

(* On the escrow.                                                          *)
Pay == ~paid /\ paid' = TRUE /\ UNCHANGED <<failed, earned, docked>>

Fail(r) ==
  /\ ~paid /\ r \notin failed /\ failed' = failed \cup {r}
  /\ UNCHANGED <<paid, earned, docked>>

(* In the accounts.                                                        *)
Earn == paid /\ earned = 0 /\ earned' = 1 /\ UNCHANGED <<paid, failed, docked>>

Dock(r) ==
  /\ r \in failed /\ docked[r] = 0 /\ docked' = [docked EXCEPT ![r] = 1]
  /\ UNCHANGED <<paid, failed, earned>>

Next == Pay \/ Earn \/ \E r \in Cause : Fail(r) \/ Dock(r)

Spec == Init /\ [][Next]_promiseVars

=============================================================================
