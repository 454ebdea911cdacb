---------------------------- MODULE TaskPromise ----------------------------
(***************************************************************************)
(* What the escrow promises about one payment, whatever contract keeps it: *)
(* a payment is offered, somebody may commit to the work and deliver it,   *)
(* and it ends exactly once, either paid for delivered work (less a capped *)
(* fee) or refunded in full.  Time, judges, disputes and pauses are the    *)
(* implementation's business.                                              *)
(***************************************************************************)
EXTENDS Integers

CONSTANTS Id, Bps, MaxFeeBps

VARIABLES stage, amount, received

Stage == {"none", "offered", "committed", "delivered", "paid", "refunded"}
Nothing == [worker |-> 0, fee |-> 0, refund |-> 0]

promiseVars == <<stage, amount, received>>

\* Payments may already be in flight when the observation starts.
Init ==
  /\ stage \in [Id -> Stage \ {"paid", "refunded"}]
  /\ amount \in [Id -> Nat]
  /\ \A id \in Id : amount[id] = 0 <=> stage[id] = "none"
  /\ received = [id \in Id |-> Nothing]

\* One payment, or a batch of them, is locked.
Offer(ids) ==
  /\ ids # {}
  /\ \A id \in ids : stage[id] = "none"
  /\ stage' = [id \in Id |-> IF id \in ids THEN "offered" ELSE stage[id]]
  /\ amount' \in [Id -> Nat]
  /\ \A id \in Id : IF id \in ids THEN amount'[id] > 0 ELSE amount'[id] = amount[id]
  /\ UNCHANGED received

Commit(id) ==
  /\ stage[id] = "offered"
  /\ stage' = [stage EXCEPT ![id] = "committed"]
  /\ UNCHANGED <<amount, received>>

\* A first delivery, by the committed worker or to an open offer.
Deliver(id) ==
  /\ stage[id] \in {"offered", "committed"}
  /\ stage' = [stage EXCEPT ![id] = "delivered"]
  /\ UNCHANGED <<amount, received>>

Pay(id) ==
  /\ stage[id] = "delivered"
  /\ stage' = [stage EXCEPT ![id] = "paid"]
  /\ \E fee \in 0..amount[id] :
       /\ fee * Bps <= amount[id] * MaxFeeBps
       /\ received' = [received EXCEPT ![id] =
                         [worker |-> amount[id] - fee, fee |-> fee, refund |-> 0]]
  /\ UNCHANGED amount

Refund(id) ==
  /\ stage[id] \in {"offered", "committed", "delivered"}
  /\ stage' = [stage EXCEPT ![id] = "refunded"]
  /\ received' = [received EXCEPT ![id] = [Nothing EXCEPT !.refund = amount[id]]]
  /\ UNCHANGED amount

Next ==
  \/ \E ids \in SUBSET Id : Offer(ids)
  \/ \E id \in Id : Commit(id) \/ Deliver(id) \/ Pay(id) \/ Refund(id)

Spec == Init /\ [][Next]_promiseVars

=============================================================================
