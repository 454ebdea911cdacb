-------------------------- MODULE A2ADeliveryMC --------------------------
(* Small instances of A2ADelivery for TLC.                                 *)
EXTENDS A2ADelivery, TLC

(* The backend's request slots are interchangeable.                        *)
Interchangeable == Permutations(Call)

=============================================================================
