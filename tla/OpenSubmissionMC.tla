-------------------------- MODULE OpenSubmissionMC --------------------------
(* Small instances of OpenSubmission for TLC.                              *)
EXTENDS OpenSubmission, TLC

CONSTANTS s1, s2

(* The first submitter may change its mind, the second sends what cannot   *)
(* be paid.                                                                *)
SendsSmall == (s1 :> {0, 1}) @@ (s2 :> {0})

(* A listed task with the platform as its verifier, after the poster; one *)
(* with another verifier and no review that is not listed here; and one    *)
(* like it that is listed, in a token no total holds.                      *)
TasksSmall ==
  {[listed |-> TRUE, review |-> TRUE, ours |-> TRUE, counted |-> TRUE],
   [listed |-> FALSE, review |-> FALSE, ours |-> FALSE, counted |-> TRUE],
   [listed |-> TRUE, review |-> FALSE, ours |-> FALSE, counted |-> FALSE]}

=============================================================================
