--------------------------- MODULE BlindEscrowMC ---------------------------
(***************************************************************************)
(* Instances of BlindEscrow for TLC.  Every number is given in the .cfg,   *)
(* with windows scaled down to one to three ticks: the guards compare      *)
(* times and never do other arithmetic on them, so only the order of the   *)
(* moments matters, and the instances make every order happen.             *)
(***************************************************************************)
EXTENDS BlindEscrow, TLC

CONSTANTS w1, w2   \* two submitters

\* Sound for a safety run whose other constants name both of them or neither.
Submitters == Permutations({w1, w2})

=============================================================================
