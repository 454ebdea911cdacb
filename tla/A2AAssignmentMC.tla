-------------------------- MODULE A2AAssignmentMC --------------------------
(* Small instances of A2AAssignment for TLC.                               *)
EXTENDS A2AAssignment, TLC

(* Agents are interchangeable, and so are the backend's request slots.     *)
Interchangeable == Permutations(Worker) \cup Permutations(Request)

=============================================================================
