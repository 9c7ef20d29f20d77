------------------------------- MODULE MCQueue -------------------------------
(***************************************************************************)
(* Instances of TransactionQueue for TLC: the processes and the messages    *)
(* are interchangeable in the safety runs.                                  *)
(***************************************************************************)
EXTENDS TransactionQueue, TLC

Symmetry == Permutations(Process) \cup Permutations(Message)

=============================================================================
