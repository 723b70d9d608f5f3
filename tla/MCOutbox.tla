------------------------------ MODULE MCOutbox ------------------------------
(* Model-checking instance of Outbox.                                      *)
EXTENDS Outbox, TLC

WorkerSymmetry == Permutations(Workers)

=============================================================================
