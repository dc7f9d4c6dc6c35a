----------------------------- MODULE MCMailCache -----------------------------
(* An instance of MailCache for TLC. *)
EXTENDS MailCache, TLC

\* Processes are interchangeable: they run the same program on the same message.
ProcSymmetry == Permutations(Procs)
=============================================================================
