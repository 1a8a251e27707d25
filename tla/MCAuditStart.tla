---------------------------- MODULE MCAuditStart ----------------------------
(* Model-checking instances of AuditStart.  Processes and repositories are interchangeable. *)
EXTENDS AuditStart, TLC

Symmetry == Permutations(Process) \cup Permutations(Repo)
=============================================================================
