----------------------------- MODULE MCAuditJobs -----------------------------
(* Model-checking AuditJobs: what TLC needs beside the specification.       *)
EXTENDS AuditJobs, TLC

(* Jobs and workers are told apart by nothing: safety runs may permute them. *)
Symmetry == Permutations(Jobs) \cup Permutations(Workers)
=============================================================================
