---------------------------- MODULE MCAuditWriter -----------------------------
(* AuditWriter for TLC: the calls are interchangeable.                     *)
EXTENDS AuditWriter, TLC

Symmetry == Permutations(Calls)
================================================================================
