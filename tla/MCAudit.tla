------------------------------- MODULE MCAudit -------------------------------
(* Workers are alike.                                                      *)
EXTENDS AuditTrail, TLC

WorkerSymmetry == Permutations(Workers)
===============================================================================
