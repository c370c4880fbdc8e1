------------------------------ MODULE MCRegistry ------------------------------
(* Workers are alike, and so are version rows.                             *)
EXTENDS Registry, TLC

RegistrySymmetry == Permutations(Requests) \cup Permutations(Versions)
===============================================================================
