----------------------------- MODULE MCRegistry -----------------------------
(* Instances of Registry: one repository, interchangeable commands.        *)
EXTENDS Registry, TLC

CONSTANTS g1

MCGroupOf == [d \in Dirs |-> g1]

Symmetry == Permutations(Procs) \cup Permutations(Dirs) \cup Permutations(Paths)
=============================================================================
