----------------------------- MODULE MCBuildQueue -----------------------------
(***************************************************************************)
(* Small instances of BuildQueue for TLC. Workers are interchangeable;     *)
(* symmetry is used in the runs that check no liveness.                    *)
(***************************************************************************)
EXTENDS BuildQueue, TLC

Symmetry == Permutations(Workers)
===============================================================================
