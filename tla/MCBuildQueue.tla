---------------------------- MODULE MCBuildQueue ----------------------------
(* BuildQueue with interchangeable projects, for runs without liveness.    *)
EXTENDS BuildQueue

Symmetry == Permutations(Projects)
=============================================================================
