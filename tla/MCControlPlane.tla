--------------------------- MODULE MCControlPlane ----------------------------
(* Instances of ControlPlane for TLC.                                        *)
EXTENDS ControlPlane, TLC

CONSTANTS r1, r2

RunnerSymmetry == Permutations(Runners)
==============================================================================
