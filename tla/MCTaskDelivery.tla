---------------------------- MODULE MCTaskDelivery ----------------------------
(* Instances of TaskDelivery for TLC.                                        *)
EXTENDS TaskDelivery, TLC

CONSTANTS z1, z2

ZipSymmetry == Permutations(Zips)
===============================================================================
