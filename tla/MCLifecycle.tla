---------------------------- MODULE MCLifecycle ----------------------------
(***************************************************************************)
(* Lifecycle with three openers, who are interchangeable, three probes and *)
(* two minors: a drive that is removed while it is open, another one bound *)
(* meanwhile, and a probe that finds its minor taken.                      *)
(***************************************************************************)
EXTENDS Lifecycle, TLC

CONSTANTS o1, o2, o3

MCOpeners == {o1, o2, o3}
OpenerSymmetry == Permutations(MCOpeners)
=============================================================================
