---------------------------- MODULE MCSupervisor ----------------------------
(* Supervisor for TLC: the ids other than the initial process's are        *)
(* interchangeable.                                                        *)
EXTENDS Supervisor, TLC

TidSymmetry == Permutations(Tid \ {Main})
=============================================================================
