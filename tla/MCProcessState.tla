--------------------------- MODULE MCProcessState ---------------------------
(* ProcessState for TLC.                                                   *)
EXTENDS ProcessState

(* One call of each shape and outcome: drop for good, drop and keep the    *)
(* saved id, swap, take back, set -1.  Which calls have the kernel's       *)
(* effect is theorem EmulationIsKernels.                                   *)
DropAndTakeBack ==
  {[call |-> "setid", x |-> x] : x \in {0, 1, Keep}}
    \cup {[call |-> "setfsid", x |-> 1]}
    \cup {[call |-> "setreid", r |-> k[1], e |-> k[2]] :
             k \in {<<Keep, 0>>, <<Keep, 1>>, <<1, 0>>}}
    \cup {[call |-> "setresid", r |-> k[1], e |-> k[2], s |-> k[3]] :
             k \in {<<1, 1, Keep>>, <<1, 1, 1>>, <<0, 0, 0>>}}

OneGid == {[call |-> "setid", x |-> x] : x \in {0, Keep}}
=============================================================================
