---------------------------- MODULE StateMachine ----------------------------
(***************************************************************************)
(* The states of a session and the edges between them: core/lifecycle.cpp. *)
(***************************************************************************)
State == {"created", "starting", "running", "exited", "failed", "cancelled"}

Terminal == {"exited", "failed", "cancelled"}

is_terminal(s) == s \in Terminal

can_transition(from, to) ==
  CASE from = "created"  -> to \in {"starting", "cancelled"}
    [] from = "starting" -> to \in {"running", "failed", "cancelled"}
    [] from = "running"  -> to \in {"exited", "cancelled", "failed"}
    [] OTHER             -> FALSE

(* Mutant: the transition is made without the check.                       *)
UncheckedTransition(s, to) == to

(* What StateMachine::transition(to) leaves in state_ : a forbidden        *)
(* transition changes nothing.                                             *)
transition(s, to) == IF can_transition(s, to) THEN to ELSE s
=============================================================================
