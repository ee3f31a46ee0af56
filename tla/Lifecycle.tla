----------------------------- MODULE Lifecycle -----------------------------
(***************************************************************************)
(* The promise of the diagram at the top of core/lifecycle.hpp: which edges *)
(* exist, which states are final, and what must have been asked for before *)
(* a session is reported cancelled.  Session implements this specification. *)
(***************************************************************************)
EXTENDS StateMachine

VARIABLES state,       \* StateMachine::state_
          stopAsked    \* somebody asked for the end: cancel, timeout, destroy

lifecycleVars == <<state, stopAsked>>

LifecycleInit == state = "created" /\ stopAsked = FALSE

AskStop == stopAsked' = TRUE /\ UNCHANGED state

(* One edge of the diagram; the ones into "cancelled" are labelled timeout, *)
(* cancel or destroy (destroy asks and moves in one step).                 *)
Edge(to) ==
  /\ can_transition(state, to)
  /\ state' = to
  /\ stopAsked' \in {stopAsked, TRUE}
  /\ to = "cancelled" => stopAsked'

LifecycleNext == AskStop \/ \E to \in State : Edge(to)

LifecycleSpec == LifecycleInit /\ [][LifecycleNext]_lifecycleVars
=============================================================================
