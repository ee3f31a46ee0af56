--------------------------- MODULE EngineInstance ---------------------------
(***************************************************************************)
(* What core::EngineInstance (core/engine.hpp) promises a session: start() *)
(* returns once the initial exec succeeded or failed, wait() returns when  *)
(* the guest process tree is gone, cancel(reason) ends the tree and the    *)
(* FIRST reason given is the one reported.  The rootless instance is       *)
(* RootlessInstance over Supervisor; module Supervisor implements this     *)
(* specification.                                                          *)
(***************************************************************************)
CONSTANT None            \* "no reason yet" (ExitReason::none)

VARIABLES
  engine,                \* "absent", "idle", "starting", "running", "done"
  start_state,           \* Supervisor::start_state_: what start() waits for
  cancel_reason,         \* Supervisor::cancel_reason_
  engine_result          \* ExitResult::reason that wait() returns

CancelReason == {"timeout", "cancelled"}

GuestEnd == {"normal", "signaled"}

ExitReason == {None, "start_failed"} \cup CancelReason \cup GuestEnd

engineVars == <<engine, start_state, cancel_reason, engine_result>>

EngineTypeOK ==
  /\ engine \in {"absent", "idle", "starting", "running", "done"}
  /\ start_state \in {"pending", "ok", "failed"}
  /\ cancel_reason \in {None} \cup CancelReason
  /\ engine_result \in ExitReason

EngineInit ==
  /\ engine = "absent"
  /\ start_state = "pending"
  /\ cancel_reason = None
  /\ engine_result = None

(* create_instance() handed over an instance; nothing runs yet.            *)
EngineCreate ==
  /\ engine = "absent"
  /\ engine' = "idle"
  /\ UNCHANGED <<start_state, cancel_reason, engine_result>>

(* start() created the supervisor thread.                                  *)
EngineStart ==
  /\ engine = "idle"
  /\ engine' = "starting"
  /\ UNCHANGED <<start_state, cancel_reason, engine_result>>

(* The initial exec succeeded: finish_start(ok).                           *)
EngineExec ==
  /\ engine = "starting" /\ start_state = "pending"
  /\ engine' = "running"
  /\ start_state' = "ok"
  /\ UNCHANGED <<cancel_reason, engine_result>>

(* finish_start(error): preparation failed, or the tree was gone before    *)
(* the exec completed.                                                     *)
EngineStartFails ==
  /\ engine = "starting" /\ start_state = "pending"
  /\ start_state' = "failed"
  /\ UNCHANGED <<engine, cancel_reason, engine_result>>

(* finish(): the tree is gone.  A cancellation that came in time is the    *)
(* reason; preparation failures are start_failed whatever was asked.       *)
EngineEnd(reason) ==
  /\ \/ /\ engine = "running"
        /\ \/ cancel_reason # None /\ reason = cancel_reason
           \/ cancel_reason = None /\ reason \in GuestEnd
     \/ /\ engine = "starting" /\ start_state = "failed"
        /\ reason \in {"start_failed"} \cup ({cancel_reason} \ {None})
  /\ engine' = "done"
  /\ engine_result' = reason
  /\ UNCHANGED <<start_state, cancel_reason>>

(* thread_main's catch: the tree is killed, not waited for.                *)
EngineFault ==
  /\ engine \in {"starting", "running"}
  /\ engine' = "done"
  /\ start_state' = IF start_state = "pending" THEN "failed" ELSE start_state
  /\ engine_result' = "start_failed"
  /\ UNCHANGED cancel_reason

(* cancel(reason): the first reason wins, whenever it comes.               *)
FirstReason(reason) == IF cancel_reason = None THEN reason ELSE cancel_reason

EngineCancel(reason) ==
  /\ engine # "absent"
  /\ cancel_reason' = FirstReason(reason)
  /\ UNCHANGED <<engine, start_state, engine_result>>

EngineOwnStep ==
  \/ EngineExec
  \/ EngineStartFails
  \/ \E r \in ExitReason : EngineEnd(r)
  \/ EngineFault

EngineNext ==
  \/ EngineCreate
  \/ EngineStart
  \/ EngineOwnStep
  \/ \E r \in CancelReason : EngineCancel(r)

EngineSpec == EngineInit /\ [][EngineNext]_engineVars
=============================================================================
