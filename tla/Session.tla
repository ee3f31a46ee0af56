------------------------------ MODULE Session ------------------------------
(***************************************************************************)
(* core::Session (core/session.cpp) as the threads that run it see it: the *)
(* client threads inside start(), cancel() and wait(), the waiter and the  *)
(* watchdog the session creates, and the destructor.  An action is the     *)
(* code between two points where another thread may intervene: a critical  *)
(* section of mu_, one access to the state machine or to                   *)
(* cancel_requested_, one call of the engine instance.                     *)
(***************************************************************************)
EXTENDS StateMachine, EngineInstance

CONSTANTS
  Client,        \* threads of the embedding program that call the session
  HasTimeout     \* cfg.timeout_ms > 0

ASSUME SessionAssumption ==
  /\ HasTimeout \in BOOLEAN
  /\ None \notin {"timeout", "cancelled", "normal", "signaled", "start_failed"}

VARIABLES
  state,             \* sm_.state_
  cancel_requested,  \* cancel_requested_
  result,            \* result_.reason
  pc,                \* pc[c]: where client c is in the session's code
  waiter,            \* where waiter_main is; "none" before the thread exists
  watchdog,          \* where watchdog_main is
  wd_stop,           \* wd_stop_
  got,               \* what waiter_main's raw->wait() returned
  dtor,              \* where ~Session is
  reports            \* <<state, reason>> pairs that wait() calls returned

sessionVars == <<state, cancel_requested, result, pc, waiter, watchdog,
                 wd_stop, got, dtor, reports>>

vars == <<sessionVars, engineVars>>

StartPC == {"start_select", "start_publish", "start_check", "start_engine",
            "start_return", "start_reap", "fail_result", "fail_transition",
            "start_running", "start_recheck", "start_threads",
            "inline_wait", "inline_transition"}

CancelPC == {"cancel_get", "cancel_transition", "cancel_result", "cancel_inst"}

PC == {"idle", "wait", "poll"} \cup StartPC \cup CancelPC

(* Type correctness of every variable of the session and its engine.       *)
TypeOK ==
  /\ EngineTypeOK
  /\ state \in State
  /\ cancel_requested \in BOOLEAN
  /\ result \in ExitReason
  /\ pc \in [Client -> PC]
  /\ waiter \in {"none", "wait", "result", "transition", "stop", "end"}
  /\ watchdog \in {"none", "wait", "fire", "end"}
  /\ wd_stop \in BOOLEAN
  /\ got \in ExitReason
  /\ dtor \in {"none", "join_waiter", "stop_watchdog", "join_watchdog",
               "reset", "end"}
  /\ reports \subseteq (State \X ExitReason)

Init ==
  /\ EngineInit
  /\ state = "created"
  /\ cancel_requested = FALSE
  /\ result = None
  /\ pc = [c \in Client |-> "idle"]
  /\ waiter = "none"
  /\ watchdog = "none"
  /\ wd_stop = FALSE
  /\ got = None
  /\ dtor = "none"
  /\ reports = {}

-----------------------------------------------------------------------------
(* Client c moves from one point of the code to another.                   *)
Goto(c, from, to) ==
  /\ pc[c] = from
  /\ pc' = [pc EXCEPT ![c] = to]

(* vhdp_session_destroy must not race with any other call (vhdp.h): a call *)
(* begins only while the destructor has not.                               *)
Call(c, to) ==
  /\ dtor = "none"
  /\ Goto(c, "idle", to)

InStart(c) == pc[c] \in StartPC

(* raw->wait() would return r: the supervisor thread is done, or was never *)
(* started.                                                                *)
EngineWait(r) ==
  \/ engine = "done" /\ r = engine_result
  \/ engine = "idle" /\ r = "start_failed"

-----------------------------------------------------------------------------
(* Session::start().  start_mu_ is held to the end of the call, so a       *)
(* second start() begins only when nobody is inside; it is refused by      *)
(* the state machine.                                                      *)
StartBegin(c) ==
  /\ \A d \in Client : ~InStart(d)
  /\ can_transition(state, "starting")
  /\ Call(c, "start_select")
  /\ state' = "starting"
  /\ UNCHANGED <<engineVars, cancel_requested, result, waiter, watchdog,
                 wd_stop, got, dtor, reports>>

(* select_engine and create_instance.                                      *)
StartSelect(c) ==
  /\ \/ Goto(c, "start_select", "start_publish")
     \/ Goto(c, "start_select", "fail_result")
  /\ UNCHANGED <<engineVars, state, cancel_requested, result, waiter,
                 watchdog, wd_stop, got, dtor, reports>>

(* inst_ = the new instance, under mu_: cancel() can reach it from here on. *)
StartPublish(c) ==
  /\ Goto(c, "start_publish", "start_check")
  /\ EngineCreate
  /\ UNCHANGED <<state, cancel_requested, result, waiter, watchdog, wd_stop,
                 got, dtor, reports>>

(* raw->cancel(cancelled) if a cancellation was requested.                 *)
CancelIfRequested ==
  IF cancel_requested
  THEN EngineCancel("cancelled")
  ELSE UNCHANGED engineVars

StartCheck(c) ==
  /\ Goto(c, "start_check", "start_engine")
  /\ CancelIfRequested
  /\ UNCHANGED <<state, cancel_requested, result, waiter, watchdog, wd_stop,
                 got, dtor, reports>>

(* raw->start(): an early refusal (SIGCHLD ignored, no PTY, no thread), or *)
(* the supervisor thread runs and start() blocks on start_state_.          *)
StartEngine(c) ==
  /\ \/ Goto(c, "start_engine", "start_reap") /\ UNCHANGED engineVars
     \/ Goto(c, "start_engine", "start_return") /\ EngineStart
  /\ UNCHANGED <<state, cancel_requested, result, waiter, watchdog, wd_stop,
                 got, dtor, reports>>

(* raw->start() returns.  When the output pump of the PTY cannot be        *)
(* started, a guest that already runs is cancelled and an error returned.  *)
StartReturn(c) ==
  /\ \/ /\ start_state = "ok"
        /\ Goto(c, "start_return", "start_running")
        /\ UNCHANGED engineVars
     \/ /\ start_state = "ok"
        /\ Goto(c, "start_return", "start_reap")
        /\ EngineCancel("cancelled")
     \/ /\ start_state = "failed"
        /\ Goto(c, "start_return", "start_reap")
        /\ UNCHANGED engineVars
  /\ UNCHANGED <<state, cancel_requested, result, waiter, watchdog, wd_stop,
                 got, dtor, reports>>

(* Mutant: a failed start() does not wait for the tree it launched.        *)
StartReapNoWait(c) ==
  /\ Goto(c, "start_reap", "fail_result")
  /\ UNCHANGED <<engineVars, state, cancel_requested, result, waiter,
                 watchdog, wd_stop, got, dtor, reports>>

(* The failed start's raw->wait(); fail_start() overwrites its reason.     *)
StartReap(c) ==
  /\ \E r \in ExitReason : EngineWait(r)
  /\ Goto(c, "start_reap", "fail_result")
  /\ UNCHANGED <<engineVars, state, cancel_requested, result, waiter,
                 watchdog, wd_stop, got, dtor, reports>>

(* fail_start(): result_ under mu_, then the terminal transition.          *)
FailResult(c) ==
  /\ Goto(c, "fail_result", "fail_transition")
  /\ result' = "start_failed"
  /\ UNCHANGED <<engineVars, state, cancel_requested, waiter, watchdog,
                 wd_stop, got, dtor, reports>>

FailTransition(c) ==
  /\ Goto(c, "fail_transition", "idle")
  /\ state' = transition(state, IF cancel_requested THEN "cancelled" ELSE "failed")
  /\ UNCHANGED <<engineVars, cancel_requested, result, waiter, watchdog,
                 wd_stop, got, dtor, reports>>

(* transition(running); refused when a cancel() has already made the       *)
(* session cancelled, and then the guest is cancelled.                     *)
StartRunning(c) ==
  /\ Goto(c, "start_running", "start_recheck")
  /\ state' = transition(state, "running")
  /\ IF can_transition(state, "running")
     THEN UNCHANGED engineVars
     ELSE EngineCancel("cancelled")
  /\ UNCHANGED <<cancel_requested, result, waiter, watchdog, wd_stop, got,
                 dtor, reports>>

StartRecheck(c) ==
  /\ Goto(c, "start_recheck", "start_threads")
  /\ CancelIfRequested
  /\ UNCHANGED <<state, cancel_requested, result, waiter, watchdog, wd_stop,
                 got, dtor, reports>>

(* Mutant: the guest is not cancelled when a thread cannot be created.     *)
StartThreadsNoCancel(c) ==
  /\ \/ /\ Goto(c, "start_threads", "idle")
        /\ waiter' = "wait"
        /\ watchdog' \in {"none", IF HasTimeout THEN "wait" ELSE "none"}
     \/ /\ Goto(c, "start_threads", "inline_wait")
        /\ UNCHANGED <<waiter, watchdog>>
  /\ UNCHANGED <<engineVars, state, cancel_requested, result, wd_stop, got,
                 dtor, reports>>

(* Both threads are created; or std::thread throws for one of them, and    *)
(* the guest is cancelled.  Without a waiter the call waits itself.        *)
StartThreads(c) ==
  /\ \/ /\ Goto(c, "start_threads", "idle")
        /\ waiter' = "wait"
        /\ watchdog' = IF HasTimeout THEN "wait" ELSE "none"
        /\ UNCHANGED engineVars
     \/ /\ HasTimeout
        /\ Goto(c, "start_threads", "idle")
        /\ waiter' = "wait"
        /\ EngineCancel("cancelled")
        /\ UNCHANGED watchdog
     \/ /\ Goto(c, "start_threads", "inline_wait")
        /\ EngineCancel("cancelled")
        /\ UNCHANGED <<waiter, watchdog>>
  /\ UNCHANGED <<state, cancel_requested, result, wd_stop, got, dtor, reports>>

InlineWait(c) ==
  /\ \E r \in ExitReason : EngineWait(r) /\ result' = r
  /\ Goto(c, "inline_wait", "inline_transition")
  /\ UNCHANGED <<engineVars, state, cancel_requested, waiter, watchdog,
                 wd_stop, got, dtor, reports>>

InlineTransition(c) ==
  /\ Goto(c, "inline_transition", "idle")
  /\ state' = transition(state, "failed")
  /\ UNCHANGED <<engineVars, cancel_requested, result, waiter, watchdog,
                 wd_stop, got, dtor, reports>>

-----------------------------------------------------------------------------
(* Session::cancel().  The state is read first and the transition asked    *)
(* for later: in between, start() may have left "created".                 *)
CancelBegin(c) ==
  /\ Call(c, "cancel_get")
  /\ cancel_requested' = TRUE
  /\ UNCHANGED <<engineVars, state, result, waiter, watchdog, wd_stop, got,
                 dtor, reports>>

CancelGet(c) ==
  /\ Goto(c, "cancel_get",
          IF state = "created" THEN "cancel_transition" ELSE "cancel_inst")
  /\ UNCHANGED <<engineVars, state, cancel_requested, result, waiter,
                 watchdog, wd_stop, got, dtor, reports>>

CancelTransition(c) ==
  /\ Goto(c, "cancel_transition",
          IF can_transition(state, "cancelled") THEN "cancel_result"
                                                ELSE "cancel_inst")
  /\ state' = transition(state, "cancelled")
  /\ UNCHANGED <<engineVars, cancel_requested, result, waiter, watchdog,
                 wd_stop, got, dtor, reports>>

CancelResult(c) ==
  /\ Goto(c, "cancel_result", "idle")
  /\ result' = "cancelled"
  /\ UNCHANGED <<engineVars, state, cancel_requested, waiter, watchdog,
                 wd_stop, got, dtor, reports>>

(* Mutant: the cancellation does not reach the instance.                   *)
CancelInstNot(reason) == UNCHANGED engineVars

(* if (inst_) inst_->cancel(reason), under mu_.                            *)
CancelInst(reason) ==
  IF engine = "absent" THEN UNCHANGED engineVars ELSE EngineCancel(reason)

CancelReach(c) ==
  /\ Goto(c, "cancel_inst", "idle")
  /\ CancelInst("cancelled")
  /\ UNCHANGED <<state, cancel_requested, result, waiter, watchdog, wd_stop,
                 got, dtor, reports>>

-----------------------------------------------------------------------------
(* Session::wait(), which vhdp_session_wait calls only once the session    *)
(* has left "created"; "poll" is a call with a finite timeout.             *)
WaitBegin(c) ==
  /\ state # "created"
  /\ \E mode \in {"wait", "poll"} : Call(c, mode)
  /\ UNCHANGED <<engineVars, state, cancel_requested, result, waiter,
                 watchdog, wd_stop, got, dtor, reports>>

(* Mutant: result_ is handed out as it is.                                 *)
ReportedRaw == result

(* The reason a wait() that found the state terminal hands out.            *)
Reported == IF state = "cancelled" /\ result = None THEN "cancelled" ELSE result

(* Mutant: state and reason are swapped on their way out.                  *)
WaitReturnSwapped(c) ==
  /\ is_terminal(state)
  /\ \E mode \in {"wait", "poll"} : Goto(c, mode, "idle")
  /\ reports' = reports \cup {<<Reported, state>>}
  /\ UNCHANGED <<engineVars, state, cancel_requested, result, waiter,
                 watchdog, wd_stop, got, dtor>>

WaitReturn(c) ==
  /\ is_terminal(state)
  /\ \E mode \in {"wait", "poll"} : Goto(c, mode, "idle")
  /\ reports' = reports \cup {<<state, Reported>>}
  /\ UNCHANGED <<engineVars, state, cancel_requested, result, waiter,
                 watchdog, wd_stop, got, dtor>>

WaitTimeout(c) ==
  /\ ~is_terminal(state)
  /\ Goto(c, "poll", "idle")
  /\ UNCHANGED <<engineVars, state, cancel_requested, result, waiter,
                 watchdog, wd_stop, got, dtor, reports>>

-----------------------------------------------------------------------------
(* waiter_main().  The terminal state that a reason stands for.            *)
TerminalOf(r) ==
  CASE r \in CancelReason           -> "cancelled"
    [] r \in {"start_failed", None} -> "failed"
    [] OTHER                        -> "exited"

(* Mutant: the terminal state is announced before the result is stored.    *)
WaiterWaitAnnounces ==
  /\ waiter = "wait"
  /\ \E r \in ExitReason :
       /\ EngineWait(r) /\ got' = r
       /\ state' = transition(state, TerminalOf(r))
  /\ waiter' = "result"
  /\ UNCHANGED <<engineVars, cancel_requested, result, pc, watchdog, wd_stop,
                 dtor, reports>>

WaiterWait ==
  /\ waiter = "wait"
  /\ \E r \in ExitReason : EngineWait(r) /\ got' = r
  /\ waiter' = "result"
  /\ UNCHANGED <<engineVars, state, cancel_requested, result, pc, watchdog,
                 wd_stop, dtor, reports>>

WaiterResult ==
  /\ waiter = "result"
  /\ waiter' = "transition"
  /\ result' = got
  /\ UNCHANGED <<engineVars, state, cancel_requested, pc, watchdog, wd_stop,
                 got, dtor, reports>>

WaiterTransition ==
  /\ waiter = "transition"
  /\ waiter' = "stop"
  /\ state' = transition(state, TerminalOf(got))
  /\ UNCHANGED <<engineVars, cancel_requested, result, pc, watchdog, wd_stop,
                 got, dtor, reports>>

WaiterStop ==
  /\ waiter = "stop"
  /\ waiter' = "end"
  /\ wd_stop' = TRUE
  /\ UNCHANGED <<engineVars, state, cancel_requested, result, pc, watchdog,
                 got, dtor, reports>>

(* watchdog_main(): wait_for with the predicate wd_stop_.  Time is not     *)
(* modelled: the timeout may expire at any moment the predicate is false.  *)
(* Mutant: any wakeup counts as a stop.                                    *)
WatchdogStoppedSpuriously ==
  /\ watchdog = "wait"
  /\ watchdog' = "end"
  /\ UNCHANGED <<engineVars, state, cancel_requested, result, pc, waiter,
                 wd_stop, got, dtor, reports>>

WatchdogStopped ==
  /\ watchdog = "wait" /\ wd_stop
  /\ watchdog' = "end"
  /\ UNCHANGED <<engineVars, state, cancel_requested, result, pc, waiter,
                 wd_stop, got, dtor, reports>>

WatchdogExpires ==
  /\ watchdog = "wait" /\ ~wd_stop
  /\ watchdog' = "fire"
  /\ UNCHANGED <<engineVars, state, cancel_requested, result, pc, waiter,
                 wd_stop, got, dtor, reports>>

WatchdogFire ==
  /\ watchdog = "fire"
  /\ watchdog' = "end"
  /\ CancelInst("timeout")
  /\ UNCHANGED <<state, cancel_requested, result, pc, waiter, wd_stop, got,
                 dtor, reports>>

-----------------------------------------------------------------------------
(* ~Session().  No other call is in progress.                              *)
DtorBegin ==
  /\ dtor = "none" /\ \A c \in Client : pc[c] = "idle"
  /\ dtor' = "join_waiter"
  /\ IF state = "created" \/ is_terminal(state)
     THEN /\ state' = IF state = "created" THEN "cancelled" ELSE state
          /\ UNCHANGED <<engineVars, cancel_requested>>
     ELSE /\ cancel_requested' = TRUE
          /\ CancelInst("cancelled")
          /\ UNCHANGED state
  /\ UNCHANGED <<result, pc, waiter, watchdog, wd_stop, got, reports>>

DtorJoinWaiter ==
  /\ dtor = "join_waiter" /\ waiter \in {"none", "end"}
  /\ dtor' = "stop_watchdog"
  /\ UNCHANGED <<engineVars, state, cancel_requested, result, pc, waiter,
                 watchdog, wd_stop, got, reports>>

DtorStopWatchdog ==
  /\ dtor = "stop_watchdog"
  /\ dtor' = "join_watchdog"
  /\ wd_stop' = TRUE
  /\ UNCHANGED <<engineVars, state, cancel_requested, result, pc, waiter,
                 watchdog, got, reports>>

(* Mutant: the watchdog is told to stop but not joined.                    *)
DtorJoinWatchdogNot ==
  /\ dtor = "join_watchdog"
  /\ dtor' = "reset"
  /\ UNCHANGED <<engineVars, state, cancel_requested, result, pc, waiter,
                 watchdog, wd_stop, got, reports>>

DtorJoinWatchdog ==
  /\ dtor = "join_watchdog" /\ watchdog \in {"none", "end"}
  /\ dtor' = "reset"
  /\ UNCHANGED <<engineVars, state, cancel_requested, result, pc, waiter,
                 watchdog, wd_stop, got, reports>>

(* inst_.reset(): ~Supervisor joins its thread if nobody has; then the     *)
(* context's live_sessions count drops.                                    *)
DtorReset ==
  /\ dtor = "reset"
  /\ engine \in {"absent", "idle", "done"}
  /\ dtor' = "end"
  /\ UNCHANGED <<engineVars, state, cancel_requested, result, pc, waiter,
                 watchdog, wd_stop, got, reports>>

-----------------------------------------------------------------------------
(* The supervisor thread advances on its own.                              *)
EngineStep == EngineOwnStep /\ UNCHANGED sessionVars

StartStep(c) ==
  \/ StartSelect(c) \/ StartPublish(c) \/ StartCheck(c) \/ StartEngine(c)
  \/ StartReturn(c) \/ StartReap(c) \/ FailResult(c) \/ FailTransition(c)
  \/ StartRunning(c) \/ StartRecheck(c) \/ StartThreads(c)
  \/ InlineWait(c) \/ InlineTransition(c)

CancelStep(c) ==
  CancelGet(c) \/ CancelTransition(c) \/ CancelResult(c) \/ CancelReach(c)

ClientStep(c) == StartStep(c) \/ CancelStep(c) \/ WaitReturn(c) \/ WaitTimeout(c)

WaiterStep == WaiterWait \/ WaiterResult \/ WaiterTransition \/ WaiterStop

WatchdogStep == WatchdogStopped \/ WatchdogExpires \/ WatchdogFire

DtorStep ==
  DtorJoinWaiter \/ DtorStopWatchdog \/ DtorJoinWatchdog \/ DtorReset

(* The session object is gone; nothing is left to do.                      *)
Finished == dtor = "end" /\ UNCHANGED vars

Next ==
  \/ \E c \in Client : StartBegin(c) \/ CancelBegin(c) \/ WaitBegin(c)
  \/ \E c \in Client : ClientStep(c)
  \/ WaiterStep
  \/ WatchdogStep
  \/ DtorBegin
  \/ DtorStep
  \/ EngineStep
  \/ Finished

Spec == Init /\ [][Next]_vars

(* Threads that can run are scheduled; the timeout elapses; a launch       *)
(* completes one way or the other; and a tree that got SIGKILL ends.       *)
(* Nothing makes a guest that nobody cancelled end, and nothing makes the  *)
(* embedding program call anything.                                        *)
EngineLaunch ==
  /\ engine = "starting"
  /\ EngineStep

EngineKilled ==
  /\ cancel_reason # None
  /\ EngineStep

Fairness ==
  /\ \A c \in Client : WF_vars(ClientStep(c))
  /\ WF_vars(WaiterStep)
  /\ WF_vars(WatchdogStep)
  /\ WF_vars(DtorStep)
  /\ WF_vars(EngineLaunch)
  /\ WF_vars(EngineKilled)

FairSpec == Spec /\ Fairness

-----------------------------------------------------------------------------
(* No task of the guest is left to the session's engine: there was no      *)
(* engine, it never started one, or it saw the end of the tree.            *)
EngineGone == engine \in {"absent", "idle", "done"}

(* vhdp.h: vhdp_session_wait "Returns VHDP_E_TIMEOUT if still running".   *)
(* So when a wait() has returned an outcome, the guest is gone.            *)
ReportedMeansGone == reports # {} => EngineGone

(* What the code does guarantee of that: "exited" and "failed" are never   *)
(* announced before the process tree is gone, and "cancelled" while a tree *)
(* may be left only as long as start() or the waiter is still on to it.    *)
EndedMeansGone ==
  /\ state \in {"exited", "failed"} => EngineGone
  /\ is_terminal(state) /\ waiter # "wait" /\ (\A c \in Client : ~InStart(c))
       => EngineGone

(* Every wait() hands out an outcome that fits: a reason is given; "exited" *)
(* carries the guest's own end and "cancelled" never does; a timeout is    *)
(* reported only after the watchdog fired; and after "exited" or "failed"  *)
(* every wait() gives the same answer.                                     *)
ReportsFit ==
  \A rep \in reports :
    /\ rep[2] # None
    /\ rep[1] = "exited" => rep[2] \in GuestEnd
    /\ rep[1] = "cancelled" => rep[2] \notin GuestEnd
    /\ rep[2] = "timeout" => HasTimeout /\ watchdog = "end"
    /\ rep[1] \in {"exited", "failed"} => reports = {rep}

(* vhdp.h: "No session callback is invoked after vhdp_session_destroy      *)
(* returns": when ~Session releases the instance, no thread of the session *)
(* or of its engine is left that could call back or touch it.              *)
NothingOutlivesDestroy ==
  dtor \in {"reset", "end"} =>
    /\ waiter \in {"none", "end"}
    /\ watchdog \in {"none", "end"}
    /\ EngineGone

(* Once a session has exited or failed, its state and its result are final, *)
(* whatever late cancel(), timeout or destructor comes.                    *)
OutcomeFinal ==
  [][(state \in {"exited", "failed"}) => UNCHANGED <<state, result>>]_vars

(* Somebody wants the session to end: cancel(), the watchdog, ~Session.    *)
StopAsked == cancel_requested \/ cancel_reason # None \/ dtor # "none"

L == INSTANCE Lifecycle WITH stopAsked <- StopAsked

(* The session implements the lifecycle diagram of core/lifecycle.hpp: it  *)
(* moves along its edges only, and is cancelled only when that was asked.  *)
ImplementsLifecycle == L!LifecycleSpec

(* A requested cancellation always ends the session, however it interleaves *)
(* with start(), the waiter, the watchdog and other cancellations.         *)
CancelTerminates == cancel_requested ~> is_terminal(state)

(* A running session with a timeout always ends, even if the guest never   *)
(* exits and nobody calls anything.                                        *)
TimeoutTerminates == HasTimeout /\ state = "running" ~> is_terminal(state)

(* start() and cancel() always return, and so does the destructor: no      *)
(* thread waits for another that waits for it.                             *)
CallsReturn ==
  /\ \A c \in Client : pc[c] \in StartPC \cup CancelPC ~> pc[c] = "idle"
  /\ dtor # "none" ~> dtor = "end"
=============================================================================
