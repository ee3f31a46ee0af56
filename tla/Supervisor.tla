----------------------------- MODULE Supervisor -----------------------------
(***************************************************************************)
(* The process-tree half of rootless::Supervisor                           *)
(* (engines/rootless/supervisor.cpp): launch, the waitpid loop's fork,     *)
(* exec and exit handling, the tables of tasks, cancellation from other    *)
(* threads, and the verdict.  One action is one handler run by the         *)
(* supervisor thread, or one critical section of known_mu_ in a            *)
(* cancelling thread; the kernel (GuestTasks) interleaves with both.       *)
(* What the handlers do to system calls is not in this module.             *)
(***************************************************************************)
EXTENDS GuestTasks, FiniteSets, Naturals

CONSTANTS
  None,          \* ExitReason::none
  Main,          \* main_pid_: the initial process's id
  Threads,       \* guests create threads, not only processes
  kMaxExited     \* capacity of exited_ before it is cleared (4096)

ASSUME SupervisorAssumption ==
  /\ Main \in Tid
  /\ Threads \in BOOLEAN
  /\ kMaxExited \in Nat \ {0}
  /\ None \notin {"timeout", "cancelled", "normal", "signaled", "start_failed"}

VARIABLES
  sup,           \* where the supervisor thread is
  cur,           \* the id waitpid just reported as exited (sup = "exit")
  tracees,       \* keys of tracees_
  known,         \* known_
  exited,        \* exited_
  main_exited,   \* main_exited_
  main_exit,     \* main_exit_.reason
  start_state,   \* start_state_
  cancel_reason, \* cancel_reason_
  cancelling,    \* reasons of cancel() calls that have not yet killed
  verdict        \* the reason finish() will publish or has published

supVars == <<sup, cur, tracees, known, exited, main_exited, main_exit,
             start_state, cancel_reason, cancelling, verdict>>

vars == <<taskVars, supVars>>

CancelReason == {"timeout", "cancelled"}

GuestEnd == {"normal", "signaled"}

(* Type correctness of the supervisor's tables and of the kernel's.        *)
TypeOK ==
  /\ TasksTypeOK
  /\ sup \in {"absent", "idle", "prepare", "known", "seize", "seize_reap", "loop",
              "exit", "fail_start", "finish", "end"}
  /\ cur \in Tid
  /\ tracees \subseteq Tid
  /\ known \subseteq Tid
  /\ exited \subseteq Tid
  /\ main_exited \in BOOLEAN
  /\ main_exit \in {None} \cup GuestEnd
  /\ start_state \in {"pending", "ok", "failed"}
  /\ cancel_reason \in {None} \cup CancelReason
  /\ cancelling \subseteq CancelReason
  /\ verdict \in {None, "start_failed"} \cup CancelReason \cup GuestEnd

Init ==
  /\ TasksInit
  /\ sup = "absent"
  /\ cur = Main
  /\ tracees = {}
  /\ known = {}
  /\ exited = {}
  /\ main_exited = FALSE
  /\ main_exit = None
  /\ start_state = "pending"
  /\ cancel_reason = None
  /\ cancelling = {}
  /\ verdict = None

-----------------------------------------------------------------------------
(* Mutant: a task that is added late is not killed.                        *)
GetOrAddNoKill(ids) ==
  /\ tracees' = tracees \cup ids
  /\ known' = known \cup ids
  /\ UNCHANGED killed

(* get_or_add() for every id of ids: the new ones enter both tables, and   *)
(* get SIGKILL at once after a cancellation or the end of the initial      *)
(* process (the check and the insertion are one section of known_mu_).     *)
get_or_add(ids) ==
  /\ tracees' = tracees \cup ids
  /\ known' = known \cup ids
  /\ killed' = IF cancel_reason # None \/ main_exited
               THEN Kill(ids \ tracees)
               ELSE killed

-----------------------------------------------------------------------------
(* The constructor.                                                        *)
Create ==
  /\ sup = "absent"
  /\ sup' = "idle"
  /\ UNCHANGED <<taskVars, cur, tracees, known, exited, main_exited,
                 main_exit, start_state, cancel_reason, cancelling, verdict>>

(* start(): the supervisor thread exists.                                  *)
Start ==
  /\ sup = "idle"
  /\ sup' = "prepare"
  /\ UNCHANGED <<taskVars, cur, tracees, known, exited, main_exited,
                 main_exit, start_state, cancel_reason, cancelling, verdict>>

(* A fail(...) of prepare_and_spawn: finish_start(error); finish() is next. *)
FailStart ==
  /\ start_state' = "failed"
  /\ verdict' = "start_failed"
  /\ sup' = "finish"

PrepareFails ==
  /\ sup = "prepare"
  /\ FailStart
  /\ UNCHANGED <<taskVars, cur, tracees, known, exited, main_exited,
                 main_exit, cancel_reason, cancelling>>

(* vhdp_bootstrap_spawn: the child runs up to its wait for the sync byte.  *)
Spawn ==
  /\ sup = "prepare"
  /\ sup' = "known"
  /\ task' = [task EXCEPT ![Main] = "boot"]
  /\ UNCHANGED <<group, stopped_at, stop_msg, killed, cur, tracees, known,
                 exited, main_exited, main_exit, start_state, cancel_reason,
                 cancelling, verdict>>

(* Mutant: a main_pid_ of -1 enters known_.                                *)
MainKnownUnchecked ==
  /\ sup = "known"
  /\ sup' = "seize"
  /\ known' = known \cup {None}
  /\ UNCHANGED <<taskVars, cur, tracees, exited, main_exited, main_exit,
                 start_state, cancel_reason, cancelling, verdict>>

(* main_pid_ enters known_, without a look at cancel_reason_.              *)
MainKnown ==
  /\ sup = "known"
  /\ sup' = "seize"
  /\ known' = known \cup {Main}
  /\ UNCHANGED <<taskVars, cur, tracees, exited, main_exited, main_exit,
                 start_state, cancel_reason, cancelling, verdict>>

(* Mutant: the child is killed but not waited for.                         *)
SeizeFailsNoReap ==
  /\ sup = "seize"
  /\ FailStart
  /\ killed' = Kill({Main})
  /\ known' = known \ {Main}
  /\ UNCHANGED <<task, group, stopped_at, stop_msg, cur, tracees, exited,
                 main_exited, main_exit, cancel_reason, cancelling>>

(* PTRACE_SEIZE refused (or the child is dead): kill it and wait for it.   *)
SeizeFails ==
  /\ sup = "seize"
  /\ sup' = "seize_reap"
  /\ killed' = Kill({Main})
  /\ UNCHANGED <<task, group, stopped_at, stop_msg, cur, tracees, known,
                 exited, main_exited, main_exit, start_state, cancel_reason,
                 cancelling, verdict>>

SeizeReap ==
  /\ sup = "seize_reap"
  /\ Collect(Main)
  /\ known' = known \ {Main}
  /\ FailStart
  /\ UNCHANGED <<cur, tracees, exited, main_exited, main_exit, cancel_reason,
                 cancelling>>

(* Seized: get_or_add(main), then the sync byte lets the bootstrap go on.  *)
Seize ==
  /\ sup = "seize" /\ task[Main] = "boot"
  /\ sup' = "loop"
  /\ get_or_add({Main})
  /\ Continue(Main)
  /\ UNCHANGED <<cur, exited, main_exited, main_exit, start_state,
                 cancel_reason, cancelling, verdict>>

-----------------------------------------------------------------------------
(* waitpid reports a stop of p: handle_stop().                             *)
Stop(p, kind) ==
  /\ sup = "loop"
  /\ task[p] = "stop" /\ stopped_at[p] = kind
  /\ Continue(p)
  /\ UNCHANGED <<sup, cur, main_exited, main_exit, cancel_reason, cancelling,
                 verdict>>

(* The initial stop of an auto-attached task.                              *)
StopInit(p) ==
  /\ Stop(p, "init")
  /\ get_or_add({p})
  /\ UNCHANGED <<exited, start_state>>

(* platform::process_state(q) is '\0', 'Z' or 'X'.                         *)
Gone(q) == task[q] \in {"free", "dead"}

(* Mutant: the child of the event is added without asking whether it lives. *)
StopForkAlways(p) ==
  /\ Stop(p, "fork")
  /\ get_or_add({p, stop_msg[p]})
  /\ exited' = exited \ {stop_msg[p]}
  /\ UNCHANGED start_state

(* A fork, vfork or clone event, which may come after the child's own      *)
(* stops and even after its exit.                                          *)
StopFork(p) ==
  LET child == stop_msg[p]
      gone  == child \in exited /\ child \notin tracees \cup {p} /\ Gone(child)
  IN /\ Stop(p, "fork")
     /\ get_or_add({p} \cup (IF gone THEN {} ELSE {child}))
     /\ exited' = IF gone THEN exited ELSE exited \ {child}
     /\ UNCHANGED start_state

(* An exec event: the former id of a thread that was not the leader is     *)
(* dropped; the bootstrap's exec is the successful start.                  *)
StopExec(p) ==
  LET old == stop_msg[p]
      dropped == {old} \ {p}
  IN /\ Stop(p, "exec")
     /\ tracees' = (tracees \cup {p}) \ dropped
     /\ known' = (known \cup {p}) \ dropped
     /\ killed' = IF cancel_reason # None \/ main_exited
                  THEN Kill({p} \ tracees)
                  ELSE killed
     /\ start_state' = IF p = Main /\ start_state = "pending" THEN "ok"
                                                              ELSE start_state
     /\ UNCHANGED exited

(* waitpid reports (and collects) an exit; the id is free from here on.    *)
CollectExit(p) ==
  /\ sup = "loop"
  /\ Collect(p)
  /\ sup' = "exit"
  /\ cur' = p
  /\ UNCHANGED <<tracees, known, exited, main_exited, main_exit, start_state,
                 cancel_reason, cancelling, verdict>>

(* Mutant: the initial process's exit leaves the others running.           *)
HandleExitNoKill ==
  /\ sup = "exit"
  /\ sup' = "loop"
  /\ exited' = (IF Cardinality(exited) >= kMaxExited THEN {} ELSE exited) \cup {cur}
  /\ tracees' = tracees \ {cur}
  /\ known' = known \ {cur}
  /\ main_exited' = (main_exited \/ cur = Main)
  /\ IF cur = Main THEN main_exit' \in GuestEnd ELSE UNCHANGED main_exit
  /\ cur' = Main
  /\ UNCHANGED <<taskVars, start_state, cancel_reason, cancelling, verdict>>

(* handle_exit(): remember the id, drop it, and when it was the initial    *)
(* process kill what is left.                                              *)
HandleExit ==
  /\ sup = "exit"
  /\ sup' = "loop"
  /\ exited' = (IF Cardinality(exited) >= kMaxExited THEN {} ELSE exited) \cup {cur}
  /\ tracees' = tracees \ {cur}
  /\ known' = known \ {cur}
  /\ IF cur = Main
     THEN /\ main_exited' = TRUE
          /\ main_exit' \in GuestEnd
          /\ killed' = Kill(known \ {cur})
     ELSE UNCHANGED <<main_exited, main_exit, killed>>
  /\ cur' = Main
  /\ UNCHANGED <<task, group, stopped_at, stop_msg, start_state,
                 cancel_reason, cancelling, verdict>>

(* ECHILD ends the loop; run() then reads cancel_reason_, once.            *)
LoopEnds ==
  /\ sup = "loop"
  /\ NoTasks
  /\ sup' = IF start_state = "ok" THEN "finish" ELSE "fail_start"
  /\ verdict' = IF cancel_reason # None THEN cancel_reason
                ELSE IF start_state = "ok" THEN main_exit ELSE "start_failed"
  /\ UNCHANGED <<taskVars, cur, tracees, known, exited, main_exited,
                 main_exit, start_state, cancel_reason, cancelling>>

(* The initial process died before its exec: finish_start(error).          *)
FinishStart ==
  /\ sup = "fail_start"
  /\ sup' = "finish"
  /\ start_state' = "failed"
  /\ UNCHANGED <<taskVars, cur, tracees, known, exited, main_exited,
                 main_exit, cancel_reason, cancelling, verdict>>

(* finish(): done_ is set; wait() can return the verdict.                  *)
Finish ==
  /\ sup = "finish"
  /\ sup' = "end"
  /\ UNCHANGED <<taskVars, cur, tracees, known, exited, main_exited,
                 main_exit, start_state, cancel_reason, cancelling, verdict>>

(* thread_main's catch around the loop: kill_all, and the end of the       *)
(* tracing thread kills every tracee (PTRACE_O_EXITKILL).                  *)
Fault ==
  /\ sup = "loop"
  /\ sup' = "end"
  /\ killed' = Kill(Tid)
  /\ start_state' = IF start_state = "pending" THEN "failed" ELSE start_state
  /\ verdict' = "start_failed"
  /\ UNCHANGED <<task, group, stopped_at, stop_msg, cur, tracees, known,
                 exited, main_exited, main_exit, cancel_reason, cancelling>>

-----------------------------------------------------------------------------
(* Mutant: the last reason wins.                                           *)
CancelBeginLast(reason) ==
  /\ sup # "absent" /\ reason \notin cancelling
  /\ cancel_reason' = reason
  /\ cancelling' = cancelling \cup {reason}
  /\ UNCHANGED <<taskVars, sup, cur, tracees, known, exited, main_exited,
                 main_exit, start_state, verdict>>

(* cancel(reason) on some other thread: the compare-and-swap, and later,   *)
(* under known_mu_, SIGKILL to every known id.                             *)
CancelBegin(reason) ==
  /\ sup # "absent" /\ reason \notin cancelling
  /\ cancel_reason' = IF cancel_reason = None THEN reason ELSE cancel_reason
  /\ cancelling' = cancelling \cup {reason}
  /\ UNCHANGED <<taskVars, sup, cur, tracees, known, exited, main_exited,
                 main_exit, start_state, verdict>>

CancelKill(reason) ==
  /\ reason \in cancelling
  /\ cancelling' = cancelling \ {reason}
  /\ killed' = Kill(known)
  /\ UNCHANGED <<task, group, stopped_at, stop_msg, sup, cur, tracees, known,
                 exited, main_exited, main_exit, start_state, cancel_reason,
                 verdict>>

-----------------------------------------------------------------------------
(* The guest's own steps.  Before its exec the initial process runs the    *)
(* bootstrap, which creates no task and kills none.                        *)
GuestStep ==
  /\ \E p \in Tid :
       \/ GuestExecBegin(p)
       \/ GuestExecDone(p)
       \/ GuestExit(p)
       \/ GuestThreadExit(p)
       \/ BootExit(p)
       \/ /\ start_state = "ok"
          /\ \/ \E q \in Tid, thread \in {FALSE, Threads} : GuestClone(p, q, thread)
             \/ \E q \in Tid : GuestKill(p, q)
  /\ UNCHANGED supVars

KernelKill(p) == Die(p) /\ UNCHANGED supVars

SupStep ==
  \/ PrepareFails \/ Spawn \/ MainKnown \/ SeizeFails \/ SeizeReap \/ Seize
  \/ \E p \in Tid : StopInit(p) \/ StopFork(p) \/ StopExec(p) \/ CollectExit(p)
  \/ HandleExit \/ LoopEnds \/ FinishStart \/ Finish

CancelStep(reason) == CancelBegin(reason) \/ CancelKill(reason)

(* The supervisor is done; only its tasks' ends after a fault are left.    *)
Finished == sup = "end" /\ UNCHANGED vars

Next ==
  \/ Create
  \/ Start
  \/ SupStep
  \/ Fault
  \/ \E reason \in CancelReason : CancelStep(reason)
  \/ GuestStep
  \/ \E p \in Tid : KernelKill(p)
  \/ Finished

Spec == Init /\ [][Next]_vars

(* The supervisor thread is scheduled, every task's report is collected    *)
(* sooner or later, a cancel() call goes on to its kill loop, and SIGKILL  *)
(* takes effect.  Guests owe nothing: they may run forever.                *)
Fairness ==
  /\ WF_vars(PrepareFails \/ Spawn \/ MainKnown \/ SeizeFails \/ SeizeReap \/ Seize)
  /\ WF_vars(HandleExit \/ LoopEnds \/ FinishStart \/ Finish)
  /\ \A p \in Tid :
       /\ WF_vars(StopInit(p) \/ StopFork(p) \/ StopExec(p) \/ CollectExit(p))
       /\ WF_vars(KernelKill(p))
  /\ \A reason \in CancelReason : WF_vars(CancelKill(reason))

FairSpec == Spec /\ Fairness

-----------------------------------------------------------------------------
(* A task at its initial stop that the supervisor has not heard of.        *)
Unseen(p) == task[p] = "stop" /\ stopped_at[p] = "init" /\ p \notin known

(* Comment in get_or_add: "A task created after cancellation must not      *)
(* survive."  Once a cancel() has returned, or the initial process has     *)
(* exited, every live task of the session has SIGKILL pending or still     *)
(* stands at an initial stop where the supervisor will meet (and kill) it: *)
(* none can run guest code, fork or exec its way out.                      *)
NoSurvivor ==
  (sup \in {"loop", "exit"} /\ ((cancel_reason # None /\ cancelling = {}) \/ main_exited))
    => \A p \in Tid : Alive(p) => p \in killed \/ Unseen(p)

(* Comment in cancel(): "Pids stay in known_ until the supervisor observed *)
(* their exit, so a pid in this set still names a tracee".  What the code  *)
(* guarantees of that: it holds of every id that named a                   *)
(* process (a group leader), so that a SIGKILL meant for a process of the  *)
(* session, sent at a fork event's late arrival or at the end, does not    *)
(* reach whatever uses the id next.                                        *)
KnownProcessIsOurs ==
  \A p \in known : group[p] = p => task[p] # "free" \/ (sup = "exit" /\ cur = p)

(* engine.hpp: wait() "Blocks until the whole guest process tree is gone". *)
(* A verdict is published only when no task is left; after a fault in the  *)
(* supervisor thread, only tasks that are being killed are.                *)
DoneMeansGone ==
  /\ sup \in {"fail_start", "finish"} => NoTasks
  /\ sup = "end" => \A p \in Tid : Alive(p) => p \in killed

(* The supervisor is the engine instance that module Session relies on.    *)
EngineState ==
  CASE sup \in {"absent", "idle"}                            -> sup
    [] sup = "end" \/ (sup = "finish" /\ start_state = "ok") -> "done"
    [] OTHER -> IF start_state = "ok" THEN "running" ELSE "starting"

E == INSTANCE EngineInstance WITH
       engine <- EngineState,
       engine_result <- IF EngineState = "done" THEN verdict ELSE None

(* The supervisor is the engine instance a session relies on: start()      *)
(* answers once, the first reason to cancel wins, and the verdict is       *)
(* published once, with a reason that fits.                                *)
ImplementsEngine == E!EngineSpec

(* A cancelled session ends, and so does one whose initial process exited, *)
(* whatever the guest's tasks do meanwhile.                                *)
TreeEnds ==
  /\ (cancel_reason # None /\ sup \notin {"absent", "idle"}) ~> sup = "end"
  /\ main_exited ~> sup = "end"
=============================================================================
