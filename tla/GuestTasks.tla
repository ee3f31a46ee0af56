----------------------------- MODULE GuestTasks -----------------------------
(***************************************************************************)
(* External: the kernel's side of a traced process tree, as far as the     *)
(* supervisor depends on it (ptrace(2), clone(2), execve(2), waitpid(2)).  *)
(*                                                                         *)
(* A task is an id.  Threads share a group, named by its leader's id.  The *)
(* child of a traced task starts traced, at an initial stop; the parent's  *)
(* fork/vfork/clone event is a stop of its own, and waitpid reports the    *)
(* pending stops and exits of different tasks in any order.  SIGKILL       *)
(* reaches the whole group and ends a task at any stop: a stop that was    *)
(* not yet reported is lost.  An id is free again once its exit was        *)
(* collected, and may be used again.                                       *)
(***************************************************************************)
CONSTANT Tid

VARIABLES
  task,        \* what the task of an id is doing
  group,       \* its thread group's leader (kept when the id becomes free)
  stopped_at,  \* the kind of its pending stop
  stop_msg,    \* PTRACE_GETEVENTMSG: a fork's child, an exec's former id
  killed       \* live tasks with SIGKILL pending

taskVars == <<task, group, stopped_at, stop_msg, killed>>

Live == {"boot", "run", "stop", "exec", "leaving"}

TasksTypeOK ==
  /\ task \in [Tid -> Live \cup {"dead", "free"}]
  /\ group \in [Tid -> Tid]
  /\ stopped_at \in [Tid -> {"init", "fork", "exec"}]
  /\ stop_msg \in [Tid -> Tid]
  /\ killed \subseteq Tid

TasksInit ==
  /\ task = [p \in Tid |-> "free"]
  /\ group = [p \in Tid |-> p]
  /\ stopped_at = [p \in Tid |-> "init"]
  /\ stop_msg = [p \in Tid |-> p]
  /\ killed = {}

Alive(p) == task[p] \in Live

Members(p) == {q \in Tid : task[q] # "free" /\ group[q] = group[p]}

(* killed after kill(q, SIGKILL) for every q in ids.                       *)
Kill(ids) ==
  killed \cup UNION {Members(q) : q \in {i \in ids : task[i] # "free"}}

(* Ids are handed out in turn, so one is not used again while an event     *)
(* that names its last user is still to be reported.                       *)
Unnamed(q) ==
  \A r \in Tid : task[r] = "stop" /\ stopped_at[r] # "init" => stop_msg[r] # q

(* A task at a stop that was reported continues.                           *)
Continue(p) ==
  /\ task' = [task EXCEPT ![p] = "run"]
  /\ stopped_at' = [stopped_at EXCEPT ![p] = "init"]
  /\ stop_msg' = [stop_msg EXCEPT ![p] = p]
  /\ UNCHANGED group

(* fork, vfork or clone: p creates q, which starts at its initial stop     *)
(* while p stops for the event.                                            *)
GuestClone(p, q, thread) ==
  /\ task[p] = "run" /\ p \notin killed
  /\ task[q] = "free" /\ Unnamed(q)
  /\ task' = [task EXCEPT ![p] = "stop", ![q] = "stop"]
  /\ group' = [group EXCEPT ![q] = IF thread THEN group[p] ELSE q]
  /\ stopped_at' = [stopped_at EXCEPT ![p] = "fork", ![q] = "init"]
  /\ stop_msg' = [stop_msg EXCEPT ![p] = q]
  /\ UNCHANGED killed

(* execve takes the group's other threads down first; the leader, if it is *)
(* not the caller, stays only for the caller to take its id.               *)
GuestExecBegin(p) ==
  /\ task[p] = "run" /\ p \notin killed
  /\ task' = [q \in Tid |-> CASE q = p -> "exec"
                              [] q # p /\ q \in Members(p) /\ q = group[p] -> "leaving"
                              [] q # p /\ q \in Members(p) /\ q # group[p] -> "dead"
                              [] OTHER -> task[q]]
  /\ UNCHANGED <<group, stopped_at, stop_msg, killed>>

(* The new image is in place once the exits of the other threads have been *)
(* collected: the group's leader stops, and p's own id vanishes silently.  *)
GuestExecDone(p) ==
  /\ task[p] = "exec" /\ p \notin killed
  /\ \A q \in Members(p) : q \in {p, group[p]}
  /\ task' = [task EXCEPT ![p] = "free", ![group[p]] = "stop"]
  /\ stopped_at' = [stopped_at EXCEPT ![group[p]] = "exec"]
  /\ stop_msg' = [stop_msg EXCEPT ![group[p]] = p]
  /\ UNCHANGED <<group, killed>>

(* exit_group(2): every thread of the process ends.                        *)
GuestExit(p) ==
  /\ task[p] = "run" /\ p \notin killed
  /\ task' = [q \in Tid |-> IF q \in Members(p) THEN "dead" ELSE task[q]]
  /\ UNCHANGED <<group, stopped_at, stop_msg, killed>>

(* exit(2) of a thread that is not the leader.                             *)
GuestThreadExit(p) ==
  /\ task[p] = "run" /\ p \notin killed /\ group[p] # p
  /\ task' = [task EXCEPT ![p] = "dead"]
  /\ UNCHANGED <<group, stopped_at, stop_msg, killed>>

(* A guest task sends SIGKILL to another of the session.                   *)
GuestKill(p, q) ==
  /\ task[p] = "run" /\ p \notin killed
  /\ Alive(q)
  /\ killed' = Kill({q})
  /\ UNCHANGED <<task, group, stopped_at, stop_msg>>

(* SIGKILL takes effect.                                                   *)
Die(p) ==
  /\ p \in killed /\ Alive(p)
  /\ task' = [task EXCEPT ![p] = "dead"]
  /\ UNCHANGED <<group, stopped_at, stop_msg, killed>>

(* The bootstrap fails before its exec and exits.                          *)
BootExit(p) ==
  /\ task[p] = "boot" /\ p \notin killed
  /\ task' = [task EXCEPT ![p] = "dead"]
  /\ UNCHANGED <<group, stopped_at, stop_msg, killed>>

(* waitpid can report p's exit: a leader's only after its other threads'.  *)
ExitReportable(p) ==
  /\ task[p] = "dead"
  /\ p = group[p] => Members(p) = {p}

(* waitpid reports p's exit: the id is free again.                         *)
Collect(p) ==
  /\ ExitReportable(p)
  /\ task' = [task EXCEPT ![p] = "free"]
  /\ killed' = killed \ {p}
  /\ UNCHANGED <<group, stopped_at, stop_msg>>

(* waitpid's ECHILD: neither children nor tracees are left.                *)
NoTasks == \A p \in Tid : task[p] = "free"
=============================================================================
