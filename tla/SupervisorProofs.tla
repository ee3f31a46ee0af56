-------------------------- MODULE SupervisorProofs --------------------------
(***************************************************************************)
(* Proofs about Supervisor, for any set of task ids and any capacity of    *)
(* exited_: type correctness, NoSurvivor, DoneMeansGone, the refinement of *)
(* EngineInstance and, while exited_ is below its capacity,                *)
(* KnownProcessIsOurs.                                                     *)
(*                                                                         *)
(* NoSurvivor rests on two facts.  The tables are complete: in the loop    *)
(* every live task is in known_ or has not left its initial stop (SeenInv), *)
(* so the kill loops of cancel() and handle_exit() miss only tasks that    *)
(* get_or_add() will kill.  And SIGKILL reaches whole thread groups, so a  *)
(* task that is not marked cannot be in a group that is (GroupInv).        *)
(***************************************************************************)
EXTENDS Supervisor, TLAPS

(* Thread groups: a group with a task left has its leader left, and a      *)
(* pending SIGKILL is pending for all of it.                               *)
GroupInv ==
  /\ \A p \in Tid : task[p] # "free" =>
       task[group[p]] # "free" /\ group[group[p]] = group[p]
  /\ \A p \in killed : task[p] # "free"
  /\ \A p, q \in Tid : p \in killed /\ task[q] # "free" /\ group[q] = group[p]
       => q \in killed
  /\ \A p \in Tid : Alive(p) /\ p \notin killed => Alive(group[p])

(* The former id that a pending exec event names is not in use.            *)
ExecInv ==
  \A p \in Tid : task[p] = "stop" /\ stopped_at[p] = "exec" /\ stop_msg[p] # p
    => task[stop_msg[p]] = "free"

(* Before the loop only the initial process can exist.                     *)
LaunchInv ==
  /\ sup \in {"absent", "idle", "prepare"} => NoTasks /\ known = {}
  /\ sup \in {"absent", "idle", "prepare", "known", "seize", "seize_reap"} =>
       /\ group[Main] = Main /\ tracees = {} /\ known \subseteq {Main}
       /\ ~main_exited /\ start_state = "pending"
       /\ \A p \in Tid \ {Main} : task[p] = "free"
       /\ task[Main] \in {"free", "boot", "dead"}
  /\ sup \in {"seize", "seize_reap"} => known = {Main}
  /\ \A p \in Tid : task[p] = "boot" => sup \in {"known", "seize", "seize_reap"}

(* In the loop the tables hold every task that left its initial stop.      *)
SeenInv ==
  sup \in {"loop", "exit"} =>
    /\ tracees = known
    /\ \A p \in Tid : Alive(p) => p \in known \/ Unseen(p)

(* An id that is in use again before handle_exit() dropped it belongs to a *)
(* task at its initial stop, alone in its group if it leads one.           *)
ReuseInv ==
  sup = "exit" /\ task[cur] # "free" =>
    /\ Alive(cur) => task[cur] = "stop" /\ stopped_at[cur] = "init"
    /\ group[cur] = cur => Members(cur) = {cur}

(* A process at its initial stop has no other thread yet.                  *)
FreshInv ==
  \A p, q \in Tid : task[p] = "stop" /\ stopped_at[p] = "init" /\ group[p] = p
                    /\ task[q] # "free" /\ group[q] = p => q = p

Inv ==
  /\ TypeOK
  /\ GroupInv
  /\ FreshInv
  /\ ExecInv
  /\ LaunchInv
  /\ SeenInv
  /\ ReuseInv
  /\ DoneMeansGone
  /\ NoSurvivor

-----------------------------------------------------------------------------
(* kill(id, SIGKILL) for a set of ids: what is marked afterwards.          *)
LEMMA KillFacts ==
  ASSUME TypeOK, NEW ids \in SUBSET Tid
  PROVE  /\ killed \subseteq Kill(ids) /\ Kill(ids) \subseteq Tid
         /\ \A q \in ids : task[q] # "free" => q \in Kill(ids)
         /\ GroupInv => \A q \in Kill(ids) : task[q] # "free"
         /\ GroupInv => \A p, q \in Tid :
              p \in Kill(ids) /\ task[q] # "free" /\ group[q] = group[p] => q \in Kill(ids)
<1> USE DEF TypeOK, TasksTypeOK, Kill, Members
<1>1. killed \subseteq Kill(ids) /\ Kill(ids) \subseteq Tid
  OBVIOUS
<1>2. \A q \in ids : task[q] # "free" => q \in Kill(ids)
  OBVIOUS
<1>3. GroupInv => \A q \in Kill(ids) : task[q] # "free"
  BY DEF GroupInv
<1>4. GroupInv => \A p, q \in Tid :
        p \in Kill(ids) /\ task[q] # "free" /\ group[q] = group[p] => q \in Kill(ids)
  BY DEF GroupInv
<1> QED BY <1>1, <1>2, <1>3, <1>4

LEMMA GetOrAddKills ==
  ASSUME TypeOK, NEW ids \in SUBSET Tid, get_or_add(ids)
  PROVE  /\ killed' \in {killed, Kill(ids \ tracees)}
         /\ killed \subseteq killed' /\ killed' \subseteq Tid
         /\ tracees' = tracees \cup ids /\ known' = known \cup ids
BY KillFacts DEF get_or_add

(* Type correctness is inductive on its own.                               *)
LEMMA TypeStep == TypeOK /\ [Next]_vars => TypeOK'
<1> SUFFICES ASSUME TypeOK, [Next]_vars PROVE TypeOK'
  OBVIOUS
<1> USE SupervisorAssumption DEF TypeOK, TasksTypeOK, taskVars
<1>1. CASE Create \/ Start \/ PrepareFails \/ MainKnown
  BY <1>1 DEF Create, Start, PrepareFails, FailStart, MainKnown
<1>2. CASE Spawn
  BY <1>2 DEF Spawn, Live
<1>3. CASE SeizeFails
  BY <1>3, KillFacts DEF SeizeFails
<1>4. CASE SeizeReap
  BY <1>4 DEF SeizeReap, Collect, FailStart
<1>5. CASE Seize
  <2>1. killed' \subseteq Tid /\ tracees' \subseteq Tid /\ known' \subseteq Tid
    <3>1. {Main} \in SUBSET Tid /\ get_or_add({Main})
      BY <1>5 DEF Seize
    <3> QED BY <3>1, GetOrAddKills
  <2> QED BY <1>5, <2>1 DEF Seize, Continue, Live
<1>6. ASSUME NEW p \in Tid, StopInit(p) PROVE TypeOK'
  <2>1. killed' \subseteq Tid /\ tracees' \subseteq Tid /\ known' \subseteq Tid
    <3>1. {p} \in SUBSET Tid /\ get_or_add({p})
      BY <1>6 DEF StopInit
    <3> QED BY <3>1, GetOrAddKills
  <2> QED BY <1>6, <2>1 DEF StopInit, Stop, Continue, Live
<1>7. ASSUME NEW p \in Tid, StopFork(p) PROVE TypeOK'
  <2> DEFINE gone == stop_msg[p] \in exited /\ stop_msg[p] \notin tracees \cup {p} /\ Gone(stop_msg[p])
             ids == {p} \cup (IF gone THEN {} ELSE {stop_msg[p]})
  <2>1. ids \in SUBSET Tid /\ get_or_add(ids) /\ Stop(p, "fork") /\ UNCHANGED start_state
        /\ exited' \subseteq exited
    BY <1>7 DEF StopFork
  <2> HIDE DEF ids
  <2>2. killed' \subseteq Tid /\ tracees' \subseteq Tid /\ known' \subseteq Tid
    BY <2>1, GetOrAddKills
  <2> QED BY <2>1, <2>2 DEF Stop, Continue, Live
<1>8. ASSUME NEW p \in Tid, StopExec(p) PROVE TypeOK'
  BY <1>8, KillFacts DEF StopExec, Stop, Continue, Live
<1>9. ASSUME NEW p \in Tid, CollectExit(p) PROVE TypeOK'
  BY <1>9 DEF CollectExit, Collect
<1>10. CASE HandleExit
  <2>1. Kill(known \ {cur}) \subseteq Tid
    BY KillFacts
  <2>2. exited' \subseteq Tid
    BY <1>10 DEF HandleExit
  <2>3. main_exited' \in BOOLEAN /\ main_exit' \in {None} \cup GuestEnd /\ killed' \subseteq Tid
    BY <1>10, <2>1 DEF HandleExit
  <2> QED BY <1>10, <2>2, <2>3 DEF HandleExit
<1>11. CASE LoopEnds
  BY <1>11 DEF LoopEnds
<1>12. CASE FinishStart \/ Finish
  BY <1>12 DEF FinishStart, Finish
<1>13. CASE Fault
  BY <1>13, KillFacts DEF Fault
<1>14. ASSUME NEW reason \in CancelReason, CancelStep(reason) PROVE TypeOK'
  BY <1>14, KillFacts DEF CancelStep, CancelBegin, CancelKill
<1>15. CASE GuestStep
  <2>1. UNCHANGED supVars
    BY <1>15 DEF GuestStep
  <2>2. ASSUME NEW p \in Tid, GuestExecBegin(p) \/ GuestExecDone(p) PROVE TasksTypeOK'
    BY <2>2 DEF GuestExecBegin, GuestExecDone, Live
  <2>3. ASSUME NEW p \in Tid, GuestExit(p) \/ GuestThreadExit(p) \/ BootExit(p) PROVE TasksTypeOK'
    BY <2>3 DEF GuestExit, GuestThreadExit, BootExit
  <2>4. ASSUME NEW p \in Tid, NEW q \in Tid, NEW thread \in BOOLEAN, GuestClone(p, q, thread)
        PROVE  TasksTypeOK'
    BY <2>4 DEF GuestClone, Live
  <2>5. ASSUME NEW p \in Tid, NEW q \in Tid, GuestKill(p, q) PROVE TasksTypeOK'
    BY <2>5, KillFacts DEF GuestKill
  <2>6. TasksTypeOK'
    <3> HIDE DEF TasksTypeOK
    <3>1. {FALSE, Threads} \subseteq BOOLEAN
      OBVIOUS
    <3> QED BY <1>15, <2>2, <2>3, <2>4, <2>5, <3>1 DEF GuestStep
  <2> QED BY <2>1, <2>6 DEF supVars
<1>16. ASSUME NEW p \in Tid, KernelKill(p) PROVE TypeOK'
  BY <1>16 DEF KernelKill, Die, supVars
<1>17. CASE UNCHANGED vars
  BY <1>17 DEF vars, supVars
<1> QED BY <1>1, <1>2, <1>3, <1>4, <1>5, <1>6, <1>7, <1>8, <1>9, <1>10, <1>11, <1>12, <1>13,
       <1>14, <1>15, <1>16, <1>17 DEF Next, SupStep, Finished

-----------------------------------------------------------------------------
(* The supervisor's steps that leave the kernel's tasks as they are but    *)
(* for SIGKILLs and continued stops.                                       *)
LEMMA MarkKeepsGroups ==
  ASSUME TypeOK, GroupInv, UNCHANGED group,
         \A p \in Tid : (task'[p] = "free" <=> task[p] = "free") /\ (Alive(p)' <=> Alive(p)),
         killed' = killed \/ \E ids \in SUBSET Tid : killed' = Kill(ids)
  PROVE  GroupInv'
<1> USE DEF TypeOK, TasksTypeOK
<1>1. /\ killed \subseteq killed' /\ killed' \subseteq Tid
      /\ \A q \in killed' : task[q] # "free"
      /\ \A p, q \in Tid :
           p \in killed' /\ task[q] # "free" /\ group[q] = group[p] => q \in killed'
  <2>1. CASE killed' = killed
    BY <2>1 DEF GroupInv
  <2>2. ASSUME NEW ids \in SUBSET Tid, killed' = Kill(ids)
        PROVE  /\ killed \subseteq killed' /\ killed' \subseteq Tid
               /\ \A q \in killed' : task[q] # "free"
               /\ \A p, q \in Tid :
                    p \in killed' /\ task[q] # "free" /\ group[q] = group[p] => q \in killed'
    BY <2>2, KillFacts
  <2> QED BY <2>1, <2>2
<1> QED BY <1>1 DEF GroupInv

(* The kernel's own steps.                                                 *)
LEMMA KernelKeepsGroups ==
  ASSUME TypeOK, GroupInv, LaunchInv, GuestStep \/ \E p \in Tid : KernelKill(p)
  PROVE  GroupInv'
<1> USE DEF TypeOK, TasksTypeOK, Alive, Live
<1>1. ASSUME NEW p \in Tid, GuestExecBegin(p) PROVE GroupInv'
  BY <1>1 DEF GuestExecBegin, GroupInv, Members
<1>2. ASSUME NEW p \in Tid, GuestExecDone(p) PROVE GroupInv'
  BY <1>2 DEF GuestExecDone, GroupInv, Members
<1>3. ASSUME NEW p \in Tid, GuestExit(p) PROVE GroupInv'
  BY <1>3 DEF GuestExit, GroupInv, Members
<1>4. ASSUME NEW p \in Tid, GuestThreadExit(p) PROVE GroupInv'
  BY <1>4 DEF GuestThreadExit, GroupInv
<1>5. ASSUME NEW p \in Tid, BootExit(p) PROVE GroupInv'
  BY <1>5 DEF BootExit, GroupInv, LaunchInv
<1>6. ASSUME NEW p \in Tid, NEW q \in Tid, NEW thread, GuestClone(p, q, thread) PROVE GroupInv'
  BY <1>6 DEF GuestClone, GroupInv
<1>7. ASSUME NEW p \in Tid, NEW q \in Tid, GuestKill(p, q) PROVE GroupInv'
  BY <1>7, MarkKeepsGroups DEF GuestKill
<1>8. ASSUME NEW p \in Tid, KernelKill(p) PROVE GroupInv'
  BY <1>8 DEF KernelKill, Die, GroupInv
<1> HIDE DEF TypeOK, TasksTypeOK, Alive, Live
<1> QED BY <1>1, <1>2, <1>3, <1>4, <1>5, <1>6, <1>7, <1>8 DEF GuestStep

LEMMA SupKeepsGroups ==
  ASSUME TypeOK, GroupInv, LaunchInv, SupStep \/ Fault \/ \E r \in CancelReason : CancelStep(r)
  PROVE  GroupInv'
<1> USE SupervisorAssumption DEF TypeOK, TasksTypeOK, taskVars
<1>1. CASE UNCHANGED taskVars
  BY <1>1, MarkKeepsGroups DEF Alive
<1>2. CASE Spawn
  BY <1>2 DEF Spawn, LaunchInv, NoTasks, GroupInv, Alive, Live
<1>3. CASE SeizeFails \/ HandleExit \/ Fault \/ \E r \in CancelReason : CancelKill(r)
  <2>1. UNCHANGED <<task, group>>
    BY <1>3 DEF SeizeFails, HandleExit, Fault, CancelKill
  <2>2. killed' = killed \/ \E ids \in SUBSET Tid : killed' = Kill(ids)
    BY <1>3 DEF SeizeFails, HandleExit, Fault, CancelKill
  <2> QED BY <2>1, <2>2, MarkKeepsGroups DEF Alive
<1>4. ASSUME NEW p \in Tid, Collect(p) PROVE GroupInv'
  BY <1>4 DEF Collect, ExitReportable, Members, GroupInv, Alive, Live
<1>5. CASE Seize
  <2>1. killed' = killed \/ \E ids \in SUBSET Tid : killed' = Kill(ids)
    BY <1>5 DEF Seize, get_or_add
  <2> QED BY <1>5, <2>1, MarkKeepsGroups DEF Seize, Continue, Alive, Live
<1>6. ASSUME NEW p \in Tid, StopInit(p) \/ StopFork(p) \/ StopExec(p) PROVE GroupInv'
  <2>1. killed' = killed \/ \E ids \in SUBSET Tid : killed' = Kill(ids)
    <3>1. CASE StopInit(p)
      BY <3>1 DEF StopInit, get_or_add
    <3>2. CASE StopFork(p)
      BY <3>2 DEF StopFork, get_or_add
    <3>3. CASE StopExec(p)
      BY <3>3 DEF StopExec
    <3> QED BY <1>6, <3>1, <3>2, <3>3
  <2>2. task[p] = "stop" /\ Continue(p)
    BY <1>6 DEF StopInit, StopFork, StopExec, Stop
  <2> QED BY <2>1, <2>2, MarkKeepsGroups DEF Continue, Alive, Live
<1>7. CASE SupStep
  <2>1. PrepareFails \/ MainKnown \/ LoopEnds \/ FinishStart \/ Finish => UNCHANGED taskVars
    BY DEF PrepareFails, MainKnown, LoopEnds, FinishStart, Finish
  <2>2. SeizeReap => Collect(Main)
    BY DEF SeizeReap
  <2>3. \A p \in Tid : CollectExit(p) => Collect(p)
    BY DEF CollectExit
  <2> HIDE DEF TypeOK, TasksTypeOK, taskVars
  <2> QED BY <1>1, <1>2, <1>3, <1>4, <1>5, <1>6, <1>7, <2>1, <2>2, <2>3 DEF SupStep
<1>8. CASE \E r \in CancelReason : CancelBegin(r)
  BY <1>1, <1>8 DEF CancelBegin
<1> HIDE DEF TypeOK, TasksTypeOK, taskVars
<1> QED BY <1>3, <1>7, <1>8 DEF CancelStep

LEMMA GroupStep == Inv /\ [Next]_vars => GroupInv'
<1>1. Inv /\ (Create \/ Start \/ UNCHANGED vars) => GroupInv'
  BY DEF Inv, Create, Start, vars, taskVars, GroupInv, Alive
<1> QED BY <1>1, KernelKeepsGroups, SupKeepsGroups DEF Inv, Next, Finished

(* A pending exec event keeps the id it names out of use.                  *)
LEMMA ExecStep == Inv /\ [Next]_vars => ExecInv'
<1> SUFFICES ASSUME Inv, [Next]_vars PROVE ExecInv'
  OBVIOUS
<1> USE SupervisorAssumption DEF Inv, TypeOK, TasksTypeOK, taskVars, ExecInv
<1>1. CASE UNCHANGED <<task, stopped_at, stop_msg>>
  BY <1>1
<1>2. CASE Spawn
  BY <1>2 DEF Spawn, LaunchInv, NoTasks
<1>3. ASSUME NEW p \in Tid, Collect(p) PROVE ExecInv'
  BY <1>3 DEF Collect
<1>4. ASSUME NEW p \in Tid, task[p] \in {"boot", "stop"}, Continue(p) PROVE ExecInv'
  BY <1>4 DEF Continue
<1>5. CASE GuestStep
  <2>1. ASSUME NEW p \in Tid, GuestExecBegin(p) PROVE ExecInv'
    BY <2>1 DEF GuestExecBegin, Members
  <2>2. ASSUME NEW p \in Tid, GuestExecDone(p) PROVE ExecInv'
    BY <2>2 DEF GuestExecDone, Members, GroupInv
  <2>3. ASSUME NEW p \in Tid, GuestExit(p) \/ GuestThreadExit(p) \/ BootExit(p) PROVE ExecInv'
    BY <2>3 DEF GuestExit, GuestThreadExit, BootExit, Members
  <2>4. ASSUME NEW p \in Tid, NEW q \in Tid, NEW thread, GuestClone(p, q, thread) PROVE ExecInv'
    BY <2>4 DEF GuestClone, Unnamed
  <2>5. ASSUME NEW p \in Tid, NEW q \in Tid, GuestKill(p, q) PROVE ExecInv'
    BY <2>5 DEF GuestKill
  <2> HIDE DEF ExecInv
  <2> QED BY <1>5, <2>1, <2>2, <2>3, <2>4, <2>5 DEF GuestStep
<1>6. ASSUME NEW p \in Tid, KernelKill(p) PROVE ExecInv'
  BY <1>6 DEF KernelKill, Die, Alive, Live
<1>7. CASE SupStep
  <2>1. PrepareFails \/ MainKnown \/ SeizeFails \/ HandleExit \/ LoopEnds \/ FinishStart \/ Finish
          => UNCHANGED <<task, stopped_at, stop_msg>>
    BY DEF PrepareFails, MainKnown, SeizeFails, HandleExit, LoopEnds, FinishStart, Finish
  <2>2. SeizeReap => Collect(Main)
    BY DEF SeizeReap
  <2>3. \A p \in Tid : CollectExit(p) => Collect(p)
    BY DEF CollectExit
  <2>4. Seize => task[Main] \in {"boot", "stop"} /\ Continue(Main)
    BY DEF Seize
  <2>5. \A p \in Tid : StopInit(p) \/ StopFork(p) \/ StopExec(p)
          => task[p] \in {"boot", "stop"} /\ Continue(p)
    BY DEF StopInit, StopFork, StopExec, Stop
  <2> HIDE DEF ExecInv
  <2> QED BY <1>1, <1>2, <1>3, <1>4, <1>7, <2>1, <2>2, <2>3, <2>4, <2>5 DEF SupStep
<1>8. Create \/ Start \/ Fault \/ (\E r \in CancelReason : CancelStep(r)) \/ UNCHANGED vars
        => UNCHANGED <<task, stopped_at, stop_msg>>
  BY DEF Create, Start, Fault, CancelStep, CancelBegin, CancelKill, vars
<1> HIDE DEF ExecInv
<1> QED BY <1>1, <1>5, <1>6, <1>7, <1>8 DEF Next, Finished

(* The launch.                                                             *)
LEMMA LaunchStep == Inv /\ [Next]_vars => LaunchInv'
<1> SUFFICES ASSUME Inv, [Next]_vars PROVE LaunchInv'
  OBVIOUS
<1> USE SupervisorAssumption DEF Inv, TypeOK, TasksTypeOK, taskVars, LaunchInv, NoTasks
<1>1. CASE Create \/ Start
  BY <1>1 DEF Create, Start
<1>2. CASE PrepareFails \/ Spawn \/ MainKnown \/ SeizeFails
  BY <1>2 DEF PrepareFails, FailStart, Spawn, MainKnown, SeizeFails
<1>3. CASE SeizeReap
  BY <1>3 DEF SeizeReap, Collect, FailStart
<1>4. CASE Seize
  BY <1>4 DEF Seize, Continue
<1>5. ASSUME NEW p \in Tid, StopInit(p) \/ StopFork(p) \/ StopExec(p) \/ CollectExit(p)
      PROVE  LaunchInv'
  <2>1. sup' \in {"loop", "exit"} /\ sup = "loop" /\ \A q \in Tid : task'[q] # "boot"
    BY <1>5 DEF StopInit, StopFork, StopExec, Stop, Continue, CollectExit, Collect
  <2> QED BY <2>1
<1>6. CASE HandleExit \/ LoopEnds \/ FinishStart \/ Finish \/ Fault
  BY <1>6 DEF HandleExit, LoopEnds, FinishStart, Finish, Fault
<1>7. ASSUME NEW reason \in CancelReason, CancelStep(reason) PROVE LaunchInv'
  BY <1>7 DEF CancelStep, CancelBegin, CancelKill
<1>8. CASE GuestStep
  <2>0. UNCHANGED supVars
    BY <1>8 DEF GuestStep
  <2>1. ASSUME NEW p \in Tid, task[p] # "free", task[p] # "boot", task[p] # "dead" PROVE
          sup \notin {"absent", "idle", "prepare", "known", "seize", "seize_reap"}
          /\ \A q \in Tid : task[q] # "boot"
    BY <2>1
  <2>2. ASSUME NEW p \in Tid, GuestExecBegin(p) \/ GuestExecDone(p) \/ GuestExit(p) \/ GuestThreadExit(p)
        PROVE  LaunchInv'
    BY <2>0, <2>1, <2>2 DEF GuestExecBegin, GuestExecDone, GuestExit, GuestThreadExit, supVars
  <2>3. ASSUME NEW p \in Tid, BootExit(p) PROVE LaunchInv'
    BY <2>0, <2>3 DEF BootExit, supVars
  <2>4. ASSUME NEW p \in Tid, NEW q \in Tid, NEW thread, GuestClone(p, q, thread) PROVE LaunchInv'
    BY <2>0, <2>1, <2>4 DEF GuestClone, supVars
  <2>5. ASSUME NEW p \in Tid, NEW q \in Tid, GuestKill(p, q) PROVE LaunchInv'
    BY <2>0, <2>5 DEF GuestKill, supVars
  <2> HIDE DEF LaunchInv
  <2> QED BY <1>8, <2>2, <2>3, <2>4, <2>5 DEF GuestStep
<1>9. ASSUME NEW p \in Tid, KernelKill(p) PROVE LaunchInv'
  BY <1>9 DEF KernelKill, Die, Alive, Live, supVars
<1>10. CASE UNCHANGED vars
  BY <1>10 DEF vars, supVars
<1> HIDE DEF LaunchInv
<1> QED BY <1>1, <1>2, <1>3, <1>4, <1>5, <1>6, <1>7, <1>8, <1>9, <1>10
        DEF Next, SupStep, Finished

(* An id that is in use again is noticed in time.                          *)
LEMMA ReuseStep == Inv /\ [Next]_vars => ReuseInv'
<1> SUFFICES ASSUME Inv, [Next]_vars PROVE ReuseInv'
  OBVIOUS
<1> USE SupervisorAssumption DEF Inv, TypeOK, TasksTypeOK, taskVars, ReuseInv, Members, Alive, Live
<1>1. ASSUME sup' # "exit" PROVE ReuseInv'
  BY <1>1
<1>2. ASSUME NEW p \in Tid, CollectExit(p) PROVE ReuseInv'
  BY <1>2 DEF CollectExit, Collect
<1>3. CASE UNCHANGED <<sup, cur, task, group, stopped_at>>
  BY <1>3
<1>4. CASE GuestStep
  <2>0. UNCHANGED supVars
    BY <1>4 DEF GuestStep
  <2>1. ASSUME NEW p \in Tid, GuestExecBegin(p) PROVE ReuseInv'
    BY <2>0, <2>1 DEF GuestExecBegin, supVars
  <2>2. ASSUME NEW p \in Tid, GuestExecDone(p) PROVE ReuseInv'
    BY <2>0, <2>2 DEF GuestExecDone, supVars, GroupInv
  <2>3. ASSUME NEW p \in Tid, GuestExit(p) \/ GuestThreadExit(p) \/ BootExit(p) PROVE ReuseInv'
    BY <2>0, <2>3 DEF GuestExit, GuestThreadExit, BootExit, supVars
  <2>4. ASSUME NEW p \in Tid, NEW q \in Tid, NEW thread, GuestClone(p, q, thread) PROVE ReuseInv'
    BY <2>0, <2>4 DEF GuestClone, supVars, GroupInv
  <2>5. ASSUME NEW p \in Tid, NEW q \in Tid, GuestKill(p, q) PROVE ReuseInv'
    BY <2>0, <2>5 DEF GuestKill, supVars
  <2> HIDE DEF ReuseInv
  <2> QED BY <1>4, <2>1, <2>2, <2>3, <2>4, <2>5 DEF GuestStep
<1>5. ASSUME NEW p \in Tid, KernelKill(p) PROVE ReuseInv'
  BY <1>5 DEF KernelKill, Die, supVars
<1>6. (\E r \in CancelReason : CancelStep(r)) \/ UNCHANGED vars
        => UNCHANGED <<sup, cur, task, group, stopped_at>>
  BY DEF CancelStep, CancelBegin, CancelKill, vars, supVars
<1>7. Create \/ Start \/ Fault \/ PrepareFails \/ Spawn \/ MainKnown \/ SeizeFails \/ SeizeReap
        \/ Seize \/ HandleExit \/ LoopEnds \/ FinishStart \/ Finish => sup' # "exit"
  BY DEF Create, Start, Fault, PrepareFails, FailStart, Spawn, MainKnown, SeizeFails, SeizeReap,
         Seize, HandleExit, LoopEnds, FinishStart, Finish
<1>8. \A p \in Tid : StopInit(p) \/ StopFork(p) \/ StopExec(p) => sup' # "exit"
  BY DEF StopInit, StopFork, StopExec, Stop
<1> HIDE DEF ReuseInv
<1> QED BY <1>1, <1>2, <1>3, <1>4, <1>5, <1>6, <1>7, <1>8 DEF Next, SupStep, Finished

-----------------------------------------------------------------------------
(* A new process is alone: a thread is created by a running one.           *)
LEMMA FreshStep == Inv /\ [Next]_vars => FreshInv'
<1> SUFFICES ASSUME Inv, [Next]_vars PROVE FreshInv'
  OBVIOUS
<1> USE SupervisorAssumption DEF Inv, TypeOK, TasksTypeOK, taskVars, FreshInv
<1>1. CASE Spawn
  BY <1>1 DEF Spawn, LaunchInv, NoTasks
<1>2. CASE SeizeReap
  BY <1>2 DEF SeizeReap, Collect
<1>3. CASE Seize
  BY <1>3 DEF Seize, Continue
<1>4. ASSUME NEW p \in Tid, StopInit(p) \/ StopFork(p) \/ StopExec(p) PROVE FreshInv'
  <2>1. Continue(p) /\ task[p] = "stop"
    BY <1>4 DEF StopInit, StopFork, StopExec, Stop
  <2> QED BY <2>1 DEF Continue
<1>5. ASSUME NEW p \in Tid, CollectExit(p) PROVE FreshInv'
  BY <1>5 DEF CollectExit, Collect
<1>6. CASE GuestStep
  <2>1. ASSUME NEW p \in Tid, GuestExecBegin(p) PROVE FreshInv'
    BY <2>1 DEF GuestExecBegin, Members
  <2>2. ASSUME NEW p \in Tid, GuestExecDone(p) PROVE FreshInv'
    BY <2>2 DEF GuestExecDone, GroupInv
  <2>3. ASSUME NEW p \in Tid, GuestExit(p) \/ GuestThreadExit(p) \/ BootExit(p) PROVE FreshInv'
    BY <2>3 DEF GuestExit, GuestThreadExit, BootExit, Members
  <2>4. ASSUME NEW p \in Tid, NEW q \in Tid, NEW thread, GuestClone(p, q, thread) PROVE FreshInv'
    BY <2>4 DEF GuestClone, GroupInv
  <2>5. ASSUME NEW p \in Tid, NEW q \in Tid, GuestKill(p, q) PROVE FreshInv'
    BY <2>5 DEF GuestKill
  <2> HIDE DEF FreshInv
  <2> QED BY <1>6, <2>1, <2>2, <2>3, <2>4, <2>5 DEF GuestStep
<1>7. ASSUME NEW p \in Tid, KernelKill(p) PROVE FreshInv'
  BY <1>7 DEF KernelKill, Die, Alive, Live
<1>8. CASE UNCHANGED <<task, group, stopped_at>>
  BY <1>8
<1>9. Create \/ Start \/ Fault \/ PrepareFails \/ MainKnown \/ SeizeFails \/ HandleExit \/ LoopEnds
        \/ FinishStart \/ Finish \/ (\E r \in CancelReason : CancelStep(r)) \/ UNCHANGED vars
        => UNCHANGED <<task, group, stopped_at>>
  BY DEF Create, Start, Fault, PrepareFails, MainKnown, SeizeFails, HandleExit, LoopEnds, FinishStart,
         Finish, CancelStep, CancelBegin, CancelKill, vars
<1> HIDE DEF FreshInv
<1> QED BY <1>1, <1>2, <1>3, <1>4, <1>5, <1>6, <1>7, <1>8, <1>9 DEF Next, SupStep, Finished

(* In the loop the tables stay complete.                                   *)
LEMMA SeenStep == Inv /\ [Next]_vars => SeenInv'
<1> SUFFICES ASSUME Inv, [Next]_vars PROVE SeenInv'
  OBVIOUS
<1> USE SupervisorAssumption
    DEF Inv, TypeOK, TasksTypeOK, taskVars, SeenInv, Unseen, Alive, Live
<1>1. ASSUME sup' \notin {"loop", "exit"} PROVE SeenInv'
  BY <1>1
<1>2. CASE Seize
  BY <1>2 DEF Seize, Continue, get_or_add, LaunchInv
<1>3. ASSUME NEW p \in Tid, StopInit(p) PROVE SeenInv'
  BY <1>3 DEF StopInit, Stop, Continue, get_or_add
<1>4. ASSUME NEW p \in Tid, StopFork(p) PROVE SeenInv'
  BY <1>4 DEF StopFork, Stop, Continue, get_or_add
<1>5. ASSUME NEW p \in Tid, StopExec(p) PROVE SeenInv'
  BY <1>5 DEF StopExec, Stop, Continue, ExecInv
<1>6. ASSUME NEW p \in Tid, CollectExit(p) PROVE SeenInv'
  BY <1>6 DEF CollectExit, Collect
<1>7. CASE HandleExit
  BY <1>7 DEF HandleExit, ReuseInv
<1>8. CASE GuestStep
  <2>0. UNCHANGED supVars
    BY <1>8 DEF GuestStep
  <2>1. ASSUME NEW p \in Tid, GuestExecBegin(p) PROVE SeenInv'
    <3>1. p # group[p] => ~Unseen(group[p])
      BY <2>1 DEF GuestExecBegin, FreshInv, GroupInv
    <3>2. Alive(p) /\ ~Unseen(p) /\ Alive(group[p])
      BY <2>1 DEF GuestExecBegin, GroupInv
    <3>3. \A q \in Tid : q \notin {p, group[p]} => task'[q] \in {task[q], "dead"}
      BY <2>1 DEF GuestExecBegin
    <3> QED BY <2>0, <2>1, <3>1, <3>2, <3>3 DEF GuestExecBegin, supVars
  <2>2. ASSUME NEW p \in Tid, GuestExecDone(p) PROVE SeenInv'
    <3>1. Alive(group[p]) /\ ~Unseen(group[p])
      BY <2>2 DEF GuestExecDone, FreshInv, GroupInv
    <3> QED BY <2>0, <2>2, <3>1 DEF GuestExecDone, supVars
  <2>3. ASSUME NEW p \in Tid, GuestExit(p) \/ GuestThreadExit(p) \/ BootExit(p) PROVE SeenInv'
    BY <2>0, <2>3 DEF GuestExit, GuestThreadExit, BootExit, supVars
  <2>4. ASSUME NEW p \in Tid, NEW q \in Tid, NEW thread, GuestClone(p, q, thread) PROVE SeenInv'
    BY <2>0, <2>4 DEF GuestClone, supVars
  <2>5. ASSUME NEW p \in Tid, NEW q \in Tid, GuestKill(p, q) PROVE SeenInv'
    BY <2>0, <2>5 DEF GuestKill, supVars
  <2> HIDE DEF SeenInv
  <2> QED BY <1>8, <2>1, <2>2, <2>3, <2>4, <2>5 DEF GuestStep
<1>9. ASSUME NEW p \in Tid, KernelKill(p) PROVE SeenInv'
  BY <1>9 DEF KernelKill, Die, supVars
<1>10. CASE UNCHANGED <<sup, tracees, known, task, stopped_at>>
  BY <1>10
<1>11. (\E r \in CancelReason : CancelStep(r)) \/ UNCHANGED vars
         => UNCHANGED <<sup, tracees, known, task, stopped_at>>
  BY DEF CancelStep, CancelBegin, CancelKill, vars, supVars
<1>12. Create \/ Start \/ Fault \/ PrepareFails \/ Spawn \/ MainKnown \/ SeizeFails \/ SeizeReap
         \/ LoopEnds \/ FinishStart \/ Finish => sup' \notin {"loop", "exit"}
  BY DEF Create, Start, Fault, PrepareFails, FailStart, Spawn, MainKnown, SeizeFails, SeizeReap,
         LoopEnds, FinishStart, Finish
<1> HIDE DEF SeenInv
<1> QED BY <1>1, <1>2, <1>3, <1>4, <1>5, <1>6, <1>7, <1>8, <1>9, <1>10, <1>11, <1>12
        DEF Next, SupStep, Finished

(* A verdict comes after the last task.                                    *)
LEMMA DoneStep == Inv /\ [Next]_vars => DoneMeansGone'
<1> SUFFICES ASSUME Inv, [Next]_vars PROVE DoneMeansGone'
  OBVIOUS
<1> USE SupervisorAssumption
    DEF Inv, TypeOK, TasksTypeOK, taskVars, DoneMeansGone, NoTasks, Alive, Live
<1>1. ASSUME sup' \notin {"fail_start", "finish", "end"} PROVE DoneMeansGone'
  BY <1>1
<1>2. CASE PrepareFails
  BY <1>2 DEF PrepareFails, FailStart, LaunchInv
<1>3. CASE SeizeReap
  BY <1>3 DEF SeizeReap, Collect, FailStart, LaunchInv
<1>4. CASE LoopEnds \/ FinishStart \/ Finish
  BY <1>4 DEF LoopEnds, FinishStart, Finish
<1>5. CASE Fault
  <2>1. \A p \in Tid : task[p] # "free" => p \in Kill(Tid)
    BY KillFacts
  <2> QED BY <1>5, <2>1 DEF Fault
<1>6. ASSUME NEW reason \in CancelReason, CancelStep(reason) PROVE DoneMeansGone'
  <2>1. killed \subseteq killed'
    BY <1>6, KillFacts DEF CancelStep, CancelBegin, CancelKill
  <2>2. UNCHANGED <<sup, task>>
    BY <1>6 DEF CancelStep, CancelBegin, CancelKill
  <2> QED BY <2>1, <2>2
<1>7. CASE GuestStep
  <2>0. UNCHANGED supVars
    BY <1>7 DEF GuestStep
  <2>1. ASSUME NEW p \in Tid, GuestExecBegin(p) \/ GuestExecDone(p) \/ GuestExit(p) \/ GuestThreadExit(p)
                              \/ BootExit(p)
        PROVE  DoneMeansGone'
    BY <2>0, <2>1 DEF GuestExecBegin, GuestExecDone, GuestExit, GuestThreadExit, BootExit, supVars
  <2>2. ASSUME NEW p \in Tid, NEW q \in Tid, NEW thread, GuestClone(p, q, thread) PROVE DoneMeansGone'
    BY <2>0, <2>2 DEF GuestClone, supVars
  <2>3. ASSUME NEW p \in Tid, NEW q \in Tid, GuestKill(p, q) PROVE DoneMeansGone'
    BY <2>0, <2>3 DEF GuestKill, supVars
  <2> HIDE DEF DoneMeansGone
  <2> QED BY <1>7, <2>1, <2>2, <2>3 DEF GuestStep
<1>8. ASSUME NEW p \in Tid, KernelKill(p) PROVE DoneMeansGone'
  BY <1>8 DEF KernelKill, Die, supVars
<1>9. CASE UNCHANGED vars
  BY <1>9 DEF vars, supVars
<1>10. Create \/ Start \/ Spawn \/ MainKnown \/ SeizeFails \/ Seize \/ HandleExit
         => sup' \notin {"fail_start", "finish", "end"}
  BY DEF Create, Start, Spawn, MainKnown, SeizeFails, Seize, HandleExit
<1>11. \A p \in Tid : StopInit(p) \/ StopFork(p) \/ StopExec(p) \/ CollectExit(p)
         => sup' \notin {"fail_start", "finish", "end"}
  BY DEF StopInit, StopFork, StopExec, Stop, CollectExit
<1> HIDE DEF DoneMeansGone
<1> QED BY <1>1, <1>2, <1>3, <1>4, <1>5, <1>6, <1>7, <1>8, <1>9, <1>10, <1>11
        DEF Next, SupStep, Finished

(* Nobody survives a cancellation or the end of the initial process.       *)
Doomed == (cancel_reason # None /\ cancelling = {}) \/ main_exited

AllMarked == \A p \in Tid : Alive(p) => p \in killed \/ Unseen(p)

LEMMA SurvivorStep == Inv /\ [Next]_vars => NoSurvivor'
<1> SUFFICES ASSUME Inv, [Next]_vars, sup' \in {"loop", "exit"}, Doomed' PROVE AllMarked'
  BY DEF NoSurvivor, Doomed, AllMarked
<1>0. sup \in {"loop", "exit"} /\ Doomed => AllMarked
  BY DEF Inv, NoSurvivor, Doomed, AllMarked
<1> USE SupervisorAssumption DEF Inv, TypeOK, TasksTypeOK, taskVars, Unseen, Alive, Live
<1>1. CASE Seize
  <2>1. cancel_reason # None
    BY <1>1 DEF Seize, Doomed, LaunchInv
  <2>2. Main \in killed'
    <3>1. killed' = Kill({Main})
      BY <1>1, <2>1 DEF Seize, get_or_add, LaunchInv
    <3> QED BY <1>1, <3>1, KillFacts DEF Seize
  <2> QED BY <1>1, <2>2 DEF Seize, Continue, LaunchInv, AllMarked
<1>2. ASSUME NEW p \in Tid, StopInit(p) PROVE AllMarked'
  <2>1. Doomed /\ AllMarked /\ get_or_add({p}) /\ Stop(p, "init")
    BY <1>0, <1>2 DEF StopInit, Stop, Doomed
  <2>2. killed' = Kill({p} \ tracees)
    BY <2>1 DEF get_or_add, Doomed
  <2>3. killed \subseteq killed' /\ (p \notin tracees => p \in killed')
    BY <2>1, <2>2, KillFacts DEF Stop
  <2>4. tracees = known
    BY <2>1 DEF Stop, SeenInv
  <2> QED BY <2>1, <2>3, <2>4 DEF Stop, Continue, get_or_add, AllMarked
<1>3. ASSUME NEW p \in Tid, StopFork(p) PROVE AllMarked'
  <2> DEFINE child == stop_msg[p]
             gone == child \in exited /\ child \notin tracees \cup {p} /\ Gone(child)
             ids == {p} \cup (IF gone THEN {} ELSE {child})
  <2>1. Doomed /\ AllMarked /\ get_or_add(ids) /\ Stop(p, "fork") /\ ids \in SUBSET Tid
    BY <1>0, <1>3 DEF StopFork, Stop, Doomed
  <2>2. gone => ~Alive(child)
    BY DEF Gone
  <2>3. tracees = known
    BY <2>1 DEF Stop, SeenInv
  <2>4. Alive(child) => child \in ids
    BY <2>2
  <2> HIDE DEF ids
  <2>5. killed' = Kill(ids \ tracees) /\ known' = known \cup ids
    BY <2>1 DEF get_or_add, Doomed
  <2>6. killed \subseteq killed' /\ \A q \in ids \ tracees : task[q] # "free" => q \in killed'
    BY <2>1, <2>5, KillFacts
  <2> QED BY <2>1, <2>3, <2>4, <2>5, <2>6 DEF Stop, Continue, AllMarked
<1>4. ASSUME NEW p \in Tid, StopExec(p) PROVE AllMarked'
  <2>1. Doomed /\ AllMarked /\ Stop(p, "exec")
    BY <1>0, <1>4 DEF StopExec, Stop, Doomed
  <2>2. killed \subseteq killed'
    BY <1>4, KillFacts DEF StopExec
  <2>3. known' \subseteq known \cup {p}
    BY <1>4 DEF StopExec
  <2> QED BY <2>1, <2>2, <2>3 DEF Stop, Continue, AllMarked
<1>5. ASSUME NEW p \in Tid, CollectExit(p) PROVE AllMarked'
  BY <1>0, <1>5 DEF CollectExit, Collect, Doomed, AllMarked
<1>6. CASE HandleExit
  <2>1. sup = "exit" /\ UNCHANGED <<task, stopped_at>> /\ known' = known \ {cur}
    BY <1>6 DEF HandleExit
  <2>2. Alive(cur) => task'[cur] = "stop" /\ stopped_at'[cur] = "init" /\ cur \notin known'
    BY <2>1 DEF ReuseInv
  <2>3. CASE cur = Main
    <3>1. killed' = Kill(known \ {cur})
      BY <1>6, <2>3 DEF HandleExit
    <3>2. \A q \in known \ {cur} : task[q] # "free" => q \in killed'
      BY <3>1, KillFacts
    <3>3. \A q \in Tid : Alive(q) /\ q # cur => q \in known \ {cur} \/ Unseen(q)
      BY <2>1 DEF SeenInv
    <3> QED BY <2>1, <2>2, <3>2, <3>3 DEF AllMarked
  <2>4. CASE cur # Main
    <3>1. Doomed /\ UNCHANGED killed
      BY <1>6, <2>4 DEF HandleExit, Doomed
    <3> QED BY <1>0, <2>1, <2>2, <3>1 DEF AllMarked
  <2> QED BY <2>3, <2>4
<1>7. ASSUME NEW reason \in CancelReason, CancelBegin(reason) PROVE AllMarked'
  BY <1>0, <1>7 DEF CancelBegin, Doomed, AllMarked
<1>8. ASSUME NEW reason \in CancelReason, CancelKill(reason) PROVE AllMarked'
  <2>1. \A q \in known : task[q] # "free" => q \in killed'
    BY <1>8, KillFacts DEF CancelKill
  <2>2. UNCHANGED <<sup, task, stopped_at, known>>
    BY <1>8 DEF CancelKill
  <2> QED BY <2>1, <2>2 DEF SeenInv, AllMarked
<1>9. CASE GuestStep
  <2>0. UNCHANGED supVars /\ Doomed /\ AllMarked
    BY <1>0, <1>9 DEF GuestStep, supVars, Doomed
  <2>1. ASSUME NEW p \in Tid, GuestExecBegin(p) \/ GuestExecDone(p) \/ GuestExit(p) \/ GuestThreadExit(p)
                              \/ BootExit(p)
        PROVE  AllMarked'
    BY <2>0, <2>1 DEF GuestExecBegin, GuestExecDone, GuestExit, GuestThreadExit, BootExit, supVars,
       AllMarked
  <2>2. ASSUME NEW p \in Tid, NEW q \in Tid, NEW thread, GuestClone(p, q, thread) PROVE AllMarked'
    BY <2>0, <2>2 DEF GuestClone, AllMarked
  <2>3. ASSUME NEW p \in Tid, NEW q \in Tid, GuestKill(p, q) PROVE AllMarked'
    BY <2>0, <2>3 DEF GuestKill, AllMarked
  <2> HIDE DEF AllMarked
  <2> QED BY <1>9, <2>1, <2>2, <2>3 DEF GuestStep
<1>10. ASSUME NEW p \in Tid, KernelKill(p) PROVE AllMarked'
  BY <1>0, <1>10 DEF KernelKill, Die, supVars, Doomed, AllMarked
<1>11. CASE UNCHANGED vars
  BY <1>0, <1>11 DEF vars, supVars, Doomed, AllMarked
<1>12. Create \/ Start \/ Fault \/ PrepareFails \/ Spawn \/ MainKnown \/ SeizeFails \/ SeizeReap
         \/ LoopEnds \/ FinishStart \/ Finish => sup' \notin {"loop", "exit"}
  BY DEF Create, Start, Fault, PrepareFails, FailStart, Spawn, MainKnown, SeizeFails, SeizeReap,
         LoopEnds, FinishStart, Finish
<1> QED BY <1>1, <1>2, <1>3, <1>4, <1>5, <1>6, <1>7, <1>8, <1>9, <1>10, <1>11, <1>12
        DEF Next, SupStep, CancelStep, Finished

LEMMA InvInit == Init => Inv
BY SupervisorAssumption
   DEF Init, TasksInit, Inv, TypeOK, TasksTypeOK, GroupInv, ExecInv, LaunchInv, SeenInv, ReuseInv,
       FreshInv, DoneMeansGone, NoSurvivor, NoTasks, Alive, Live

LEMMA InvStep == Inv /\ [Next]_vars => Inv'
<1>1. Inv => TypeOK
  BY DEF Inv
<1> QED BY <1>1, TypeStep, GroupStep, FreshStep, ExecStep, LaunchStep, SeenStep, ReuseStep, DoneStep,
           SurvivorStep DEF Inv

(* The inductive invariant holds of every supervisor.                      *)
THEOREM Invariant == Spec => []Inv
BY InvInit, InvStep, PTL DEF Spec

(* Type correctness of the supervisor's tables and of the kernel's.        *)
THEOREM TypeCorrect == Spec => []TypeOK
<1>1. Inv => TypeOK
  BY DEF Inv
<1> QED BY Invariant, <1>1, PTL

(* After a cancel(), or the exit of the initial process, every live task   *)
(* of the session has SIGKILL pending or stands at a stop where it will    *)
(* get it: for any number of processes and threads, any reuse of ids and   *)
(* any order of waitpid's reports.                                         *)
THEOREM NobodySurvives == Spec => []NoSurvivor
<1>1. Inv => NoSurvivor
  BY DEF Inv
<1> QED BY Invariant, <1>1, PTL

(* A verdict is published only when no task is left.                       *)
THEOREM VerdictIsLast == Spec => []DoneMeansGone
<1>1. Inv => DoneMeansGone
  BY DEF Inv
<1> QED BY Invariant, <1>1, PTL
-----------------------------------------------------------------------------
(* KnownProcessIsOurs.  A fork event may come after its child has exited   *)
(* and been collected; the supervisor then finds the child in exited_ and  *)
(* does not add it again.  That memory is complete as long as exited_ has  *)
(* not been emptied for reaching its capacity.                             *)
Roomy == ~(Cardinality(exited) >= kMaxExited)

ForkPending(p) == task[p] = "stop" /\ stopped_at[p] = "fork"

(* A process that was collected while the event of its creation is still   *)
(* pending is remembered, and only one event names it.                     *)
ForkInv ==
  /\ \A p \in Tid : ForkPending(p) =>
       LET q == stop_msg[p] IN
         task[q] = "free" /\ group[q] = q => q \in exited \/ (sup = "exit" /\ cur = q)
  /\ \A p, r \in Tid : ForkPending(p) /\ ForkPending(r) /\ stop_msg[p] = stop_msg[r] => p = r

(* The initial process is not collected before it is seized.               *)
MainInv == sup \in {"known", "seize", "seize_reap"} => task[Main] # "free"

KnownInv == ForkInv /\ MainInv /\ KnownProcessIsOurs

(* The events that are pending, and the children they name.                *)
LEMMA ForkStep ==
  ASSUME Inv, KnownInv, Roomy, [Next]_vars
  PROVE  ForkInv'
<1> USE SupervisorAssumption
    DEF Inv, TypeOK, TasksTypeOK, taskVars, KnownInv, ForkInv, ForkPending
<1>1. CASE UNCHANGED <<task, group, stopped_at, stop_msg>> /\ sup # "exit" /\ exited' = exited
  BY <1>1
<1>2. CASE Spawn
  BY <1>2 DEF Spawn, LaunchInv, NoTasks
<1>3. CASE SeizeReap
  BY <1>3 DEF SeizeReap, Collect, LaunchInv
<1>4. CASE Seize
  BY <1>4 DEF Seize, Continue, LaunchInv
<1>5. ASSUME NEW p \in Tid, StopInit(p) PROVE ForkInv'
  BY <1>5 DEF StopInit, Stop, Continue
<1>6. ASSUME NEW p \in Tid, StopExec(p) PROVE ForkInv'
  BY <1>6 DEF StopExec, Stop, Continue
<1>7. ASSUME NEW p \in Tid, StopFork(p) PROVE ForkInv'
  <2>1. /\ sup = "loop" /\ sup' = "loop" /\ Continue(p) /\ ForkPending(p)
        /\ exited \ {stop_msg[p]} \subseteq exited'
    BY <1>7 DEF StopFork, Stop
  <2> QED BY <2>1 DEF Continue
<1>8. ASSUME NEW p \in Tid, CollectExit(p) PROVE ForkInv'
  BY <1>8 DEF CollectExit, Collect
<1>9. CASE HandleExit
  <2>1. exited' = exited \cup {cur}
    BY <1>9 DEF HandleExit, Roomy
  <2> QED BY <1>9, <2>1 DEF HandleExit
<1>10. CASE GuestStep
  <2>0. UNCHANGED supVars
    BY <1>10 DEF GuestStep
  <2> USE <2>0 DEF supVars
  <2>1. ASSUME NEW p \in Tid, GuestExecBegin(p) PROVE ForkInv'
    BY <2>1 DEF GuestExecBegin
  <2>2. ASSUME NEW p \in Tid, GuestExecDone(p) PROVE ForkInv'
    BY <2>2 DEF GuestExecDone
  <2>3. ASSUME NEW p \in Tid, GuestExit(p) \/ GuestThreadExit(p) \/ BootExit(p) PROVE ForkInv'
    BY <2>3 DEF GuestExit, GuestThreadExit, BootExit
  <2>4. ASSUME NEW p \in Tid, NEW q \in Tid, NEW thread, GuestClone(p, q, thread) PROVE ForkInv'
    BY <2>4 DEF GuestClone, Unnamed
  <2>5. ASSUME NEW p \in Tid, NEW q \in Tid, GuestKill(p, q) PROVE ForkInv'
    BY <2>5 DEF GuestKill
  <2> HIDE DEF ForkInv
  <2> QED BY <1>10, <2>1, <2>2, <2>3, <2>4, <2>5 DEF GuestStep
<1>11. ASSUME NEW p \in Tid, KernelKill(p) PROVE ForkInv'
  BY <1>11 DEF KernelKill, Die, supVars
<1>12. CASE UNCHANGED <<task, group, stopped_at, stop_msg, sup, cur, exited>>
  BY <1>12
<1>13. Create \/ Start \/ Fault \/ PrepareFails \/ MainKnown \/ SeizeFails \/ LoopEnds
         \/ FinishStart \/ Finish
         => UNCHANGED <<task, group, stopped_at, stop_msg>> /\ sup # "exit" /\ exited' = exited
  BY DEF Create, Start, Fault, PrepareFails, FailStart, MainKnown, SeizeFails, LoopEnds,
         FinishStart, Finish
<1>14. (\E r \in CancelReason : CancelStep(r)) \/ UNCHANGED vars
         => UNCHANGED <<task, group, stopped_at, stop_msg, sup, cur, exited>>
  BY DEF CancelStep, CancelBegin, CancelKill, vars, supVars
<1> HIDE DEF ForkInv
<1> QED BY <1>1, <1>2, <1>3, <1>4, <1>5, <1>6, <1>7, <1>8, <1>9, <1>10, <1>11, <1>12, <1>13, <1>14
        DEF Next, SupStep, Finished

(* Nobody collects the initial process behind start()'s back.              *)
LEMMA MainStep ==
  ASSUME Inv, MainInv, [Next]_vars
  PROVE  MainInv'
<1> USE SupervisorAssumption DEF Inv, TypeOK, TasksTypeOK, taskVars, MainInv
<1>1. CASE Spawn \/ MainKnown \/ SeizeFails
  BY <1>1 DEF Spawn, MainKnown, SeizeFails
<1>2. ASSUME sup' \notin {"known", "seize", "seize_reap"} PROVE MainInv'
  BY <1>2
<1>3. CASE sup' = sup /\ task' = task
  BY <1>3
<1>4. CASE GuestStep
  <2>1. UNCHANGED supVars
    BY <1>4 DEF GuestStep
  <2>2. ASSUME NEW p \in Tid, \/ GuestExecBegin(p) \/ GuestExit(p) \/ GuestThreadExit(p) \/ BootExit(p)
                              \/ \E q \in Tid, thread \in {FALSE, Threads} : GuestClone(p, q, thread)
                              \/ \E q \in Tid : GuestKill(p, q)
        PROVE  task[Main] # "free" => task'[Main] # "free"
    BY <2>2 DEF GuestExecBegin, GuestExit, GuestThreadExit, BootExit, GuestClone, GuestKill
  <2>3. ASSUME NEW p \in Tid, GuestExecDone(p) PROVE sup \notin {"known", "seize", "seize_reap"}
    BY <2>3 DEF GuestExecDone, LaunchInv
  <2> QED BY <1>4, <2>1, <2>2, <2>3 DEF GuestStep, supVars
<1>5. ASSUME NEW p \in Tid, KernelKill(p) PROVE MainInv'
  BY <1>5 DEF KernelKill, Die, supVars
<1>6. (\E r \in CancelReason : CancelStep(r)) \/ UNCHANGED vars => sup' = sup /\ task' = task
  BY DEF CancelStep, CancelBegin, CancelKill, vars, supVars
<1>7. Create \/ Start \/ Fault \/ PrepareFails \/ SeizeReap \/ Seize \/ HandleExit \/ LoopEnds
        \/ FinishStart \/ Finish => sup' \notin {"known", "seize", "seize_reap"}
  BY DEF Create, Start, Fault, PrepareFails, FailStart, SeizeReap, Seize, HandleExit, LoopEnds,
         FinishStart, Finish
<1>8. \A p \in Tid : StopInit(p) \/ StopFork(p) \/ StopExec(p) \/ CollectExit(p)
        => sup' \notin {"known", "seize", "seize_reap"}
  BY DEF StopInit, StopFork, StopExec, Stop, CollectExit
<1> HIDE DEF MainInv
<1> QED BY <1>1, <1>2, <1>3, <1>4, <1>5, <1>6, <1>7, <1>8 DEF Next, SupStep, Finished

LEMMA KnownStep ==
  ASSUME Inv, KnownInv, [Next]_vars
  PROVE  KnownProcessIsOurs'
<1> USE SupervisorAssumption
    DEF Inv, TypeOK, TasksTypeOK, taskVars, KnownInv, KnownProcessIsOurs
<1>1. CASE UNCHANGED <<task, group, known>> /\ (sup = "exit" => sup' = sup /\ cur' = cur)
  BY <1>1
<1>2. CASE Spawn
  BY <1>2 DEF Spawn, LaunchInv
<1>3. CASE MainKnown
  BY <1>3 DEF MainKnown, MainInv
<1>4. CASE SeizeReap
  BY <1>4 DEF SeizeReap, Collect
<1>5. CASE Seize
  BY <1>5 DEF Seize, Continue, get_or_add, LaunchInv
<1>6. ASSUME NEW p \in Tid, StopInit(p) PROVE KnownProcessIsOurs'
  BY <1>6 DEF StopInit, Stop, Continue, get_or_add
<1>7. ASSUME NEW p \in Tid, StopFork(p) PROVE KnownProcessIsOurs'
  <2>1. sup = "loop" /\ ForkPending(p) /\ Continue(p) /\ tracees = known /\ task[p] = "stop"
    BY <1>7 DEF StopFork, Stop, ForkPending, SeenInv
  <2>2. \A q \in known' \ known :
          q \in {p, stop_msg[p]}
          /\ ~(q = stop_msg[p] /\ q # p /\ q \in exited /\ q \notin tracees /\ Gone(q))
    BY <1>7 DEF StopFork, get_or_add
  <2>3. \A q \in known' \ known : task[q] = "free" => group[q] # q
    BY <2>1, <2>2 DEF ForkInv, Gone
  <2>4. known' \subseteq Tid
    BY TypeStep DEF Inv
  <2> QED BY <2>1, <2>3, <2>4 DEF Continue
<1>8. ASSUME NEW p \in Tid, StopExec(p) PROVE KnownProcessIsOurs'
  BY <1>8 DEF StopExec, Stop, Continue
<1>9. ASSUME NEW p \in Tid, CollectExit(p) PROVE KnownProcessIsOurs'
  BY <1>9 DEF CollectExit, Collect
<1>10. CASE HandleExit
  BY <1>10 DEF HandleExit
<1>11. CASE GuestStep
  <2>0. UNCHANGED supVars
    BY <1>11 DEF GuestStep
  <2> USE <2>0 DEF supVars
  <2>1. ASSUME NEW p \in Tid, GuestExecBegin(p) PROVE KnownProcessIsOurs'
    BY <2>1 DEF GuestExecBegin
  <2>2. ASSUME NEW p \in Tid, GuestExecDone(p) PROVE KnownProcessIsOurs'
    BY <2>2 DEF GuestExecDone
  <2>3. ASSUME NEW p \in Tid, GuestExit(p) \/ GuestThreadExit(p) \/ BootExit(p)
        PROVE  KnownProcessIsOurs'
    BY <2>3 DEF GuestExit, GuestThreadExit, BootExit
  <2>4. ASSUME NEW p \in Tid, NEW q \in Tid, NEW thread, GuestClone(p, q, thread)
        PROVE  KnownProcessIsOurs'
    BY <2>4 DEF GuestClone
  <2>5. ASSUME NEW p \in Tid, NEW q \in Tid, GuestKill(p, q) PROVE KnownProcessIsOurs'
    BY <2>5 DEF GuestKill
  <2> HIDE DEF KnownProcessIsOurs
  <2> QED BY <1>11, <2>1, <2>2, <2>3, <2>4, <2>5 DEF GuestStep
<1>12. ASSUME NEW p \in Tid, KernelKill(p) PROVE KnownProcessIsOurs'
  BY <1>12 DEF KernelKill, Die, supVars
<1>13. Create \/ Start \/ Fault \/ PrepareFails \/ SeizeFails \/ LoopEnds \/ FinishStart \/ Finish
         \/ (\E r \in CancelReason : CancelStep(r)) \/ UNCHANGED vars
         => UNCHANGED <<task, group, known>> /\ (sup = "exit" => sup' = sup /\ cur' = cur)
  BY DEF Create, Start, Fault, PrepareFails, FailStart, SeizeFails, LoopEnds, FinishStart, Finish,
         CancelStep, CancelBegin, CancelKill, vars, supVars
<1> HIDE DEF KnownProcessIsOurs
<1> QED BY <1>1, <1>2, <1>3, <1>4, <1>5, <1>6, <1>7, <1>8, <1>9, <1>10, <1>11, <1>12, <1>13
        DEF Next, SupStep, Finished

(* As long as exited_ stays below its capacity, every process in known_ is *)
(* one of the session's that has not been collected: no SIGKILL that       *)
(* cancel() or handle_exit() sends to a process hits a stranger, however   *)
(* late a fork event is reported and however ids are reused.               *)
THEOREM KnownIsOurs == Spec /\ []Roomy => []KnownProcessIsOurs
<1>1. Init => KnownInv
  BY SupervisorAssumption
     DEF Init, TasksInit, KnownInv, ForkInv, ForkPending, MainInv, KnownProcessIsOurs
<1>2. Inv /\ Roomy /\ KnownInv /\ [Next]_vars => KnownInv'
  BY ForkStep, MainStep, KnownStep DEF KnownInv
<1>3. KnownInv => KnownProcessIsOurs
  BY DEF KnownInv
<1> QED BY <1>1, <1>2, <1>3, Invariant, PTL DEF Spec

-----------------------------------------------------------------------------
(* The engine instance.  What start_state_ and the verdict are at each     *)
(* stage of the supervisor thread, and that the loop cannot end before the *)
(* initial process's exit was handled, so that there is an exit to report. *)
VerdictFor(reason) == {"start_failed"} \cup ({reason} \ {None})

StageInv ==
  /\ sup \in {"loop", "exit"} => start_state \in {"pending", "ok"}
  /\ sup = "fail_start" => start_state = "pending" /\ verdict \in VerdictFor(cancel_reason)
  /\ sup = "finish" => start_state \in {"ok", "failed"}
  /\ sup = "finish" /\ start_state = "failed" => verdict \in VerdictFor(cancel_reason)

MainExitInv ==
  /\ main_exited => main_exit \in GuestEnd
  /\ sup \in {"loop", "exit"} /\ ~main_exited =>
       (task[Main] # "free" /\ group[Main] = Main) \/ (sup = "exit" /\ cur = Main)

LEMMA StageStep ==
  ASSUME Inv, StageInv, [Next]_vars
  PROVE  StageInv'
<1> USE SupervisorAssumption DEF Inv, TypeOK, StageInv, VerdictFor
<1>1. CASE Create \/ Start \/ Spawn \/ MainKnown \/ SeizeFails
  BY <1>1 DEF Create, Start, Spawn, MainKnown, SeizeFails
<1>2. CASE PrepareFails \/ SeizeReap
  BY <1>2 DEF PrepareFails, SeizeReap, FailStart
<1>3. CASE Seize
  BY <1>3 DEF Seize, LaunchInv
<1>4. ASSUME NEW p \in Tid, StopInit(p) \/ StopFork(p) \/ StopExec(p) \/ CollectExit(p)
      PROVE  StageInv'
  BY <1>4 DEF StopInit, StopFork, StopExec, Stop, CollectExit
<1>5. CASE HandleExit
  BY <1>5 DEF HandleExit
<1>6. CASE LoopEnds
  BY <1>6 DEF LoopEnds
<1>7. CASE FinishStart \/ Finish \/ Fault
  BY <1>7 DEF FinishStart, Finish, Fault
<1>8. ASSUME NEW reason \in CancelReason, CancelStep(reason) PROVE StageInv'
  BY <1>8 DEF CancelStep, CancelBegin, CancelKill
<1>9. CASE UNCHANGED supVars
  BY <1>9 DEF supVars
<1>10. GuestStep \/ (\E p \in Tid : KernelKill(p)) \/ UNCHANGED vars => UNCHANGED supVars
  BY DEF GuestStep, KernelKill, vars
<1> HIDE DEF StageInv
<1> QED BY <1>1, <1>2, <1>3, <1>4, <1>5, <1>6, <1>7, <1>8, <1>9, <1>10 DEF Next, SupStep, Finished

LEMMA MainExitStep ==
  ASSUME Inv, MainInv, MainExitInv, [Next]_vars
  PROVE  MainExitInv'
<1> USE SupervisorAssumption DEF Inv, TypeOK, TasksTypeOK, taskVars, MainExitInv
<1>1. CASE Create \/ Start \/ PrepareFails \/ Spawn \/ MainKnown \/ SeizeFails \/ SeizeReap
           \/ LoopEnds \/ FinishStart \/ Finish \/ Fault
  BY <1>1 DEF Create, Start, PrepareFails, FailStart, Spawn, MainKnown, SeizeFails, SeizeReap,
     LoopEnds, FinishStart, Finish, Fault
<1>2. CASE Seize
  BY <1>2 DEF Seize, Continue, LaunchInv
<1>3. ASSUME NEW p \in Tid, StopInit(p) \/ StopFork(p) \/ StopExec(p) PROVE MainExitInv'
  <2>1. /\ Continue(p) /\ sup = "loop"
        /\ UNCHANGED <<sup, main_exited, main_exit>>
    BY <1>3 DEF StopInit, StopFork, StopExec, Stop
  <2> QED BY <2>1 DEF Continue
<1>4. ASSUME NEW p \in Tid, CollectExit(p) PROVE MainExitInv'
  BY <1>4 DEF CollectExit, Collect
<1>5. CASE HandleExit
  BY <1>5 DEF HandleExit
<1>6. ASSUME NEW reason \in CancelReason, CancelStep(reason) PROVE MainExitInv'
  BY <1>6 DEF CancelStep, CancelBegin, CancelKill
<1>7. CASE GuestStep
  <2>0. UNCHANGED supVars
    BY <1>7 DEF GuestStep
  <2> USE <2>0 DEF supVars
  <2>1. ASSUME NEW p \in Tid, GuestExecBegin(p) \/ GuestExit(p) \/ GuestThreadExit(p) \/ BootExit(p)
        PROVE  MainExitInv'
    BY <2>1 DEF GuestExecBegin, GuestExit, GuestThreadExit, BootExit
  <2>2. ASSUME NEW p \in Tid, GuestExecDone(p) PROVE MainExitInv'
    BY <2>2 DEF GuestExecDone
  <2>3. ASSUME NEW p \in Tid, NEW q \in Tid, NEW thread, GuestClone(p, q, thread) PROVE MainExitInv'
    BY <2>3 DEF GuestClone
  <2>4. ASSUME NEW p \in Tid, NEW q \in Tid, GuestKill(p, q) PROVE MainExitInv'
    BY <2>4 DEF GuestKill
  <2> HIDE DEF MainExitInv
  <2> QED BY <1>7, <2>1, <2>2, <2>3, <2>4 DEF GuestStep
<1>8. ASSUME NEW p \in Tid, KernelKill(p) PROVE MainExitInv'
  BY <1>8 DEF KernelKill, Die, supVars
<1>9. CASE UNCHANGED vars
  BY <1>9 DEF vars, supVars
<1> HIDE DEF MainExitInv
<1> QED BY <1>1, <1>2, <1>3, <1>4, <1>5, <1>6, <1>7, <1>8, <1>9 DEF Next, SupStep, Finished

(* Every step of the supervisor's thread, of a cancelling thread or of the *)
(* kernel is a step of the engine instance, or none.                       *)
LEMMA EngineStep ==
  ASSUME Inv, StageInv, MainExitInv, [Next]_vars
  PROVE  [E!EngineNext]_(E!engineVars)
<1> USE SupervisorAssumption
    DEF EngineState, E!engineVars, E!EngineNext, E!EngineOwnStep, E!CancelReason, CancelReason
<1>1. CASE Create
  BY <1>1 DEF Create, E!EngineCreate
<1>2. CASE Start
  BY <1>2 DEF Start, E!EngineStart, Inv, LaunchInv
<1>3. CASE Spawn \/ MainKnown \/ SeizeFails \/ Seize
  BY <1>3 DEF Spawn, MainKnown, SeizeFails, Seize, Inv, LaunchInv
<1>4. CASE PrepareFails \/ SeizeReap
  BY <1>4 DEF PrepareFails, SeizeReap, FailStart, E!EngineStartFails, Inv, LaunchInv
<1>5. ASSUME NEW p \in Tid, StopInit(p) \/ StopFork(p) \/ CollectExit(p) \/ StopExec(p)
      PROVE  [E!EngineNext]_(E!engineVars)
  <2>1. CASE StopInit(p) \/ StopFork(p) \/ CollectExit(p)
    BY <2>1 DEF StopInit, StopFork, CollectExit, Stop
  <2>2. CASE StopExec(p)
    BY <2>2 DEF StopExec, Stop, E!EngineExec
  <2> QED BY <1>5, <2>1, <2>2
<1>6. CASE HandleExit
  BY <1>6 DEF HandleExit
<1>7. CASE LoopEnds
  <2>1. CASE start_state = "ok"
    <3>1. verdict' \in E!ExitReason
      BY <1>7, TypeStep DEF Inv, TypeOK, E!ExitReason, E!GuestEnd, GuestEnd
    <3>2. cancel_reason = None => verdict' \in E!GuestEnd
      BY <1>7, <2>1 DEF LoopEnds, NoTasks, MainExitInv, GuestEnd, E!GuestEnd
    <3>3. E!EngineEnd(verdict')
      BY <1>7, <2>1, <3>2 DEF LoopEnds, E!EngineEnd
    <3> QED BY <3>1, <3>3
  <2>2. CASE start_state # "ok"
    BY <1>7, <2>2 DEF LoopEnds
  <2> QED BY <2>1, <2>2
<1>8. CASE FinishStart
  BY <1>8 DEF FinishStart, E!EngineStartFails, StageInv
<1>9. CASE Finish
  <2>1. CASE start_state = "ok"
    BY <1>9, <2>1 DEF Finish
  <2>2. CASE start_state = "failed"
    <3>1. verdict \in E!ExitReason
      BY DEF Inv, TypeOK, E!ExitReason, E!GuestEnd, GuestEnd
    <3>2. E!EngineEnd(verdict)
      BY <1>9, <2>2 DEF Finish, StageInv, VerdictFor, E!EngineEnd
    <3> QED BY <3>1, <3>2
  <2> QED BY <1>9, <2>1, <2>2 DEF Finish, StageInv
<1>10. CASE Fault
  BY <1>10 DEF Fault, E!EngineFault
<1>11. ASSUME NEW reason \in CancelReason, CancelBegin(reason) PROVE [E!EngineNext]_(E!engineVars)
  BY <1>11 DEF CancelBegin, E!EngineCancel, E!FirstReason
<1>12. ASSUME NEW reason \in CancelReason, CancelKill(reason) PROVE [E!EngineNext]_(E!engineVars)
  BY <1>12 DEF CancelKill
<1>13. CASE UNCHANGED supVars
  BY <1>13 DEF supVars
<1>14. GuestStep \/ (\E p \in Tid : KernelKill(p)) \/ UNCHANGED vars => UNCHANGED supVars
  BY DEF GuestStep, KernelKill, vars
<1> HIDE DEF EngineState, E!engineVars, E!EngineNext, E!EngineOwnStep, E!CancelReason, CancelReason
<1> QED BY <1>1, <1>2, <1>3, <1>4, <1>5, <1>6, <1>7, <1>8, <1>9, <1>10, <1>11, <1>12, <1>13, <1>14
        DEF Next, SupStep, CancelStep, Finished

(* The supervisor implements the engine instance that Session is built on: *)
(* start() answers once, the first reason to cancel wins, and one verdict  *)
(* is published, which says how the initial process ended unless the       *)
(* session was cancelled in time or did not start.                         *)
THEOREM EngineRefinement == Spec => ImplementsEngine
<1>1. Init => E!EngineInit
  BY DEF Init, E!EngineInit, EngineState
<1>2. Init => MainInv /\ StageInv /\ MainExitInv
  BY DEF Init, MainInv, StageInv, MainExitInv
<1>3. Inv /\ MainInv /\ StageInv /\ MainExitInv /\ [Next]_vars
        => MainInv' /\ StageInv' /\ MainExitInv'
  BY MainStep, StageStep, MainExitStep
<1>4. Inv /\ StageInv /\ MainExitInv /\ [Next]_vars => [E!EngineNext]_(E!engineVars)
  BY EngineStep
<1> QED BY <1>1, <1>2, <1>3, <1>4, Invariant, PTL DEF Spec, ImplementsEngine, E!EngineSpec
=============================================================================
