---------------------------- MODULE SyscallStops ----------------------------
(***************************************************************************)
(* The ptrace stops of one guest process, as Supervisor::handle_stop sees  *)
(* them: entry and exit stops of a system call, the seccomp event, the     *)
(* exec and clone events, the SIGSYS of a host policy, job-control stops.  *)
(* The kernel half of every thread (where it stands, what its registers    *)
(* hold) is external; the supervisor half is the tracee record.            *)
(*                                                                         *)
(* Data is abstracted to what the stops tell apart: an argument register   *)
(* is the guest's own or holds an address the supervisor put there; path   *)
(* lookups may come out any way (PathResolver models them).                *)
(***************************************************************************)
EXTENDS Naturals, FiniteSets

CONSTANTS Threads,      \* thread ids of the process
          Leader,       \* its thread-group leader
          NoThread,     \* no load request
          LeaderCalls,  \* the calls the leader makes, and the other threads
          OtherCalls,
          Options       \* sessions and hosts to choose from: seccomp and info
                        \* (GET_SYSCALL_INFO) in use, a host policy, an identity, hard
                        \* links emulated, sockets allowed by the filter ("host"), refused
                        \* by it ("none") or looked at by the supervisor ("audit")

ASSUME LeaderIsThread == Leader \in Threads

Legacy == {"open", "stat", "rename", "poll", "dup2", "time"}  \* host policies trap these
PathCalls == {"open", "openat", "stat", "newfstatat", "access", "readlinkat", "getcwd", "chdir",
              "unlinkat", "rename", "renameat", "linkat"}
Calls == Legacy \cup PathCalls \cup
         {"ppoll", "dup3", "fchownat", "getxattr", "futimes", "fstat", "getdents64", "prctl", "read",
          "connect", "sendmsg", "socket", "kill", "getuid", "setuid", "execve", "execveat", "clone",
          "mount", "rseq"}

ASSUME CallsAreCalls == LeaderCalls \cup OtherCalls \subseteq Calls

ASSUME NoThreadIsNone == NoThread \notin Threads

VARIABLES opt,      \* the options of this session, never changed
          at,       \* where each thread stands
          nr,       \* what its syscall-number register holds
          args,     \* the argument registers that hold the supervisor's addresses
          lost,     \* those it set to other values it keeps no copy of the old ones for
          ret,      \* what its return register holds
          mode,     \* how it was last resumed: PTRACE_CONT or PTRACE_SYSCALL
          trap,     \* a SIGSYS on its way: none, for the call, for the skip marker
          served,   \* how the call was served so far (history)
          image,    \* who exec'd the running image and whose load request it was given
          by,       \* message of a pending exec event: the thread that called execve
          \* the supervisor's records
          pend,     \* PendingSyscall
          insys,    \* in_syscall
          seen,     \* exec_seen
          req,      \* load_request: the thread that planned it, or NoThread
          filtered, \* the process is in guest_filtered_
          files,    \* stand-in files by the thread that opens them
          orphans   \* stand-in files of threads that were killed inside the open

kernel == <<at, nr, args, lost, ret, mode, trap, served, image, by>>
records == <<pend, insys, seen, req, filtered, files, orphans>>
vars == <<opt, kernel, records>>

Fixups == {"none", "emulated_return", "getcwd", "readlink_proc", "stat",
           "rename_links", "dirents"}
PendingSyscall == [rw : SUBSET (0 .. 5), fix : Fixups, scratch : BOOLEAN]
NoPending == [rw |-> {}, fix |-> "none", scratch |-> FALSE]

Running == {"user", "again", "run", "listen"}
Stopped == {"new", "entry", "trace", "exit", "sigsys", "execev", "cloneev",
            "signal", "group", "woken"}
UserMode == {"user", "signal", "group", "listen", "woken"}

active_fixups_only(p) == p.fix # "none"

\* rewrite_arg, every fixup and a stand-in set pending.active.
active(p) == p.rw # {} \/ p.fix # "none" \/ p.scratch

----------------------------------------------------------------------------
\* What a handler does at the entry stop: arguments rewritten, answer or not, fixup.

act(rw, skip, fix) ==
    [rw |-> rw, skip |-> skip, fix |-> fix, scratch |-> FALSE, lost |-> {}]
through == act({}, FALSE, "none")
refused == act({}, TRUE, "none")          \* deny(), or an error of the translation

\* translate_path and apply_translation: an errno, a path that is the same on both
\* sides, or a rewritten argument.
translate_path(i) == {through, act({i}, FALSE, "none"), refused}

run(i) == translate_path(i)

\* host_stat, host_readlink and host_xattr: the supervisor asks the kernel itself and
\* answers with the result, or with EFAULT when it cannot be handed over.
host_query == {act({}, TRUE, "none")}

\* A read-only query: answered by the supervisor without touching a register, or
\* (in /proc) left to the kernel.
resolve_query(i) == host_query \cup translate_path(i)

stat_fixup(outs) ==
    {[o EXCEPT !.fix = f] : o \in {x \in outs : ~x.skip},
                            f \in IF opt.identity THEN {"stat"} ELSE {"none", "stat"}}
      \cup {x \in outs : x.skip}

stat_path(i) == stat_fixup(resolve_query(i))

access_path(i) == resolve_query(i)

readlink(i) == resolve_query(i) \cup
               {[o EXCEPT !.fix = "readlink_proc"] : o \in {x \in translate_path(i) : ~x.skip}}

\* The name of an emulated hard link is removed by the supervisor, after the path of
\* the call has been rewritten.
unlink_like(i) == run(i) \cup {[o EXCEPT !.skip = TRUE] : o \in run(i)}

\* Two translations: the second may fail, or the pair be refused (EXDEV, EEXIST) or
\* answered, when the first argument is already rewritten.
both(i, j) == {act(o.rw \cup p.rw, p.skip, "none") :
                  o \in {x \in translate_path(i) : ~x.skip}, p \in translate_path(j)}

rename_like(i, j) ==
    {refused} \cup both(i, j) \cup {[o EXCEPT !.skip = TRUE] : o \in both(i, j)}
      \cup {[o EXCEPT !.fix = "rename_links"] : o \in {x \in both(i, j) : ~x.skip}}

link_like(i, j) ==
    {refused} \cup both(i, j) \cup {[o EXCEPT !.skip = TRUE] : o \in both(i, j)}

\* A stand-in, where the host refuses a /proc file or it tells of another identity; the
\* file itself when a stand-in cannot be made.
proc_stand_in(i) == {[act({i}, FALSE, "none") EXCEPT !.scratch = TRUE]}

\* A stand-in is created before the path is rewritten; when that fails its name is
\* removed at once.
open_path(i) == run(i) \cup proc_stand_in(i)

chown_like(i) == run(i) \cup
                 (IF opt.identity THEN {[o EXCEPT !.skip = TRUE] : o \in run(i)} ELSE {})

handle_fd_meta == {through, refused}

handle_sockaddr(i, j) == {through, refused, act({i, j}, FALSE, "none")}

handle_sendmsg == {through, refused, act({1}, FALSE, "none")}

handle_exec(at_variant) ==
    {refused, act(IF at_variant THEN {0, 1, 2, 4} ELSE {0, 1}, FALSE, "none")}

handle_signal_target == {through, refused}

handle_identity == IF opt.identity THEN {refused} ELSE {through}

\* The flag that would hide the child is cleared in the register itself, not through
\* rewrite_arg.  With the filter only calls that set it get here.
clone == {[through EXCEPT !.lost = {0}]} \cup (IF opt.seccomp THEN {} ELSE {through})

path_handler(c) ==
    CASE c = "open" -> open_path(0)
      [] c = "openat" -> open_path(1)
      [] c = "stat" -> stat_path(0)
      [] c = "newfstatat" -> stat_path(1)
      [] c = "access" -> access_path(0)
      [] c = "readlinkat" -> readlink(1)
      [] c = "getcwd" -> {act({}, FALSE, "getcwd")}
      [] c = "chdir" -> run(0)
      [] c = "unlinkat" -> unlink_like(1)
      [] c = "rename" -> rename_like(0, 1)
      [] c = "renameat" -> rename_like(1, 3)
      [] c = "linkat" -> link_like(1, 3)

dispatch(c) ==
    CASE c \in PathCalls -> path_handler(c)
      [] c = "fchownat" -> chown_like(1)
      [] c = "getxattr" -> resolve_query(0)
      [] c = "futimes" -> handle_fd_meta
      [] c = "fstat" -> stat_fixup({through})
      [] c = "getdents64" ->
           IF opt.links THEN {through, act({}, FALSE, "dirents")} ELSE {through}
      [] c = "connect" -> handle_sockaddr(1, 2)
      [] c = "sendmsg" -> handle_sendmsg
      [] c = "socket" -> IF opt.sockets = "host" THEN {through} ELSE {through, refused}
      [] c = "kill" -> handle_signal_target
      [] c \in {"getuid", "setuid"} -> handle_identity
      [] c \in {"execve", "execveat"} -> handle_exec(c = "execveat")
      [] c = "clone" -> clone
      [] c = "mount" -> {refused}
      [] OTHER -> {through}

----------------------------------------------------------------------------
\* The filters.

\* The allow list of the supervisor's own filter (prepare_and_spawn).
Allowed(c) == \/ c \in {"read", "rseq", "time", "poll", "ppoll", "dup2", "dup3"}
              \/ c \in {"getuid", "setuid"} /\ ~opt.identity
              \/ c = "socket" /\ opt.sockets = "host"
              \/ c = "fstat" /\ ~opt.identity /\ ~opt.links
              \/ c = "getdents64" /\ ~opt.links

\* build_seccomp_filter: what is not allowed raises the seccomp event.  Sockets that the
\* network policy refuses fail in the kernel; clone is looked at when it asks for an
\* untraced child.
filter(c) == IF c = "clone" THEN {"run", "trace"}
             ELSE IF Allowed(c) \/ (c = "socket" /\ opt.sockets = "none") THEN {"run"}
             ELSE {"trace"}

\* External: what an Android-like host policy traps, the skip marker included, and
\* what a filter of the guest's own traps.
Traps(c) == \/ opt.policy /\ c \in Legacy \cup {"setuid", "rseq", "skip"}
            \/ filtered /\ c = "read"

----------------------------------------------------------------------------
Init == /\ opt \in Options
        /\ at = [t \in Threads |-> IF t = Leader THEN "user" ELSE "none"]
        /\ nr = [t \in Threads |-> "none"]
        /\ args = [t \in Threads |-> {}]
        /\ lost = [t \in Threads |-> {}]
        /\ ret = [t \in Threads |-> "none"]
        /\ mode = [t \in Threads |-> IF opt.seccomp THEN "cont" ELSE "syscall"]
        /\ trap = [t \in Threads |-> "none"]
        /\ served = [t \in Threads |-> "no"]
        /\ image = [prog |-> Leader, given |-> Leader]
        /\ by = NoThread
        /\ pend = [t \in Threads |-> NoPending]
        /\ insys = [t \in Threads |-> FALSE]
        /\ seen = [t \in Threads |-> FALSE]
        /\ req = [t \in Threads |-> NoThread]
        /\ filtered = FALSE
        /\ files = {}
        /\ orphans = {}

\* resume(): the exit stop is asked for only where something waits for it.
resume_mode(p) == IF ~opt.seccomp \/ active(p) THEN "syscall" ELSE "cont"

\* External: a system call instruction with number n, in the mode the thread runs in.
Enter(t, n) ==
    IF mode[t] = "syscall" THEN at' = [at EXCEPT ![t] = "entry"] /\ UNCHANGED trap
    ELSE IF Traps(n) THEN /\ at' = [at EXCEPT ![t] = "sigsys"]
                          /\ trap' = [trap EXCEPT ![t] = "call"]
    ELSE /\ \E next \in filter(n) : at' = [at EXCEPT ![t] = next]
         /\ UNCHANGED trap

\* External: the guest makes a call, for which it loads the argument registers.
Ask(t) ==
    /\ at[t] = "user"
    /\ \E c \in IF t = Leader THEN LeaderCalls ELSE OtherCalls :
          /\ nr' = [nr EXCEPT ![t] = c]
          /\ Enter(t, c)
    /\ ret' = [ret EXCEPT ![t] = "none"]
    /\ served' = [served EXCEPT ![t] = "no"]
    /\ lost' = [lost EXCEPT ![t] = {}]
    /\ UNCHANGED <<opt, args, mode, image, by, records>>

\* External: the instruction is executed again, after a restart or an interruption.
AskAgain(t) ==
    /\ at[t] = "again"
    /\ Enter(t, nr[t])
    /\ UNCHANGED <<opt, nr, args, lost, ret, mode, served, image, by, records>>

\* The number register once a call is over is of no interest to anyone.
Number(t, n) == nr' = [nr EXCEPT ![t] = IF at'[t] = "user" THEN "none" ELSE n]

\* External: how a thread goes on from a call, with or without an exit stop.
Leaves(m) == IF m = "syscall" THEN "exit" ELSE "user"

\* External: the kernel carries the call out, or is interrupted before it did.
KernelRuns(t) ==
    /\ at[t] = "run"
    /\ nr[t] # "clone"
    /\ \/ /\ served' = [served EXCEPT ![t] = IF @ = "no" THEN "ran" ELSE "both"]
          /\ ret' = [ret EXCEPT ![t] = "kernel"]
          /\ at' = [at EXCEPT ![t] = Leaves(mode[t])]
       \/ /\ nr[t] \in {"openat", "connect"}
          /\ ret' = [ret EXCEPT ![t] = "restart"]
          /\ at' = [at EXCEPT ![t] = IF mode[t] = "syscall" THEN "exit" ELSE "again"]
          /\ UNCHANGED served
    /\ Number(t, nr[t])
    /\ UNCHANGED <<opt, args, lost, mode, trap, image, by, records>>

\* External: a new thread; both it and its parent stop.
KernelClones(t) ==
    /\ at[t] = "run"
    /\ nr[t] = "clone"
    /\ \E u \in Threads \ {Leader} :
          /\ at[u] = "none"
          /\ at' = [at EXCEPT ![t] = "cloneev", ![u] = "new"]
          /\ ret' = [ret EXCEPT ![t] = "kernel", ![u] = "kernel"]
          /\ served' = [served EXCEPT ![t] = IF @ = "no" THEN "ran" ELSE "both",
                                      ![u] = "ran"]
          /\ lost' = [lost EXCEPT ![u] = lost[t]]
    /\ UNCHANGED <<opt, nr, args, mode, trap, image, by, records>>

\* External: an execve succeeds.  Every other thread of the process is gone, the new
\* image runs under the leader's id, and the others' deaths are reported at once,
\* except that of the caller, whose id vanishes silently.
KernelExecs(t) ==
    LET killed == {u \in Threads : u # Leader /\ u # t}
    IN /\ at[t] = "run"
       /\ nr[t] \in {"execve", "execveat"}
       /\ at' = [u \in Threads |-> IF u = Leader THEN "execev" ELSE "none"]
       /\ by' = t
       /\ image' = [prog |-> t, given |-> NoThread]
       /\ nr' = [u \in Threads |-> IF u = Leader THEN nr[t] ELSE "none"]
       /\ args' = [u \in Threads |-> {}]
       /\ lost' = [u \in Threads |-> {}]
       /\ ret' = [u \in Threads |-> IF u = Leader THEN "kernel" ELSE "none"]
       /\ served' = [u \in Threads |-> IF u # Leader THEN "no"
                                       ELSE IF served[t] = "no" THEN "ran" ELSE "both"]
       /\ trap' = [u \in Threads |-> "none"]
       /\ pend' = [u \in Threads |-> IF u \in killed THEN NoPending ELSE pend[u]]
       /\ req' = [u \in Threads |-> IF u \in killed THEN NoThread ELSE req[u]]
       /\ orphans' = orphans \cup (files \cap killed)
       /\ files' = files \ killed
       /\ UNCHANGED <<opt, mode, insys, seen, filtered>>

\* External: a signal for a thread in user mode, perhaps one that stops the process.
Signalled(t) ==
    /\ at[t] = "user"
    /\ at' = [at EXCEPT ![t] = "signal"]
    /\ UNCHANGED <<opt, nr, args, lost, ret, mode, trap, served, image, by, records>>

\* External: SIGCONT wakes a thread left in PTRACE_LISTEN.
Continued(t) ==
    /\ at[t] = "listen"
    /\ at' = [at EXCEPT ![t] = "woken"]
    /\ UNCHANGED <<opt, nr, args, lost, ret, mode, trap, served, image, by, records>>

\* External: SIGKILL for the process, whatever its threads are doing.
Killed ==
    /\ at[Leader] # "none"
    /\ at' = [t \in Threads |-> "none"]
    /\ pend' = [t \in Threads |-> NoPending]
    /\ orphans' = orphans \cup files
    /\ files' = {}
    /\ UNCHANGED <<opt, nr, args, lost, ret, mode, trap, served, image, by,
                   insys, seen, req, filtered>>

----------------------------------------------------------------------------
\* The stops, handled by the one supervisor thread.

\* get_or_add: under PTRACE_SYSCALL the first syscall stop of a new task is taken to
\* be an exit stop.
first_insys == ~opt.seccomp

\* External: whether a new task passes an exit stop on its way out of clone.  Kernels
\* differ; where the kernel does not say which stop it is, it is taken to, as above.
first_stop == IF opt.seccomp THEN {"user"}
              ELSE IF opt.info THEN {"exit", "user"} ELSE {"exit"}

\* A new thread's first stop (fresh): PTRACE_EVENT_STOP or a plain SIGSTOP.
OnNew(t) ==
    /\ at[t] = "new"
    /\ pend' = [pend EXCEPT ![t] = NoPending]
    /\ insys' = [insys EXCEPT ![t] = first_insys]
    /\ seen' = [seen EXCEPT ![t] = FALSE]
    /\ req' = [req EXCEPT ![t] = NoThread]
    /\ mode' = [mode EXCEPT ![t] = resume_mode(NoPending)]
    /\ \E next \in first_stop : at' = [at EXCEPT ![t] = next]
    /\ UNCHANGED <<opt, nr, args, lost, ret, trap, served, image, by,
                   filtered, files, orphans>>

\* The clone event of the parent, still inside its call.
OnClone(t) ==
    /\ at[t] = "cloneev"
    /\ mode' = [mode EXCEPT ![t] = resume_mode(pend[t])]
    /\ at' = [at EXCEPT ![t] = Leaves(mode'[t])]
    /\ Number(t, nr[t])
    /\ UNCHANGED <<opt, args, lost, ret, trap, served, image, by, records>>

request_leader_first(caller) == IF req[Leader] # NoThread THEN req[Leader] ELSE req[caller]

\* The load request for the new image: that of the thread that called execve, else
\* the one recorded under the leader's id.
request_for(caller) ==
    IF caller # Leader /\ req[caller] # NoThread THEN req[caller] ELSE req[Leader]

exec_insys_forgotten == insys[Leader]

\* The next syscall stop after the event is the exit of the execve.
exec_insys == IF opt.seccomp THEN insys[Leader] ELSE TRUE

OnExec ==
    /\ at[Leader] = "execev"
    /\ image' = [image EXCEPT !.given = request_for(by)]
    /\ req' = [req EXCEPT ![by] = NoThread, ![Leader] = NoThread]
    /\ pend' = [t \in Threads |-> IF t = by /\ t # Leader THEN NoPending ELSE pend[t]]
    /\ seen' = [seen EXCEPT ![Leader] = TRUE]
    /\ insys' = [insys EXCEPT ![Leader] = exec_insys]
    /\ by' = NoThread
    /\ mode' = [mode EXCEPT ![Leader] = resume_mode(pend[Leader])]
    /\ at' = [at EXCEPT ![Leader] = Leaves(mode'[Leader])]
    /\ Number(Leader, nr[Leader])
    /\ UNCHANGED <<opt, args, lost, ret, trap, served, filtered, files, orphans>>

\* Group stops, and the stop that ends one.
OnEventStop(t) ==
    /\ at[t] \in {"group", "woken"}
    /\ mode' = [mode EXCEPT ![t] = resume_mode(pend[t])]
    /\ at' = [at EXCEPT ![t] = IF @ = "group" THEN "listen" ELSE "user"]
    /\ UNCHANGED <<opt, nr, args, lost, ret, trap, served, image, by, records>>

\* A signal-delivery stop: the signal is injected unchanged.
OnSignal(t) ==
    /\ at[t] = "signal"
    /\ mode' = [mode EXCEPT ![t] = resume_mode(pend[t])]
    /\ \E next \in {"user", "group"} : at' = [at EXCEPT ![t] = next]
    /\ UNCHANGED <<opt, nr, args, lost, ret, trap, served, image, by, records>>

\* on_syscall_stop: entry or exit.
is_exit(t) ==
    IF opt.info /\ ~(opt.seccomp /\ active(pend[t])) THEN at[t] = "exit"
    ELSE IF opt.seccomp THEN TRUE
    ELSE insys[t]

undo_forgotten(t, o) == args[t] \cup o.rw

\* A refused call: the arguments rewritten so far are the guest's again.
undo(t, o) == args[t]

skip_forgotten(t, o) == nr[t]

\* A refused or answered call is skipped: its number becomes -1.
skip_number(t, o) == IF o.skip THEN "skip" ELSE nr[t]

\* The pending state the entry stop leaves behind.
pending_after(o) ==
    IF ~o.skip THEN [rw |-> o.rw, fix |-> o.fix, scratch |-> o.scratch]
    ELSE IF opt.seccomp THEN NoPending
    ELSE [NoPending EXCEPT !.fix = "emulated_return"]

\* The end of on_syscall_enter, for what the handler decided; the kernel goes on, and its
\* filters see the number the stop left.
enter_with(t, o) ==
    LET n == skip_number(t, o)
        trapped == at[t] = "entry" /\ Traps(n)
    IN /\ pend' = [pend EXCEPT ![t] = pending_after(o)]
       /\ seen' = [seen EXCEPT ![t] = FALSE]
       /\ req' = [req EXCEPT ![t] =
                     IF nr[t] \in {"execve", "execveat"} /\ ~o.skip THEN t ELSE NoThread]
       /\ filtered' = (filtered \/ nr[t] = "prctl")
       /\ files' = IF o.scratch THEN files \cup {t} ELSE files
       /\ args' = [args EXCEPT ![t] = IF o.skip THEN undo(t, o) ELSE @ \cup o.rw]
       /\ lost' = [lost EXCEPT ![t] = @ \cup o.lost]
       /\ mode' = [mode EXCEPT ![t] = resume_mode(pending_after(o))]
       /\ trap' = [trap EXCEPT ![t] = IF ~trapped THEN @ ELSE IF o.skip THEN "marker" ELSE "call"]
       /\ ret' = [ret EXCEPT ![t] = IF trapped THEN "clobbered" ELSE IF o.skip THEN "answer" ELSE @]
       /\ at' = [at EXCEPT ![t] = IF at[t] = "exit" THEN "user"
                                  ELSE IF trapped \/ n = "skip" THEN Leaves(mode'[t]) ELSE "run"]
       /\ Number(t, n)
       /\ served' = [served EXCEPT ![t] = IF ~o.skip THEN @
                                          ELSE IF @ = "no" THEN "answered" ELSE "both"]
       /\ UNCHANGED <<opt, image, by, orphans>>

\* on_syscall_enter, at an entry stop or at the seccomp event.
on_syscall_enter(t) == \E o \in dispatch(nr[t]) : enter_with(t, o)

fixup_forgotten(t) == ret[t]

\* fixup_exit: what the return register holds afterwards.
fixup_exit(t) == IF pend[t].fix = "emulated_return" THEN "answer" ELSE ret[t]

\* on_syscall_exit.
on_syscall_exit(t) ==
    /\ IF ~active(pend[t]) THEN UNCHANGED <<pend, seen, files, args, ret>>
       ELSE /\ files' = IF pend[t].scratch THEN files \ {t} ELSE files
            /\ ret' = [ret EXCEPT ![t] = IF seen[t] THEN @ ELSE fixup_exit(t)]
            /\ args' = [args EXCEPT ![t] = IF seen[t] THEN @ ELSE @ \ pend[t].rw]
            /\ pend' = [pend EXCEPT ![t] = NoPending]
            /\ seen' = [seen EXCEPT ![t] = FALSE]
    /\ mode' = [mode EXCEPT ![t] = resume_mode(pend'[t])]
    /\ at' = [at EXCEPT ![t] = IF @ = "entry" THEN "run"
                               ELSE IF trap[t] # "none" THEN "sigsys"
                               ELSE IF ret'[t] = "restart" THEN "again" ELSE "user"]
    /\ Number(t, nr[t])
    /\ UNCHANGED <<opt, lost, trap, served, image, by, req, filtered, orphans>>

OnSyscallStop(t) ==
    /\ at[t] \in {"entry", "exit"}
    /\ insys' = [insys EXCEPT ![t] = IF opt.seccomp THEN @ ELSE ~is_exit(t)]
    /\ IF is_exit(t) THEN on_syscall_exit(t) ELSE on_syscall_enter(t)

OnSeccompEvent(t) == at[t] = "trace" /\ on_syscall_enter(t) /\ UNCHANGED insys

\* restart_legacy: the call as its modern equivalent, which is then seen and translated
\* as usual (the pre-*at family, rename, dup2, ...; poll and select after a conversion
\* that can fail), or an answer of the supervisor's own (dup2 of one descriptor, time).
restart_legacy == [open |-> {"openat"}, stat |-> {"newfstatat"}, rename |-> {"renameat"},
                   poll |-> {"ppoll", "answer"}, dup2 |-> {"dup3", "answer"},
                   time |-> {"answer"}]

\* The argument registers in which the substitute differs from the call the guest made:
\* a directory is put before the paths, a converted timeout and a size or flag after.
restarted_args == [openat |-> 0 .. 3, newfstatat |-> 0 .. 3, renameat |-> 0 .. 3,
                   ppoll |-> 2 .. 4, dup3 |-> {2}]

\* handle_host_seccomp_trap.
OnHostTrap(t) ==
    LET ours == trap[t] = "marker" \/ (opt.policy /\ ~filtered)
        as == IF nr[t] \in DOMAIN restart_legacy THEN restart_legacy[nr[t]] ELSE {"answer"}
        ends(r, how) == /\ at' = [at EXCEPT ![t] = "user"]
                        /\ ret' = [ret EXCEPT ![t] = r]
                        /\ served' = [served EXCEPT ![t] = how]
                        /\ Number(t, nr[t])
                        /\ UNCHANGED lost
    IN /\ at[t] = "sigsys"
       /\ \/ ~ours /\ ends("signal", "no")         \* the guest's own filter: delivered
          \/ trap[t] = "marker" /\ ends(ret[t], served[t])   \* already answered: dropped
          \/ /\ ours /\ trap[t] = "call" /\ "answer" \in as
             /\ ends("answer", IF served[t] = "no" THEN "answered" ELSE "both")
          \/ \E n \in as \ {"answer"} :
                /\ ours /\ trap[t] = "call"
                /\ at' = [at EXCEPT ![t] = "again"]
                /\ Number(t, n)
                /\ lost' = [lost EXCEPT ![t] = @ \cup restarted_args[n]]
                /\ UNCHANGED <<ret, served>>
       /\ trap' = [trap EXCEPT ![t] = "none"]
       /\ mode' = [mode EXCEPT ![t] = resume_mode(pend[t])]
       /\ UNCHANGED <<opt, args, image, by, records>>

\* ~Supervisor: remove_proc_scratch, once every task is gone.
OnEnd ==
    /\ \A t \in Threads : at[t] = "none"
    /\ orphans' = {}
    /\ files' = {}
    /\ UNCHANGED <<opt, kernel, pend, insys, seen, req, filtered>>

Kernel == \/ \E t \in Threads : \/ Ask(t) \/ AskAgain(t) \/ KernelRuns(t)
                                \/ KernelClones(t) \/ KernelExecs(t)
                                \/ Signalled(t) \/ Continued(t)
          \/ Killed

Stops == \/ \E t \in Threads : \/ OnNew(t) \/ OnClone(t) \/ OnEventStop(t) \/ OnSignal(t)
                               \/ OnSyscallStop(t) \/ OnSeccompEvent(t) \/ OnHostTrap(t)
         \/ OnExec
         \/ OnEnd

Next == Kernel \/ Stops

Spec == Init /\ [][Next]_vars

----------------------------------------------------------------------------
\* Every variable holds a value of its kind: in particular only calls the dispatch
\* table knows reach it, and no call is served in a way of its own.
TypeOK ==
    /\ at \in [Threads -> Running \cup Stopped \cup {"none"}]
    /\ nr \in [Threads -> Calls \cup {"none", "skip"}]
    /\ args \in [Threads -> SUBSET (0 .. 5)] /\ lost \in [Threads -> SUBSET (0 .. 5)]
    /\ ret \in [Threads -> {"none", "kernel", "answer", "signal", "clobbered", "restart"}]
    /\ mode \in [Threads -> {"cont", "syscall"}]
    /\ trap \in [Threads -> {"none", "call", "marker"}]
    /\ served \in [Threads -> {"no", "ran", "answered"}]
    /\ image \in [prog : Threads, given : Threads \cup {NoThread}]
    /\ by \in Threads \cup {NoThread}
    /\ pend \in [Threads -> PendingSyscall]
    /\ insys \in [Threads -> BOOLEAN] /\ seen \in [Threads -> BOOLEAN]
    /\ req \in [Threads -> Threads \cup {NoThread}]
    /\ filtered \in BOOLEAN
    /\ files \subseteq Threads /\ orphans \subseteq Threads

\* on_syscall_stop never takes an entry for an exit or an exit for an entry, whatever
\* signals, events, execs and clones came between, with and without
\* PTRACE_GET_SYSCALL_INFO.
StopsToldApart ==
    \A t \in Threads : at[t] \in {"entry", "exit"} => (is_exit(t) <=> at[t] = "exit")

\* The guest never runs, or makes a call, with an argument register that a handler
\* rewrote through rewrite_arg: not after a call refused half way, an exit, an
\* interruption, an exec, or a trap and a second round as another call.  There are two
\* exceptions in the code: clone's flags, which its handler changes in
\* place, and the arguments of a call that restart_legacy turned into another because a
\* host policy trapped it.  These the guest finds changed, and no others.
GuestOwnsRegisters ==
    \A t \in Threads :
       at[t] \in UserMode \cup {"again", "entry", "trace", "sigsys"}
          => /\ args[t] = {}
             /\ \/ lost[t] \subseteq {0}
                \/ opt.policy /\ \E n \in DOMAIN restarted_args : lost[t] = restarted_args[n]

\* The name of a stand-in exists only while its thread is inside the open that uses it.
StandInsRemoved ==
    \A t \in files : pend[t].scratch /\ at[t] \in {"run", "exit", "execev"}

\* The loader of a new image is handed the request of the execve that made the image,
\* also when several threads were inside execve.
RequestFitsImage == at[Leader] \notin {"execev", "none"} => image.given = image.prog

\* What GuestCall promises, read off the stops.
phase == [t \in Threads |-> IF at[t] \in UserMode \cup {"none"}
                            THEN (IF at[t] = "none" THEN "none" ELSE "user")
                            ELSE IF served[t] = "no" THEN "asked" ELSE served[t]]
result == [t \in Threads |-> IF at[t] \in UserMode THEN ret[t] ELSE "none"]

G == INSTANCE GuestCall

\* Each call is carried out once or answered once, and the thread sees that result.
ImplementsCalls == G!Spec
=============================================================================
