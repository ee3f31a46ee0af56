------------------------- MODULE SyscallStopsProofs -------------------------
(***************************************************************************)
(* Proofs about SyscallStops, for any set of threads, any calls and any    *)
(* mix of session options: type correctness, StopsToldApart,               *)
(* GuestOwnsRegisters, StandInsRemoved, RequestFitsImage, and that the     *)
(* stops implement GuestCall.                                              *)
(*                                                                         *)
(* The inductive invariant ties each of the supervisor's records to the    *)
(* place in the kernel where the thread stands: what it was resumed with   *)
(* (ModeInv), what it takes the next stop for (InsysInv), which registers  *)
(* are rewritten (ArgsInv), which stand-in files exist (FilesInv), whose   *)
(* load request is whose (ExecInv), and how far the call has been served   *)
(* (ServedInv), and which registers the guest has lost (LostInv).          *)
(***************************************************************************)
EXTENDS SyscallStops, TLAPS

Outside == UserMode \cup {"again", "entry", "trace", "sigsys"}

(* The process is gone when its leader is, and an exec leaves nobody else. *)
LiveInv ==
  /\ at[Leader] = "none" => \A t \in Threads : at[t] = "none"
  /\ \A t \in Threads : at[t] = "execev" => t = Leader
  /\ at[Leader] = "execev" => \A t \in Threads \ {Leader} : at[t] = "none"

(* resume() asked for what the pending state needs.                        *)
ModeInv ==
  \A t \in Threads :
    /\ ~opt.seccomp => mode[t] = "syscall"
    /\ at[t] \in UserMode \cup {"again", "run", "exit"} => mode[t] = resume_mode(pend[t])
    /\ at[t] \in Outside => ~active(pend[t])
    /\ at[t] = "entry" => ~opt.seccomp
    /\ at[t] = "trace" => opt.seccomp

(* Where the kernel does not tell entry from exit, in_syscall does.        *)
InsysInv ==
  ~opt.seccomp /\ ~opt.info =>
    \A t \in Threads : /\ at[t] \in Outside => ~insys[t]
                       /\ at[t] \in {"run", "exit", "cloneev"} => insys[t]

(* Only the registers recorded in the pending state are rewritten.         *)
ArgsInv ==
  \A t \in Threads :
    /\ at[t] \in Outside \cup {"new", "execev"} => args[t] = {}
    /\ at[t] \in {"run", "exit", "cloneev"} => args[t] \subseteq pend[t].rw
    /\ seen[t] => args[t] = {}
    /\ at[t] = "none" /\ at[Leader] # "none" => args[t] = {}

(* A thread inside a call the supervisor has not served.                   *)
InCall(t) == \/ at[t] \in {"again", "entry", "trace", "run"}
             \/ at[t] \in {"exit", "sigsys"} /\ served[t] = "no"

(* Registers the guest lost are those of a clone or of one restart: a call *)
(* that may be restarted has not been before.                              *)
OneLoss(t) ==
  \/ lost[t] \subseteq {0}
  \/ opt.policy /\ \E n \in DOMAIN restarted_args : lost[t] = restarted_args[n]
LostInv ==
  \A t \in Threads :
    /\ OneLoss(t)
    /\ InCall(t) /\ nr[t] \in Legacy => lost[t] = {}
    /\ InCall(t) /\ nr[t] = "clone" => lost[t] \subseteq {0}

(* Stand-ins belong to an open that is under way.                          *)
FilesInv ==
  /\ StandInsRemoved
  /\ \A t \in Threads : at[t] = "run" /\ pend[t].scratch => nr[t] \in {"open", "openat"}

(* Every execve under way has its own request, and a new image that of the *)
(* execve that made it.                                                    *)
ExecInv ==
  /\ \A t \in Threads : at[t] = "run" /\ nr[t] \in {"execve", "execveat"} => req[t] = t
  /\ at[Leader] = "execev" => by \in Threads /\ image.prog = by /\ req[by] = by
  /\ RequestFitsImage

(* How a call has been served when its thread is about to leave it.        *)
Leaving(t) ==
  \/ /\ served[t] = "ran" /\ ret[t] = "kernel" /\ trap[t] = "none"
     /\ seen[t] \/ pend[t].fix # "emulated_return"
  \/ /\ served[t] = "no" /\ ret[t] = "restart" /\ trap[t] = "none" /\ nr[t] \in Calls
     /\ pend[t].fix # "emulated_return"
  \/ served[t] = "answered" /\ ret[t] = "answer" /\ trap[t] = "none"
  \/ served[t] = "no" /\ ret[t] = "clobbered" /\ trap[t] = "call"
  \/ /\ served[t] = "answered" /\ ret[t] = "clobbered" /\ trap[t] = "marker"
     /\ ~seen[t] /\ pend[t].fix = "emulated_return"

Trapped(t) ==
  \/ trap[t] = "call" /\ served[t] = "no"
  \/ trap[t] = "marker" /\ served[t] = "answered" /\ ret[t] = "answer"

ServedInv ==
  \A t \in Threads :
    /\ at[t] \in {"again", "entry", "trace", "run"} => served[t] = "no" /\ nr[t] \in Calls
    /\ at[t] \in {"new", "cloneev", "execev"} => served[t] = "ran" /\ ret[t] = "kernel"
    /\ at[t] \in {"run", "cloneev"} => pend[t].fix # "emulated_return"
    /\ at[t] = "sigsys" => Trapped(t)
    /\ at[t] = "exit" => Leaving(t)
    /\ at[t] \notin {"sigsys", "exit"} /\ at[Leader] # "none" => trap[t] = "none"

Inv == /\ TypeOK /\ LiveInv /\ ModeInv /\ InsysInv /\ ArgsInv /\ FilesInv /\ ExecInv /\ ServedInv
       /\ LostInv

-----------------------------------------------------------------------------
(* What a handler may do at an entry stop.                                 *)
Outcome == [rw : SUBSET (0 .. 5), skip : BOOLEAN, fix : Fixups \ {"emulated_return"},
            scratch : BOOLEAN, lost : SUBSET (0 .. 5)]
Plain == {o \in Outcome : ~o.scratch /\ o.lost = {}}

LEMMA ActPlain ==
  ASSUME NEW rw \in SUBSET (0 .. 5), NEW skip \in BOOLEAN,
         NEW fix \in Fixups \ {"emulated_return"}
  PROVE  act(rw, skip, fix) \in Plain
BY DEF act, Plain, Outcome

LEMMA PathPlain ==
  ASSUME NEW i \in 0 .. 5
  PROVE  /\ through \in Plain /\ refused \in Plain
         /\ translate_path(i) \subseteq Plain /\ host_query \subseteq Plain
         /\ resolve_query(i) \subseteq Plain
<1>1. /\ through \in Plain /\ refused \in Plain /\ act({i}, FALSE, "none") \in Plain
      /\ act({}, TRUE, "none") \in Plain
  BY ActPlain DEF through, refused, Fixups
<1> QED BY <1>1 DEF translate_path, host_query, resolve_query

(* A change of one field of what a handler does.                           *)
LEMMA ExceptPlain ==
  ASSUME NEW o \in Plain, NEW f \in Fixups \ {"emulated_return"}
  PROVE  [o EXCEPT !.fix = f] \in Plain /\ [o EXCEPT !.skip = TRUE] \in Plain
BY DEF Plain, Outcome

LEMMA StatPlain ==
  ASSUME NEW outs \in SUBSET Plain
  PROVE  stat_fixup(outs) \subseteq Plain
<1>1. {"stat"} \subseteq Fixups \ {"emulated_return"} /\ "none" \in Fixups \ {"emulated_return"}
  BY DEF Fixups
<1>2. ASSUME NEW x \in stat_fixup(outs) PROVE x \in Plain
  <2>1. \/ x \in outs
        \/ \E o \in outs, f \in {"none", "stat"} : x = [o EXCEPT !.fix = f]
    BY <1>2 DEF stat_fixup
  <2>2. ASSUME NEW o \in outs, NEW f \in {"none", "stat"} PROVE [o EXCEPT !.fix = f] \in Plain
    BY <1>1, ExceptPlain
  <2> QED BY <2>1, <2>2
<1> QED BY <1>2

LEMMA BothPlain ==
  ASSUME NEW i \in 0 .. 5, NEW j \in 0 .. 5
  PROVE  both(i, j) \subseteq Plain
<1> SUFFICES ASSUME NEW x \in both(i, j) PROVE x \in Plain
  OBVIOUS
<1>1. PICK o \in translate_path(i), p \in translate_path(j) : x = act(o.rw \cup p.rw, p.skip, "none")
  BY DEF both
<1>2. o \in Plain /\ p \in Plain
  BY PathPlain
<1>3. o.rw \cup p.rw \in SUBSET (0 .. 5) /\ p.skip \in BOOLEAN /\ "none" \in Fixups \ {"emulated_return"}
  BY <1>2 DEF Plain, Outcome, Fixups
<1> QED BY <1>1, <1>3, ActPlain

LEMMA PairPlain ==
  ASSUME NEW i \in 0 .. 5, NEW j \in 0 .. 5
  PROVE  rename_like(i, j) \subseteq Plain /\ link_like(i, j) \subseteq Plain
<1>1. "rename_links" \in Fixups \ {"emulated_return"}
  BY DEF Fixups
<1>2. refused \in Plain /\ both(i, j) \subseteq Plain
  BY PathPlain, BothPlain
<1> QED BY <1>1, <1>2, ExceptPlain DEF rename_like, link_like

LEMMA OnePlain ==
  ASSUME NEW i \in 0 .. 5
  PROVE  /\ run(i) \subseteq Plain /\ stat_path(i) \subseteq Plain /\ access_path(i) \subseteq Plain
         /\ readlink(i) \subseteq Plain /\ unlink_like(i) \subseteq Plain
         /\ chown_like(i) \subseteq Plain
<1>1. "readlink_proc" \in Fixups \ {"emulated_return"}
  BY DEF Fixups
<1>2. run(i) \subseteq Plain /\ access_path(i) \subseteq Plain /\ stat_path(i) \subseteq Plain
  BY PathPlain, StatPlain DEF run, access_path, stat_path
<1>3. readlink(i) \subseteq Plain
  BY <1>1, PathPlain, ExceptPlain DEF readlink
<1>4. unlink_like(i) \subseteq Plain /\ chown_like(i) \subseteq Plain
  <2>1. \A o \in run(i) : [o EXCEPT !.skip = TRUE] \in Plain
    BY <1>1, <1>2, ExceptPlain
  <2> QED BY <1>2, <2>1 DEF unlink_like, chown_like
<1> QED BY <1>2, <1>3, <1>4

(* Only an open makes a stand-in, and it lets the call go on.              *)
LEMMA OpenOutcomes ==
  ASSUME NEW i \in 0 .. 5, NEW o \in open_path(i)
  PROVE  o \in Outcome /\ (o.scratch => ~o.skip) /\ o.lost = {}
<1>1. CASE o \in run(i)
  BY <1>1, OnePlain DEF Plain
<1>2. CASE o = [act({i}, FALSE, "none") EXCEPT !.scratch = TRUE]
  BY <1>2 DEF act, Outcome, Fixups
<1> QED BY <1>1, <1>2 DEF open_path, proc_stand_in

LEMMA OtherOutcomes ==
  ASSUME NEW c, c \notin {"open", "openat", "clone"}
  PROVE  dispatch(c) \subseteq Plain
<1> USE DEF dispatch
<1>0. 0 \in 0 .. 5 /\ 1 \in 0 .. 5 /\ 2 \in 0 .. 5 /\ 3 \in 0 .. 5
  OBVIOUS
<1>1. through \in Plain /\ refused \in Plain
  BY <1>0, PathPlain
<1>2. CASE c \in PathCalls
  <2>1. act({}, FALSE, "getcwd") \in Plain
    BY ActPlain DEF Fixups
  <2>2. path_handler(c) \subseteq Plain
    BY <1>0, <1>2, <2>1, OnePlain, PairPlain DEF path_handler, PathCalls
  <2>3. dispatch(c) = path_handler(c)
    BY <1>2 DEF PathCalls
  <2> QED BY <2>2, <2>3
<1>3. CASE c \in {"fchownat", "getxattr", "futimes", "fstat", "getdents64"}
  <2>1. act({}, FALSE, "dirents") \in Plain
    BY ActPlain DEF Fixups
  <2>2. stat_fixup({through}) \subseteq Plain
    BY <1>1, StatPlain
  <2> QED BY <1>0, <1>1, <1>3, <2>1, <2>2, OnePlain, PathPlain DEF PathCalls, handle_fd_meta
<1>4. CASE c \in {"connect", "sendmsg", "socket", "kill"}
  <2>1. act({1, 2}, FALSE, "none") \in Plain /\ act({1}, FALSE, "none") \in Plain
    <3>1. {1, 2} \in SUBSET (0 .. 5) /\ {1} \in SUBSET (0 .. 5)
      OBVIOUS
    <3> QED BY <3>1, ActPlain DEF Fixups
  <2> QED BY <1>1, <1>4, <2>1 DEF PathCalls, handle_sockaddr, handle_sendmsg, handle_signal_target
<1>5. CASE c \in {"execve", "execveat"}
  <2>1. act({0, 1, 2, 4}, FALSE, "none") \in Plain /\ act({0, 1}, FALSE, "none") \in Plain
    <3>1. {0, 1, 2, 4} \in SUBSET (0 .. 5) /\ {0, 1} \in SUBSET (0 .. 5)
      OBVIOUS
    <3> QED BY <3>1, ActPlain DEF Fixups
  <2> QED BY <1>1, <1>5, <2>1 DEF PathCalls, handle_exec
<1>6. CASE c \notin PathCalls \cup {"fchownat", "getxattr", "futimes", "fstat", "getdents64",
              "connect", "sendmsg", "socket", "kill", "execve", "execveat"}
  BY <1>1, <1>6 DEF handle_identity
<1> QED BY <1>2, <1>3, <1>4, <1>5, <1>6

LEMMA Outcomes ==
  ASSUME NEW c, NEW o \in dispatch(c)
  PROVE  /\ o \in Outcome
         /\ o.scratch => ~o.skip /\ c \in {"open", "openat"}
         /\ o.lost = {} \/ (c = "clone" /\ o.lost = {0})
<1>1. CASE c \in {"open", "openat"}
  <2>1. o \in open_path(0) \/ o \in open_path(1)
    BY <1>1 DEF dispatch, PathCalls, path_handler
  <2>2. 0 \in 0 .. 5 /\ 1 \in 0 .. 5
    OBVIOUS
  <2> QED BY <1>1, <2>1, <2>2, OpenOutcomes
<1>2. CASE c = "clone"
  <2>1. o \in {through, [through EXCEPT !.lost = {0}]}
    BY <1>2 DEF dispatch, PathCalls, clone
  <2>2. through \in Plain
    BY PathPlain, 0 \in 0 .. 5
  <2> QED BY <1>2, <2>1, <2>2 DEF Plain, Outcome
<1>3. CASE c \notin {"open", "openat", "clone"}
  BY <1>3, OtherOutcomes DEF Plain
<1> QED BY <1>1, <1>2, <1>3

-----------------------------------------------------------------------------
(* The four ways out of an entry stop or a seccomp event of a thread that  *)
(* stands there: the call goes on; it goes on and a host policy traps it;  *)
(* it is answered at once; it is skipped and the answer is put in place at *)
(* its exit stop.                                                          *)
EnterRuns(t, o) ==
  /\ ~o.skip
  /\ at' = [at EXCEPT ![t] = "run"]
  /\ UNCHANGED <<nr, trap, ret, served>>
EnterTrapped(t, o) ==
  /\ ~o.skip /\ ~opt.seccomp
  /\ at' = [at EXCEPT ![t] = "exit"]
  /\ trap' = [trap EXCEPT ![t] = "call"] /\ ret' = [ret EXCEPT ![t] = "clobbered"]
  /\ UNCHANGED <<nr, served>>
EnterAnswered(t, o) ==
  /\ o.skip /\ opt.seccomp
  /\ at' = [at EXCEPT ![t] = "user"]
  /\ nr' = [nr EXCEPT ![t] = "none"] /\ ret' = [ret EXCEPT ![t] = "answer"]
  /\ served' = [served EXCEPT ![t] = "answered"]
  /\ UNCHANGED trap
EnterSkipped(t, o) ==
  /\ o.skip /\ ~opt.seccomp
  /\ at' = [at EXCEPT ![t] = "exit"]
  /\ nr' = [nr EXCEPT ![t] = "skip"]
  /\ served' = [served EXCEPT ![t] = "answered"]
  /\ \/ UNCHANGED trap /\ ret' = [ret EXCEPT ![t] = "answer"]
     \/ trap' = [trap EXCEPT ![t] = "marker"] /\ ret' = [ret EXCEPT ![t] = "clobbered"]

(* What on_syscall_enter does in each of them.                             *)
Enters(t, o) ==
  /\ at[t] \in {"entry", "trace"}
  /\ pend' = [pend EXCEPT ![t] = pending_after(o)]
  /\ seen' = [seen EXCEPT ![t] = FALSE]
  /\ req' = [req EXCEPT ![t] = IF nr[t] \in {"execve", "execveat"} /\ ~o.skip THEN t ELSE NoThread]
  /\ filtered' = (filtered \/ nr[t] = "prctl")
  /\ files' = IF o.scratch THEN files \cup {t} ELSE files
  /\ args' = [args EXCEPT ![t] = IF o.skip THEN {} ELSE o.rw]
  /\ lost' = [lost EXCEPT ![t] = @ \cup o.lost]
  /\ mode' = [mode EXCEPT ![t] = resume_mode(pending_after(o))]
  /\ UNCHANGED <<opt, image, by, orphans>>
  /\ EnterRuns(t, o) \/ EnterTrapped(t, o) \/ EnterAnswered(t, o) \/ EnterSkipped(t, o)

LEMMA EnterCases ==
  ASSUME Inv, NEW t \in Threads, at[t] \in {"entry", "trace"}, on_syscall_enter(t)
  PROVE  \E o \in dispatch(nr[t]) : Enters(t, o)
<1>1. PICK o \in dispatch(nr[t]) : enter_with(t, o)
  BY DEF on_syscall_enter
<1>2. /\ args[t] = {} /\ served[t] = "no" /\ nr[t] \in Calls
      /\ at[t] = "entry" => ~opt.seccomp
      /\ at[t] = "trace" => opt.seccomp
  BY DEF Inv, ArgsInv, ServedInv, ModeInv, Outside
<1>3. "skip" \notin Calls /\ "none" \notin Calls
  BY DEF Calls, Legacy, PathCalls
<1>4. /\ mode'[t] = resume_mode(pending_after(o)) /\ at \in [Threads -> Running \cup Stopped \cup {"none"}]
      /\ nr \in [Threads -> Calls \cup {"none", "skip"}]
      /\ args \in [Threads -> SUBSET (0 .. 5)]
      /\ ret \in [Threads -> {"none", "kernel", "answer", "signal", "clobbered", "restart"}]
      /\ trap \in [Threads -> {"none", "call", "marker"}]
      /\ served \in [Threads -> {"no", "ran", "answered"}]
      /\ mode \in [Threads -> {"cont", "syscall"}]
  BY <1>1 DEF Inv, TypeOK, enter_with
<1>5. args' = [args EXCEPT ![t] = IF o.skip THEN {} ELSE o.rw]
  BY <1>1, <1>2, <1>4 DEF enter_with, undo
<1> DEFINE trapped == at[t] = "entry" /\ Traps(skip_number(t, o))
<1>6. CASE ~o.skip /\ ~trapped
  <2>1. EnterRuns(t, o)
    BY <1>1, <1>2, <1>3, <1>4, <1>6 DEF enter_with, skip_number, Number, EnterRuns
  <2> QED BY <1>1, <1>5, <2>1 DEF enter_with, Enters
<1>7. CASE ~o.skip /\ trapped
  <2>1. mode'[t] = "syscall"
    BY <1>2, <1>4, <1>7 DEF resume_mode
  <2>2. EnterTrapped(t, o)
    BY <1>1, <1>2, <1>3, <1>4, <1>7, <2>1 DEF enter_with, skip_number, Number, EnterTrapped,
           Leaves
  <2> QED BY <1>1, <1>5, <2>2 DEF enter_with, Enters
<1>8. CASE o.skip /\ opt.seccomp
  <2>1. mode'[t] = "cont"
    BY <1>4, <1>8 DEF resume_mode, pending_after, active, NoPending
  <2>2. EnterAnswered(t, o)
    BY <1>1, <1>2, <1>4, <1>8, <2>1 DEF enter_with, skip_number, Number, EnterAnswered, Leaves
  <2> QED BY <1>1, <1>5, <2>2 DEF enter_with, Enters
<1>9. CASE o.skip /\ ~opt.seccomp
  <2>1. mode'[t] = "syscall"
    BY <1>4, <1>9 DEF resume_mode
  <2>2. EnterSkipped(t, o)
    BY <1>1, <1>2, <1>4, <1>9, <2>1 DEF enter_with, skip_number, Number, EnterSkipped, Leaves
  <2> QED BY <1>1, <1>5, <2>2 DEF enter_with, Enters
<1> QED BY <1>6, <1>7, <1>8, <1>9

(* is_exit() is right in every state the invariant allows.                 *)
LEMMA ToldApart == Inv => StopsToldApart
BY DEF Inv, TypeOK, ModeInv, InsysInv, Outside, StopsToldApart, is_exit

(* The three ways out of an exit stop.                                     *)
ExitReturns(t) ==
  /\ at' = [at EXCEPT ![t] = "user"]
  /\ nr' = [nr EXCEPT ![t] = "none"]
  /\ trap[t] = "none" /\ UNCHANGED ret
  /\ <<served[t], ret[t]>> \in {<<"ran", "kernel">>, <<"answered", "answer">>}
ExitRestarts(t) ==
  /\ at' = [at EXCEPT ![t] = "again"]
  /\ trap[t] = "none" /\ served[t] = "no" /\ nr[t] \in Calls
  /\ UNCHANGED <<nr, ret>>
ExitTraps(t) ==
  /\ at' = [at EXCEPT ![t] = "sigsys"]
  /\ UNCHANGED nr
  /\ \E r \in {"clobbered", "answer"} : ret' = [ret EXCEPT ![t] = r]
  /\ \/ trap[t] = "call" /\ served[t] = "no"
     \/ trap[t] = "marker" /\ served[t] = "answered" /\ ret'[t] = "answer"

Exits(t) ==
  /\ at[t] = "exit"
  /\ pend' \in {pend, [pend EXCEPT ![t] = NoPending]} /\ ~active(pend'[t])
  /\ seen' \in {seen, [seen EXCEPT ![t] = FALSE]}
  /\ files' = files \ {t}
  /\ args' = [args EXCEPT ![t] = {}]
  /\ mode' = [mode EXCEPT ![t] = resume_mode(NoPending)]
  /\ UNCHANGED <<opt, lost, trap, served, image, by, req, filtered, orphans>>
  /\ ExitReturns(t) \/ ExitRestarts(t) \/ ExitTraps(t)

LEMMA Inactive ==
  /\ ~active(NoPending)
  /\ \A p \in PendingSyscall : ~active(p) => p.rw = {} /\ p.fix = "none" /\ ~p.scratch
  /\ \A p : ~active(p) => resume_mode(p) = resume_mode(NoPending)
BY DEF active, NoPending, PendingSyscall, resume_mode

LEMMA ExitCases ==
  ASSUME Inv, NEW t \in Threads, at[t] = "exit", on_syscall_exit(t)
  PROVE  Exits(t)
<1>1. /\ at \in [Threads -> Running \cup Stopped \cup {"none"}]
      /\ nr \in [Threads -> Calls \cup {"none", "skip"}]
      /\ args \in [Threads -> SUBSET (0 .. 5)]
      /\ ret \in [Threads -> {"none", "kernel", "answer", "signal", "clobbered", "restart"}]
      /\ pend \in [Threads -> PendingSyscall] /\ seen \in [Threads -> BOOLEAN]
      /\ mode \in [Threads -> {"cont", "syscall"}]
  BY DEF Inv, TypeOK
<1>2. args[t] \subseteq pend[t].rw /\ (seen[t] => args[t] = {}) /\ Leaving(t)
      /\ (t \in files => pend[t].scratch)
  BY DEF Inv, ArgsInv, ServedInv, FilesInv, StandInsRemoved
<1>3. /\ pend' \in {pend, [pend EXCEPT ![t] = NoPending]} /\ ~active(pend'[t])
      /\ pend' \in [Threads -> PendingSyscall]
      /\ seen' \in {seen, [seen EXCEPT ![t] = FALSE]}
  <2>1. NoPending \in PendingSyscall
    BY DEF NoPending, PendingSyscall, Fixups
  <2> QED BY <1>1, <2>1, Inactive DEF on_syscall_exit
<1>4. args' = [args EXCEPT ![t] = {}]
  <2>1. CASE ~active(pend[t])
    BY <1>1, <1>2, <2>1, Inactive DEF on_syscall_exit
  <2>2. CASE active(pend[t])
    BY <1>1, <1>2, <2>2 DEF on_syscall_exit
  <2> QED BY <2>1, <2>2
<1>5. files' = files \ {t}
  <2>1. CASE ~active(pend[t])
    BY <1>1, <1>2, <2>1, Inactive DEF on_syscall_exit
  <2>2. CASE active(pend[t])
    BY <1>1, <1>2, <2>2 DEF on_syscall_exit
  <2> QED BY <2>1, <2>2
<1>6. mode' = [mode EXCEPT ![t] = resume_mode(NoPending)]
  <2>1. resume_mode(pend'[t]) = resume_mode(NoPending)
    <3>1. opt' = opt
      BY DEF on_syscall_exit
    <3> QED BY <1>3, <3>1, Inactive
  <2> QED BY <2>1 DEF on_syscall_exit
<1>7. ExitReturns(t) \/ ExitRestarts(t) \/ ExitTraps(t)
  <2>1. at' = [at EXCEPT ![t] = IF trap[t] # "none" THEN "sigsys"
                                ELSE IF ret'[t] = "restart" THEN "again" ELSE "user"]
    BY DEF on_syscall_exit
  <2>2. nr' = [nr EXCEPT ![t] = IF at'[t] = "user" THEN "none" ELSE nr[t]]
    BY DEF on_syscall_exit, Number
  <2>3. \/ UNCHANGED ret /\ (seen[t] \/ pend[t].fix # "emulated_return")
        \/ ret' = [ret EXCEPT ![t] = "answer"] /\ ~seen[t] /\ pend[t].fix = "emulated_return"
    BY <1>1 DEF on_syscall_exit, fixup_exit, active
  <2>4. CASE trap[t] # "none"
    BY <1>1, <1>2, <2>1, <2>2, <2>3, <2>4 DEF Leaving, ExitTraps
  <2>5. CASE trap[t] = "none" /\ ret'[t] = "restart"
    BY <1>1, <1>2, <2>1, <2>2, <2>3, <2>5 DEF Leaving, ExitRestarts
  <2>6. CASE trap[t] = "none" /\ ret'[t] # "restart"
    BY <1>1, <1>2, <2>1, <2>2, <2>3, <2>6 DEF Leaving, ExitReturns
  <2> QED BY <2>4, <2>5, <2>6
<1> QED BY <1>3, <1>4, <1>5, <1>6, <1>7 DEF Exits, on_syscall_exit

(* A system call instruction leads to the stop that the mode the thread    *)
(* runs in asks for, to the kernel or to a trap; never past the supervisor *)
(* into an execve.                                                         *)
Calling(t, n) ==
  \/ at' = [at EXCEPT ![t] = "entry"] /\ ~opt.seccomp /\ UNCHANGED trap
  \/ at' = [at EXCEPT ![t] = "trace"] /\ opt.seccomp /\ UNCHANGED trap
  \/ /\ at' = [at EXCEPT ![t] = "run"] /\ opt.seccomp /\ UNCHANGED trap
     /\ n \notin {"execve", "execveat"}
  \/ at' = [at EXCEPT ![t] = "sigsys"] /\ opt.seccomp /\ trap' = [trap EXCEPT ![t] = "call"]

LEMMA CallCases ==
  ASSUME Inv, NEW t \in Threads, at[t] \in {"user", "again"}, NEW n, Enter(t, n)
  PROVE  Calling(t, n)
<1>1. opt.seccomp <=> mode[t] # "syscall"
  BY Inactive DEF Inv, ModeInv, UserMode, Outside, resume_mode
<1>2. n \in {"execve", "execveat"} => filter(n) = {"trace"}
  BY DEF filter, Allowed
<1>3. \A a \in filter(n) : a \in {"run", "trace"}
  BY DEF filter
<1> QED BY <1>1, <1>2, <1>3 DEF Enter, Calling

-----------------------------------------------------------------------------
(* The guest makes a call.                                                 *)
LEMMA AskStep ==
  ASSUME Inv, NEW t \in Threads, Ask(t)
  PROVE  Inv'
<1> USE LeaderIsThread DEF kernel, records, Running, Stopped
<1>0. TypeOK /\ LiveInv /\ ModeInv /\ InsysInv /\ ArgsInv /\ FilesInv /\ ExecInv /\ ServedInv
      /\ LostInv
  BY DEF Inv
<1>a. PICK n \in Calls : nr' = [nr EXCEPT ![t] = n] /\ Enter(t, n)
  BY CallsAreCalls DEF Ask
<1>b. Calling(t, n)
  BY <1>a, CallCases DEF Ask
<1>c. /\ at[t] = "user" /\ ret' = [ret EXCEPT ![t] = "none"] /\ served' = [served EXCEPT ![t] = "no"]
      /\ lost' = [lost EXCEPT ![t] = {}]
      /\ UNCHANGED <<opt, args, mode, image, by, pend, insys, seen, req, filtered, files, orphans>>
  BY DEF Ask
<1> USE DEF Calling
<1>1. TypeOK'
  BY <1>0, <1>a, <1>b, <1>c DEF TypeOK
<1>2. LiveInv'
  BY <1>0, <1>a, <1>b, <1>c DEF LiveInv, TypeOK
<1>3. ModeInv'
  BY <1>0, <1>a, <1>b, <1>c DEF ModeInv, Outside, UserMode, TypeOK, resume_mode
<1>4. InsysInv'
  BY <1>0, <1>a, <1>b, <1>c DEF InsysInv, Outside, UserMode, TypeOK, ModeInv
<1>5. ArgsInv'
  BY <1>0, <1>a, <1>b, <1>c DEF ArgsInv, Outside, UserMode, TypeOK, LiveInv, ModeInv
<1>6. FilesInv'
  BY <1>0, <1>a, <1>b, <1>c, Inactive DEF FilesInv, StandInsRemoved, TypeOK, ModeInv, Outside,
         UserMode
<1>7. ExecInv'
  BY <1>0, <1>a, <1>b, <1>c DEF ExecInv, RequestFitsImage, TypeOK, LiveInv
<1>8. ServedInv'
  BY <1>0, <1>a, <1>b, <1>c, Inactive DEF ServedInv, Leaving, Trapped, TypeOK, LiveInv, ModeInv,
         Outside, UserMode
<1>9. LostInv'
  BY <1>0, <1>a, <1>b, <1>c DEF LostInv, OneLoss, InCall, TypeOK, LiveInv, UserMode
<1> QED BY <1>1, <1>2, <1>3, <1>4, <1>5, <1>6, <1>7, <1>8, <1>9 DEF Inv

(* The instruction is executed again.                                      *)
LEMMA AskAgainStep ==
  ASSUME Inv, NEW t \in Threads, AskAgain(t)
  PROVE  Inv'
<1> USE LeaderIsThread DEF kernel, records, Running, Stopped
<1>0. TypeOK /\ LiveInv /\ ModeInv /\ InsysInv /\ ArgsInv /\ FilesInv /\ ExecInv /\ ServedInv
      /\ LostInv
  BY DEF Inv
<1>a. Calling(t, nr[t])
  BY CallCases DEF AskAgain
<1>b. /\ at[t] = "again"
      /\ UNCHANGED <<opt, nr, args, lost, ret, mode, served, image, by, pend, insys, seen, req, filtered,
                     files, orphans>>
  BY DEF AskAgain
<1> USE DEF Calling
<1>1. TypeOK'
  BY <1>0, <1>a, <1>b DEF TypeOK
<1>2. LiveInv'
  BY <1>0, <1>a, <1>b DEF LiveInv, TypeOK
<1>3. ModeInv'
  BY <1>0, <1>a, <1>b DEF ModeInv, Outside, UserMode, TypeOK, resume_mode
<1>4. InsysInv'
  BY <1>0, <1>a, <1>b DEF InsysInv, Outside, UserMode, TypeOK, ModeInv
<1>5. ArgsInv'
  BY <1>0, <1>a, <1>b DEF ArgsInv, Outside, UserMode, TypeOK, LiveInv, ModeInv
<1>6. FilesInv'
  BY <1>0, <1>a, <1>b, Inactive DEF FilesInv, StandInsRemoved, TypeOK, ModeInv, Outside, UserMode
<1>7. ExecInv'
  BY <1>0, <1>a, <1>b DEF ExecInv, RequestFitsImage, TypeOK, LiveInv
<1>8. ServedInv'
  BY <1>0, <1>a, <1>b, Inactive DEF ServedInv, Leaving, Trapped, TypeOK, LiveInv, ModeInv,
         Outside, UserMode
<1>9. LostInv'
  BY <1>0, <1>a, <1>b DEF LostInv, OneLoss, InCall, TypeOK, LiveInv, UserMode
<1> QED BY <1>1, <1>2, <1>3, <1>4, <1>5, <1>6, <1>7, <1>8, <1>9 DEF Inv

(* The kernel carries a call out, or is interrupted before it did.         *)
LEMMA KernelRunsStep ==
  ASSUME Inv, NEW t \in Threads, KernelRuns(t)
  PROVE  Inv'
<1> USE LeaderIsThread DEF kernel, records, Running, Stopped
<1>0. TypeOK /\ LiveInv /\ ModeInv /\ InsysInv /\ ArgsInv /\ FilesInv /\ ExecInv /\ ServedInv
      /\ LostInv
  BY DEF Inv
<1>a. /\ at[t] = "run" /\ served[t] = "no" /\ nr[t] \in Calls /\ trap[t] = "none"
      /\ UNCHANGED <<opt, args, lost, mode, trap, image, by, pend, insys, seen, req, filtered, files, orphans>>
  BY <1>0 DEF KernelRuns, ServedInv, LiveInv
<1>b. \E a \in {"exit", "user", "again"} :
         /\ at' = [at EXCEPT ![t] = a] /\ (a = "exit" <=> mode[t] = "syscall")
         /\ nr' = [nr EXCEPT ![t] = IF a = "user" THEN "none" ELSE nr[t]]
         /\ \/ /\ a # "again" /\ ret' = [ret EXCEPT ![t] = "kernel"]
               /\ served' = [served EXCEPT ![t] = "ran"]
            \/ a # "user" /\ ret' = [ret EXCEPT ![t] = "restart"] /\ UNCHANGED served
  BY <1>0, <1>a DEF KernelRuns, Number, Leaves, TypeOK
<1>c. mode[t] = resume_mode(pend[t]) /\ (mode[t] # "syscall" => ~active(pend[t]))
  BY <1>0, <1>a DEF ModeInv, resume_mode, TypeOK
<1>1. TypeOK'
  BY <1>0, <1>a, <1>b, <1>c DEF TypeOK
<1>2. LiveInv'
  BY <1>0, <1>a, <1>b, <1>c DEF LiveInv, TypeOK
<1>3. ModeInv'
  BY <1>0, <1>a, <1>b, <1>c DEF ModeInv, Outside, UserMode, TypeOK, resume_mode
<1>4. InsysInv'
  BY <1>0, <1>a, <1>b, <1>c DEF InsysInv, Outside, UserMode, TypeOK, ModeInv
<1>5. ArgsInv'
  BY <1>0, <1>a, <1>b, <1>c, Inactive DEF ArgsInv, Outside, UserMode, TypeOK, LiveInv, ModeInv
<1>6. FilesInv'
  BY <1>0, <1>a, <1>b, <1>c, Inactive DEF FilesInv, StandInsRemoved, TypeOK, ModeInv, Outside,
         UserMode
<1>7. ExecInv'
  BY <1>0, <1>a, <1>b, <1>c DEF ExecInv, RequestFitsImage, TypeOK, LiveInv
<1>8. ServedInv'
  BY <1>0, <1>a, <1>b, <1>c, Inactive DEF ServedInv, Leaving, Trapped, TypeOK, LiveInv, ModeInv,
         Outside, UserMode
<1>9. LostInv'
  BY <1>0, <1>a, <1>b, <1>c DEF LostInv, OneLoss, InCall, TypeOK, LiveInv, UserMode
<1> QED BY <1>1, <1>2, <1>3, <1>4, <1>5, <1>6, <1>7, <1>8, <1>9 DEF Inv

(* A new thread.                                                           *)
LEMMA KernelClonesStep ==
  ASSUME Inv, NEW t \in Threads, KernelClones(t)
  PROVE  Inv'
<1> USE LeaderIsThread DEF kernel, records, Running, Stopped
<1>0. TypeOK /\ LiveInv /\ ModeInv /\ InsysInv /\ ArgsInv /\ FilesInv /\ ExecInv /\ ServedInv
      /\ LostInv
  BY DEF Inv
<1>a. /\ at[t] = "run" /\ nr[t] = "clone" /\ served[t] = "no" /\ trap[t] = "none"
      /\ UNCHANGED <<opt, nr, args, mode, trap, image, by, pend, insys, seen, req, filtered, files, orphans>>
  BY <1>0 DEF KernelClones, ServedInv, LiveInv
<1>b. PICK u \in Threads \ {Leader} :
         /\ at[u] = "none"
         /\ at' = [at EXCEPT ![t] = "cloneev", ![u] = "new"]
         /\ ret' = [ret EXCEPT ![t] = "kernel", ![u] = "kernel"]
         /\ served' = [served EXCEPT ![t] = "ran", ![u] = "ran"]
         /\ lost' = [lost EXCEPT ![u] = lost[t]]
  BY <1>a DEF KernelClones
<1>c. at[Leader] # "none" /\ at[Leader] # "execev" /\ t # u /\ t \notin files
  BY <1>0, <1>a, <1>b DEF LiveInv, FilesInv, StandInsRemoved
<1>1. TypeOK'
  BY <1>0, <1>a, <1>b, <1>c DEF TypeOK
<1>2. LiveInv'
  BY <1>0, <1>a, <1>b, <1>c DEF LiveInv, TypeOK
<1>3. ModeInv'
  BY <1>0, <1>a, <1>b, <1>c DEF ModeInv, Outside, UserMode, TypeOK, resume_mode
<1>4. InsysInv'
  BY <1>0, <1>a, <1>b, <1>c DEF InsysInv, Outside, UserMode, TypeOK, ModeInv
<1>5. ArgsInv'
  BY <1>0, <1>a, <1>b, <1>c DEF ArgsInv, Outside, UserMode, TypeOK, LiveInv, ModeInv
<1>6. FilesInv'
  BY <1>0, <1>a, <1>b, <1>c DEF FilesInv, StandInsRemoved, TypeOK, ModeInv, Outside, UserMode
<1>7. ExecInv'
  BY <1>0, <1>a, <1>b, <1>c DEF ExecInv, RequestFitsImage, TypeOK, LiveInv
<1>8. ServedInv'
  BY <1>0, <1>a, <1>b, <1>c DEF ServedInv, Leaving, Trapped, TypeOK, LiveInv, ModeInv, Outside,
         UserMode
<1>9. LostInv'
  BY <1>0, <1>a, <1>b, <1>c DEF LostInv, OneLoss, InCall, TypeOK, LiveInv, UserMode
<1> QED BY <1>1, <1>2, <1>3, <1>4, <1>5, <1>6, <1>7, <1>8, <1>9 DEF Inv

(* An execve succeeds.                                                     *)
LEMMA KernelExecsStep ==
  ASSUME Inv, NEW t \in Threads, KernelExecs(t)
  PROVE  Inv'
<1> USE LeaderIsThread DEF kernel, records, Running, Stopped
<1>0. TypeOK /\ LiveInv /\ ModeInv /\ InsysInv /\ ArgsInv /\ FilesInv /\ ExecInv /\ ServedInv
      /\ LostInv
  BY DEF Inv
<1>a. /\ at[t] = "run" /\ nr[t] \in {"execve", "execveat"} /\ served[t] = "no" /\ req[t] = t
      /\ ~pend[t].scratch
  BY <1>0 DEF KernelExecs, ServedInv, ExecInv, FilesInv
<1>b. NoPending \in PendingSyscall
  BY DEF NoPending, PendingSyscall, Fixups
<1> USE DEF KernelExecs
<1>1. TypeOK'
  BY <1>0, <1>a, <1>b DEF TypeOK
<1>2. LiveInv'
  BY <1>0, <1>a DEF LiveInv, TypeOK
<1>3. ModeInv'
  BY <1>0, <1>a DEF ModeInv, Outside, UserMode, TypeOK
<1>4. InsysInv'
  BY <1>0, <1>a DEF InsysInv, Outside, UserMode, TypeOK, ModeInv
<1>5. ArgsInv'
  BY <1>0, <1>a DEF ArgsInv, Outside, UserMode, TypeOK, LiveInv, ModeInv
<1>6. FilesInv'
  BY <1>0, <1>a DEF FilesInv, StandInsRemoved, TypeOK, ModeInv, Outside, UserMode
<1>7. ExecInv'
  BY <1>0, <1>a DEF ExecInv, RequestFitsImage, TypeOK, LiveInv
<1>8. ServedInv'
  BY <1>0, <1>a DEF ServedInv, Leaving, Trapped, TypeOK, LiveInv, ModeInv, Outside, UserMode
<1>9. LostInv'
  BY <1>0, <1>a DEF LostInv, OneLoss, InCall, TypeOK, LiveInv, UserMode
<1> QED BY <1>1, <1>2, <1>3, <1>4, <1>5, <1>6, <1>7, <1>8, <1>9 DEF Inv

(* Signals and group stops of a thread in user mode.                       *)
LEMMA UserStep ==
  ASSUME Inv, NEW t \in Threads,
         Signalled(t) \/ Continued(t) \/ OnEventStop(t) \/ OnSignal(t)
  PROVE  Inv'
<1> USE LeaderIsThread DEF kernel, records, Running, Stopped
<1>0. TypeOK /\ LiveInv /\ ModeInv /\ InsysInv /\ ArgsInv /\ FilesInv /\ ExecInv /\ ServedInv
      /\ LostInv
  BY DEF Inv
<1>a. /\ at[t] \in UserMode
      /\ \E a \in UserMode : at' = [at EXCEPT ![t] = a]
      /\ mode' \in {mode, [mode EXCEPT ![t] = resume_mode(pend[t])]}
      /\ UNCHANGED <<opt, nr, args, lost, ret, trap, served, image, by, pend, insys, seen, req, filtered,
                     files, orphans>>
  BY <1>0 DEF Signalled, Continued, OnEventStop, OnSignal, UserMode, TypeOK
<1> USE DEF UserMode
<1>1. TypeOK'
  BY <1>0, <1>a DEF TypeOK, resume_mode
<1>2. LiveInv'
  BY <1>0, <1>a DEF LiveInv, TypeOK
<1>3. ModeInv'
  BY <1>0, <1>a DEF ModeInv, Outside, UserMode, TypeOK, resume_mode
<1>4. InsysInv'
  BY <1>0, <1>a DEF InsysInv, Outside, UserMode, TypeOK, ModeInv
<1>5. ArgsInv'
  BY <1>0, <1>a DEF ArgsInv, Outside, UserMode, TypeOK, LiveInv, ModeInv
<1>6. FilesInv'
  BY <1>0, <1>a DEF FilesInv, StandInsRemoved, TypeOK, ModeInv, Outside, UserMode
<1>7. ExecInv'
  BY <1>0, <1>a DEF ExecInv, RequestFitsImage, TypeOK, LiveInv
<1>8. ServedInv'
  BY <1>0, <1>a DEF ServedInv, Leaving, Trapped, TypeOK, LiveInv, ModeInv, Outside, UserMode
<1>9. LostInv'
  BY <1>0, <1>a DEF LostInv, OneLoss, InCall, TypeOK, LiveInv, UserMode
<1> QED BY <1>1, <1>2, <1>3, <1>4, <1>5, <1>6, <1>7, <1>8, <1>9 DEF Inv

(* SIGKILL for the process, and the end of the supervisor.                 *)
LEMMA KilledStep ==
  ASSUME Inv, Killed \/ OnEnd
  PROVE  Inv'
<1> USE LeaderIsThread DEF kernel, records, Running, Stopped
<1>0. TypeOK /\ LiveInv /\ ModeInv /\ InsysInv /\ ArgsInv /\ FilesInv /\ ExecInv /\ ServedInv
      /\ LostInv
  BY DEF Inv
<1>a. /\ \A t \in Threads : at'[t] = "none"
      /\ at' \in [Threads -> {"none"}]
      /\ files' = {} /\ orphans' \subseteq orphans \cup files
      /\ pend' \in {pend, [t \in Threads |-> NoPending]}
      /\ UNCHANGED <<opt, nr, args, lost, ret, mode, trap, served, image, by, insys, seen, req, filtered>>
  BY <1>0 DEF Killed, OnEnd, TypeOK
<1>b. NoPending \in PendingSyscall
  BY DEF NoPending, PendingSyscall, Fixups
<1>1. TypeOK'
  BY <1>0, <1>a, <1>b DEF TypeOK
<1>2. LiveInv'
  BY <1>0, <1>a DEF LiveInv, TypeOK
<1>3. ModeInv'
  BY <1>0, <1>a DEF ModeInv, Outside, UserMode, TypeOK
<1>4. InsysInv'
  BY <1>0, <1>a DEF InsysInv, Outside, UserMode, TypeOK, ModeInv
<1>5. ArgsInv'
  BY <1>0, <1>a DEF ArgsInv, Outside, UserMode, TypeOK, LiveInv, ModeInv
<1>6. FilesInv'
  BY <1>0, <1>a DEF FilesInv, StandInsRemoved, TypeOK, ModeInv, Outside, UserMode
<1>7. ExecInv'
  BY <1>0, <1>a DEF ExecInv, RequestFitsImage, TypeOK, LiveInv
<1>8. ServedInv'
  BY <1>0, <1>a DEF ServedInv, Leaving, Trapped, TypeOK, LiveInv, ModeInv, Outside, UserMode
<1>9. LostInv'
  BY <1>0, <1>a DEF LostInv, OneLoss, InCall, TypeOK, LiveInv, UserMode
<1> QED BY <1>1, <1>2, <1>3, <1>4, <1>5, <1>6, <1>7, <1>8, <1>9 DEF Inv

(* A new thread's first stop.                                              *)
LEMMA OnNewStep ==
  ASSUME Inv, NEW t \in Threads, OnNew(t)
  PROVE  Inv'
<1> USE LeaderIsThread DEF kernel, records, Running, Stopped
<1>0. TypeOK /\ LiveInv /\ ModeInv /\ InsysInv /\ ArgsInv /\ FilesInv /\ ExecInv /\ ServedInv
      /\ LostInv
  BY DEF Inv
<1>a. PICK a \in {"exit", "user"} :
         at' = [at EXCEPT ![t] = a] /\ (a = "exit" => ~opt.seccomp)
         /\ (~opt.seccomp /\ ~opt.info => a = "exit")
  BY DEF OnNew, first_stop
<1>b. /\ at[t] = "new" /\ insys' = [insys EXCEPT ![t] = ~opt.seccomp]
      /\ pend' = [pend EXCEPT ![t] = NoPending] /\ seen' = [seen EXCEPT ![t] = FALSE]
      /\ req' = [req EXCEPT ![t] = NoThread] /\ mode' = [mode EXCEPT ![t] = resume_mode(NoPending)]
      /\ UNCHANGED <<opt, nr, args, lost, ret, trap, served, image, by, filtered, files, orphans>>
  BY DEF OnNew, first_insys
<1>c. NoPending \in PendingSyscall /\ NoPending.fix = "none" /\ NoPending.rw = {}
  BY DEF NoPending, PendingSyscall, Fixups
<1>1. TypeOK'
  BY <1>0, <1>a, <1>b, <1>c DEF TypeOK, resume_mode
<1>2. LiveInv'
  BY <1>0, <1>a, <1>b, <1>c DEF LiveInv, TypeOK
<1>3. ModeInv'
  BY <1>0, <1>a, <1>b, <1>c, Inactive DEF ModeInv, Outside, UserMode, TypeOK, resume_mode
<1>4. InsysInv'
  BY <1>0, <1>a, <1>b, <1>c DEF InsysInv, Outside, UserMode, TypeOK, ModeInv
<1>5. ArgsInv'
  BY <1>0, <1>a, <1>b, <1>c DEF ArgsInv, Outside, UserMode, TypeOK, LiveInv, ModeInv
<1>6. FilesInv'
  BY <1>0, <1>a, <1>b, <1>c DEF FilesInv, StandInsRemoved, TypeOK, ModeInv, Outside, UserMode
<1>7. ExecInv'
  BY <1>0, <1>a, <1>b, <1>c DEF ExecInv, RequestFitsImage, TypeOK, LiveInv
<1>8. ServedInv'
  BY <1>0, <1>a, <1>b, <1>c DEF ServedInv, Leaving, Trapped, TypeOK, LiveInv, ModeInv, Outside,
         UserMode
<1>9. LostInv'
  BY <1>0, <1>a, <1>b, <1>c DEF LostInv, ServedInv, OneLoss, InCall, TypeOK, LiveInv, UserMode
<1> QED BY <1>1, <1>2, <1>3, <1>4, <1>5, <1>6, <1>7, <1>8, <1>9 DEF Inv

(* The clone event of the parent.                                          *)
LEMMA OnCloneStep ==
  ASSUME Inv, NEW t \in Threads, OnClone(t)
  PROVE  Inv'
<1> USE LeaderIsThread DEF kernel, records, Running, Stopped
<1>0. TypeOK /\ LiveInv /\ ModeInv /\ InsysInv /\ ArgsInv /\ FilesInv /\ ExecInv /\ ServedInv
      /\ LostInv
  BY DEF Inv
<1>a. /\ at[t] = "cloneev" /\ mode' = [mode EXCEPT ![t] = resume_mode(pend[t])]
      /\ UNCHANGED <<opt, args, lost, ret, trap, served, image, by, pend, insys, seen, req, filtered, files,
                     orphans>>
  BY DEF OnClone
<1>b. PICK a \in {"exit", "user"} :
         /\ at' = [at EXCEPT ![t] = a] /\ (a = "exit" <=> resume_mode(pend[t]) = "syscall")
         /\ nr' = [nr EXCEPT ![t] = IF a = "user" THEN "none" ELSE nr[t]]
  <2>1. mode'[t] = resume_mode(pend[t])
    BY <1>0, <1>a DEF TypeOK
  <2> QED BY <1>0, <2>1 DEF OnClone, Leaves, Number, TypeOK
<1>c. resume_mode(pend[t]) # "syscall" => opt.seccomp /\ ~active(pend[t])
  BY DEF resume_mode
<1>1. TypeOK'
  BY <1>0, <1>a, <1>b, <1>c DEF TypeOK, resume_mode
<1>2. LiveInv'
  BY <1>0, <1>a, <1>b, <1>c DEF LiveInv, TypeOK
<1>3. ModeInv'
  BY <1>0, <1>a, <1>b, <1>c DEF ModeInv, Outside, UserMode, TypeOK, resume_mode
<1>4. InsysInv'
  BY <1>0, <1>a, <1>b, <1>c DEF InsysInv, Outside, UserMode, TypeOK, ModeInv
<1>5. ArgsInv'
  BY <1>0, <1>a, <1>b, <1>c, Inactive DEF ArgsInv, Outside, UserMode, TypeOK, LiveInv, ModeInv
<1>6. FilesInv'
  BY <1>0, <1>a, <1>b, <1>c DEF FilesInv, StandInsRemoved, TypeOK, ModeInv, Outside, UserMode
<1>7. ExecInv'
  BY <1>0, <1>a, <1>b, <1>c DEF ExecInv, RequestFitsImage, TypeOK, LiveInv
<1>8. ServedInv'
  BY <1>0, <1>a, <1>b, <1>c DEF ServedInv, Leaving, Trapped, TypeOK, LiveInv, ModeInv, Outside,
         UserMode
<1>9. LostInv'
  BY <1>0, <1>a, <1>b, <1>c DEF LostInv, ServedInv, OneLoss, InCall, TypeOK, LiveInv, UserMode
<1> QED BY <1>1, <1>2, <1>3, <1>4, <1>5, <1>6, <1>7, <1>8, <1>9 DEF Inv

(* The exec event: the new image is given its load request.                *)
LEMMA OnExecStep ==
  ASSUME Inv, OnExec
  PROVE  Inv'
<1> USE LeaderIsThread DEF kernel, records, Running, Stopped
<1>0. TypeOK /\ LiveInv /\ ModeInv /\ InsysInv /\ ArgsInv /\ FilesInv /\ ExecInv /\ ServedInv
      /\ LostInv
  BY DEF Inv
<1>a. /\ at[Leader] = "execev" /\ by \in Threads /\ image.prog = by /\ req[by] = by
      /\ \A t \in Threads \ {Leader} : at[t] = "none"
      /\ args[Leader] = {} /\ served[Leader] = "ran" /\ ret[Leader] = "kernel"
      /\ trap[Leader] = "none"
  BY <1>0 DEF OnExec, ExecInv, LiveInv, ArgsInv, ServedInv
<1>b. request_for(by) = by
  BY <1>a, NoThreadIsNone DEF request_for
<1>c. /\ image' = [image EXCEPT !.given = by]
      /\ req' = [req EXCEPT ![by] = NoThread, ![Leader] = NoThread]
      /\ pend' = [t \in Threads |-> IF t = by /\ t # Leader THEN NoPending ELSE pend[t]]
      /\ seen' = [seen EXCEPT ![Leader] = TRUE]
      /\ insys' = [insys EXCEPT ![Leader] = IF opt.seccomp THEN insys[Leader] ELSE TRUE]
      /\ by' = NoThread
      /\ mode' = [mode EXCEPT ![Leader] = resume_mode(pend[Leader])]
      /\ UNCHANGED <<opt, args, lost, ret, trap, served, filtered, files, orphans>>
  BY <1>b DEF OnExec, exec_insys
<1>d. PICK a \in {"exit", "user"} :
         /\ at' = [at EXCEPT ![Leader] = a]
         /\ (a = "exit" <=> resume_mode(pend[Leader]) = "syscall")
         /\ nr' = [nr EXCEPT ![Leader] = IF a = "user" THEN "none" ELSE nr[Leader]]
  <2>1. mode'[Leader] = resume_mode(pend[Leader])
    BY <1>0, <1>c DEF TypeOK
  <2> QED BY <1>0, <2>1 DEF OnExec, Leaves, Number, TypeOK
<1>e. resume_mode(pend[Leader]) # "syscall" => opt.seccomp /\ ~active(pend[Leader])
  BY DEF resume_mode
<1>f. NoPending \in PendingSyscall
  BY DEF NoPending, PendingSyscall, Fixups
<1>1. TypeOK'
  BY <1>0, <1>a, <1>c, <1>d, <1>e, <1>f DEF TypeOK, resume_mode
<1>2. LiveInv'
  BY <1>0, <1>a, <1>c, <1>d, <1>e DEF LiveInv, TypeOK
<1>3. ModeInv'
  BY <1>0, <1>a, <1>c, <1>d, <1>e DEF ModeInv, Outside, UserMode, TypeOK, resume_mode
<1>4. InsysInv'
  BY <1>0, <1>a, <1>c, <1>d, <1>e DEF InsysInv, Outside, UserMode, TypeOK, ModeInv
<1>5. ArgsInv'
  BY <1>0, <1>a, <1>c, <1>d, <1>e, Inactive DEF ArgsInv, Outside, UserMode, TypeOK, LiveInv,
         ModeInv
<1>6. FilesInv'
  BY <1>0, <1>a, <1>c, <1>d, <1>e, Inactive DEF FilesInv, StandInsRemoved, TypeOK, ModeInv,
         Outside, UserMode
<1>7. ExecInv'
  BY <1>0, <1>a, <1>c, <1>d, <1>e DEF ExecInv, RequestFitsImage, TypeOK, LiveInv
<1>8. ServedInv'
  BY <1>0, <1>a, <1>c, <1>d, <1>e DEF ServedInv, Leaving, Trapped, TypeOK, LiveInv, ModeInv,
         Outside, UserMode
<1>9. LostInv'
  BY <1>0, <1>a, <1>c, <1>d, <1>e DEF LostInv, OneLoss, InCall, TypeOK, LiveInv, UserMode
<1> QED BY <1>1, <1>2, <1>3, <1>4, <1>5, <1>6, <1>7, <1>8, <1>9 DEF Inv

(* The pending state an entry stop leaves.                                 *)
LEMMA PendingAfter ==
  ASSUME NEW o \in Outcome
  PROVE  /\ pending_after(o) \in PendingSyscall
         /\ ~o.skip => /\ pending_after(o).rw = o.rw /\ pending_after(o).fix # "emulated_return"
                       /\ pending_after(o).scratch = o.scratch
         /\ o.skip /\ opt.seccomp => pending_after(o) = NoPending
         /\ o.skip /\ ~opt.seccomp => /\ pending_after(o).fix = "emulated_return"
                                      /\ pending_after(o).rw = {} /\ ~pending_after(o).scratch
<1>1. CASE ~o.skip
  BY <1>1 DEF pending_after, Outcome, PendingSyscall
<1>2. CASE o.skip
  BY <1>2 DEF pending_after, Outcome, PendingSyscall, NoPending, Fixups
<1> QED BY <1>1, <1>2

(* on_syscall_enter, in each of its ways out.                              *)
LEMMA EntersStep ==
  ASSUME Inv, NEW t \in Threads, NEW o \in dispatch(nr[t]), Enters(t, o),
         insys' = [insys EXCEPT ![t] = IF opt.seccomp THEN @ ELSE TRUE]
  PROVE  Inv'
<1> USE LeaderIsThread DEF kernel, records, Running, Stopped
<1>0. TypeOK /\ LiveInv /\ ModeInv /\ InsysInv /\ ArgsInv /\ FilesInv /\ ExecInv /\ ServedInv
      /\ LostInv
  BY DEF Inv
<1>a. /\ o \in Outcome /\ (o.scratch => ~o.skip /\ nr[t] \in {"open", "openat"})
      /\ o.skip \in BOOLEAN /\ o.scratch \in BOOLEAN /\ o.rw \in SUBSET (0 .. 5)
      /\ o.lost = {} \/ (nr[t] = "clone" /\ o.lost = {0})
  BY Outcomes DEF Outcome
<1>b. PICK p \in PendingSyscall :
         /\ p = pending_after(o)
         /\ ~o.skip => p.rw = o.rw /\ p.fix # "emulated_return" /\ p.scratch = o.scratch
         /\ o.skip /\ opt.seccomp => p = NoPending
         /\ o.skip /\ ~opt.seccomp => p.fix = "emulated_return" /\ p.rw = {} /\ ~p.scratch
  BY <1>a, PendingAfter
<1>c. /\ at[t] \in {"entry", "trace"}
      /\ pend' = [pend EXCEPT ![t] = p] /\ seen' = [seen EXCEPT ![t] = FALSE]
      /\ req' = [req EXCEPT ![t] = IF nr[t] \in {"execve", "execveat"} /\ ~o.skip THEN t ELSE NoThread]
      /\ filtered' \in BOOLEAN
      /\ files' = IF o.scratch THEN files \cup {t} ELSE files
      /\ args' = [args EXCEPT ![t] = IF o.skip THEN {} ELSE o.rw]
      /\ lost' = [lost EXCEPT ![t] = @ \cup o.lost]
      /\ mode' = [mode EXCEPT ![t] = resume_mode(p)]
      /\ UNCHANGED <<opt, image, by, orphans>>
  BY <1>b DEF Enters
<1>d. EnterRuns(t, o) \/ EnterTrapped(t, o) \/ EnterAnswered(t, o) \/ EnterSkipped(t, o)
  BY DEF Enters
<1>e. served[t] = "no" /\ nr[t] \in Calls /\ trap[t] = "none" /\ args[t] = {} /\ t \notin files
      /\ (at[t] = "entry" <=> ~opt.seccomp)
  BY <1>0, <1>c DEF ServedInv, LiveInv, ArgsInv, Outside, FilesInv, StandInsRemoved, ModeInv
<1> USE DEF EnterRuns, EnterTrapped, EnterAnswered, EnterSkipped
<1>1. TypeOK'
  <2>1. insys' \in [Threads -> BOOLEAN] /\ seen' \in [Threads -> BOOLEAN]
    BY <1>0, <1>c DEF TypeOK
  <2>2. nr' \in [Threads -> Calls \cup {"none", "skip"}]
    BY <1>0, <1>d DEF TypeOK
  <2>3. mode' \in [Threads -> {"cont", "syscall"}] /\ pend' \in [Threads -> PendingSyscall]
    BY <1>0, <1>c DEF TypeOK, resume_mode
  <2>4. args' \in [Threads -> SUBSET (0 .. 5)] /\ lost' \in [Threads -> SUBSET (0 .. 5)]
        /\ req' \in [Threads -> Threads \cup {NoThread}]
    BY <1>0, <1>a, <1>c DEF TypeOK
  <2>5. at' \in [Threads -> Running \cup Stopped \cup {"none"}] /\ trap' \in [Threads -> {"none", "call", "marker"}]
    BY <1>0, <1>d DEF TypeOK
  <2>6. ret' \in [Threads -> {"none", "kernel", "answer", "signal", "clobbered", "restart"}]
        /\ served' \in [Threads -> {"no", "ran", "answered"}]
    BY <1>0, <1>d DEF TypeOK
  <2>7. filtered' \in BOOLEAN /\ files' \subseteq Threads
        /\ UNCHANGED <<image, by, orphans>>
    BY <1>0, <1>c DEF TypeOK
  <2> HIDE DEF EnterRuns, EnterTrapped, EnterAnswered, EnterSkipped, Running, Stopped
  <2> QED BY <1>0, <2>1, <2>2, <2>3, <2>4, <2>5, <2>6, <2>7 DEF TypeOK
<1>2. LiveInv'
  BY <1>0, <1>a, <1>b, <1>c, <1>d, <1>e DEF LiveInv, TypeOK
<1>3. ModeInv'
  BY <1>0, <1>a, <1>b, <1>c, <1>d, <1>e, Inactive DEF ModeInv, Outside, UserMode, TypeOK,
         resume_mode
<1>4. InsysInv'
  BY <1>0, <1>a, <1>b, <1>c, <1>d, <1>e DEF InsysInv, Outside, UserMode, TypeOK, ModeInv
<1>5. ArgsInv'
  BY <1>0, <1>a, <1>b, <1>c, <1>d, <1>e, Inactive DEF ArgsInv, Outside, UserMode, TypeOK, LiveInv,
         ModeInv
<1>6. FilesInv'
  BY <1>0, <1>a, <1>b, <1>c, <1>d, <1>e, Inactive DEF FilesInv, StandInsRemoved, TypeOK, ModeInv,
         Outside, UserMode
<1>7. ExecInv'
  BY <1>0, <1>a, <1>b, <1>c, <1>d, <1>e DEF ExecInv, RequestFitsImage, TypeOK, LiveInv
<1>8. ServedInv'
  BY <1>0, <1>a, <1>b, <1>c, <1>d, <1>e DEF ServedInv, Leaving, Trapped, TypeOK, LiveInv, ModeInv,
         Outside, UserMode
<1>9. LostInv'
  <2>1. lost'[t] = lost[t] \/ (nr[t] = "clone" /\ lost'[t] = {0})
    <3>1. nr[t] = "clone" => lost[t] \subseteq {0}
      BY <1>0, <1>c DEF LostInv, InCall
    <3> QED BY <1>0, <1>a, <1>c, <3>1 DEF TypeOK
  <2>2. OneLoss(t)'
    BY <1>0, <1>c, <2>1 DEF LostInv, OneLoss
  <2>3. InCall(t) /\ (nr'[t] = nr[t] \/ nr'[t] \in {"skip", "none"})
    BY <1>0, <1>c, <1>d DEF InCall, TypeOK
  <2>4. InCall(t)' /\ nr'[t] \in Legacy => lost'[t] = {}
    <3>1. "clone" \notin Legacy /\ "skip" \notin Legacy /\ "none" \notin Legacy
      BY DEF Legacy
    <3> QED BY <1>0, <2>1, <2>3, <3>1 DEF LostInv
  <2>5. InCall(t)' /\ nr'[t] = "clone" => lost'[t] \subseteq {0}
    BY <1>0, <2>1, <2>3 DEF LostInv
  <2>6. \A u \in Threads \ {t} : lost'[u] = lost[u] /\ nr'[u] = nr[u] /\ at'[u] = at[u]
                               /\ served'[u] = served[u] /\ opt' = opt
    BY <1>0, <1>c, <1>d DEF TypeOK
  <2> QED BY <1>0, <2>2, <2>4, <2>5, <2>6 DEF LostInv, OneLoss, InCall
<1> QED BY <1>1, <1>2, <1>3, <1>4, <1>5, <1>6, <1>7, <1>8, <1>9 DEF Inv

(* on_syscall_exit, in each of its ways out.                               *)
LEMMA ExitsStep ==
  ASSUME Inv, NEW t \in Threads, Exits(t),
         insys' = [insys EXCEPT ![t] = IF opt.seccomp THEN @ ELSE FALSE]
  PROVE  Inv'
<1> USE LeaderIsThread DEF kernel, records, Running, Stopped
<1>0. TypeOK /\ LiveInv /\ ModeInv /\ InsysInv /\ ArgsInv /\ FilesInv /\ ExecInv /\ ServedInv
      /\ LostInv
  BY DEF Inv
<1>a. NoPending \in PendingSyscall
  BY DEF NoPending, PendingSyscall, Fixups
<1> USE DEF Exits, ExitReturns, ExitRestarts, ExitTraps
<1>1. TypeOK'
  <2>1. insys' \in [Threads -> BOOLEAN] /\ seen' \in [Threads -> BOOLEAN]
    BY <1>0 DEF TypeOK
  <2>2. nr' \in [Threads -> Calls \cup {"none", "skip"}]
    BY <1>0 DEF TypeOK
  <2>3. mode' \in [Threads -> {"cont", "syscall"}] /\ pend' \in [Threads -> PendingSyscall]
    BY <1>0, <1>a DEF TypeOK, resume_mode
  <2>4. args' \in [Threads -> SUBSET (0 .. 5)] /\ UNCHANGED <<req, lost>>
    BY <1>0 DEF TypeOK
  <2>5. at' \in [Threads -> Running \cup Stopped \cup {"none"}] /\ trap' \in [Threads -> {"none", "call", "marker"}]
    BY <1>0 DEF TypeOK
  <2>6. ret' \in [Threads -> {"none", "kernel", "answer", "signal", "clobbered", "restart"}]
        /\ served' \in [Threads -> {"no", "ran", "answered"}]
    BY <1>0 DEF TypeOK
  <2>7. filtered' \in BOOLEAN /\ files' \subseteq Threads
        /\ UNCHANGED <<image, by, orphans>>
    BY <1>0 DEF TypeOK
  <2> HIDE DEF Exits, ExitReturns, ExitRestarts, ExitTraps, Running, Stopped
  <2> QED BY <1>0, <2>1, <2>2, <2>3, <2>4, <2>5, <2>6, <2>7 DEF TypeOK
<1>2. LiveInv'
  BY <1>0 DEF LiveInv, TypeOK
<1>3. ModeInv'
  BY <1>0, Inactive DEF ModeInv, Outside, UserMode, TypeOK, resume_mode
<1>4. InsysInv'
  BY <1>0 DEF InsysInv, Outside, UserMode, TypeOK, ModeInv
<1>5. ArgsInv'
  BY <1>0, Inactive DEF ArgsInv, Outside, UserMode, TypeOK, LiveInv, ModeInv
<1>6. FilesInv'
  BY <1>0, Inactive DEF FilesInv, StandInsRemoved, TypeOK, ModeInv, Outside, UserMode
<1>7. ExecInv'
  BY <1>0 DEF ExecInv, RequestFitsImage, TypeOK, LiveInv
<1>8. ServedInv'
  BY <1>0 DEF ServedInv, Leaving, Trapped, TypeOK, LiveInv, ModeInv, Outside, UserMode
<1>9. LostInv'
  BY <1>0 DEF LostInv, OneLoss, InCall, TypeOK, LiveInv, UserMode
<1> QED BY <1>1, <1>2, <1>3, <1>4, <1>5, <1>6, <1>7, <1>8, <1>9 DEF Inv

(* The ways out of a trap: the guest's handler, the answer, or the call as *)
(* its modern equivalent.                                                  *)
TrapEnds(t) ==
  /\ at' = [at EXCEPT ![t] = "user"] /\ nr' = [nr EXCEPT ![t] = "none"]
  /\ \/ /\ served[t] = "no" /\ ret' = [ret EXCEPT ![t] = "signal"]
        /\ served' = [served EXCEPT ![t] = "no"]
     \/ /\ served[t] \in {"no", "answered"} /\ ret' = [ret EXCEPT ![t] = "answer"]
        /\ served' = [served EXCEPT ![t] = "answered"]
  /\ UNCHANGED lost
Restarts(t, n) ==
  /\ nr[t] \in Legacy /\ n \in DOMAIN restarted_args /\ opt.policy
  /\ at' = [at EXCEPT ![t] = "again"] /\ nr' = [nr EXCEPT ![t] = n]
  /\ lost' = [lost EXCEPT ![t] = @ \cup restarted_args[n]]
  /\ served[t] = "no" /\ UNCHANGED <<ret, served>>
TrapRestarts(t) == \E n \in Calls : Restarts(t, n)

LEMMA RestartedArgs ==
  \A n \in DOMAIN restarted_args :
     restarted_args[n] \in SUBSET (0 .. 5) /\ n \notin Legacy /\ n # "clone"
BY DEF restarted_args, Legacy

LEMMA TrapCases ==
  ASSUME Inv, NEW t \in Threads, OnHostTrap(t)
  PROVE  TrapEnds(t) \/ TrapRestarts(t)
<1> DEFINE as == IF nr[t] \in DOMAIN restart_legacy THEN restart_legacy[nr[t]] ELSE {"answer"}
<1>1. /\ at \in [Threads -> Running \cup Stopped \cup {"none"}] /\ Trapped(t)
  BY DEF Inv, TypeOK, ServedInv, OnHostTrap
<1>2. \A n \in as \ {"answer"} : n \in Calls /\ n \in DOMAIN restarted_args /\ nr[t] \in Legacy
  BY DEF restart_legacy, restarted_args, Calls, Legacy, PathCalls
<1>3. CASE \E n \in as \ {"answer"} : /\ trap[t] = "call" /\ opt.policy
                                       /\ at' = [at EXCEPT ![t] = "again"]
                                       /\ lost' = [lost EXCEPT ![t] = @ \cup restarted_args[n]]
                                       /\ Number(t, n) /\ UNCHANGED <<ret, served>>
  <2>1. PICK n \in as \ {"answer"} : /\ trap[t] = "call" /\ opt.policy
                                      /\ at' = [at EXCEPT ![t] = "again"]
                                      /\ lost' = [lost EXCEPT ![t] = @ \cup restarted_args[n]]
                                      /\ Number(t, n) /\ UNCHANGED <<ret, served>>
    BY <1>3
  <2>2. Restarts(t, n)
    BY <1>1, <1>2, <2>1 DEF Number, Trapped, Restarts
  <2> QED BY <1>2, <2>2 DEF TrapRestarts
<1>4. CASE /\ at' = [at EXCEPT ![t] = "user"] /\ Number(t, nr[t]) /\ UNCHANGED lost
           /\ \/ /\ trap[t] # "marker" /\ ret' = [ret EXCEPT ![t] = "signal"]
                 /\ served' = [served EXCEPT ![t] = "no"]
              \/ /\ trap[t] = "marker" /\ ret' = [ret EXCEPT ![t] = ret[t]]
                 /\ served' = [served EXCEPT ![t] = served[t]]
              \/ /\ trap[t] = "call" /\ ret' = [ret EXCEPT ![t] = "answer"]
                 /\ served' = [served EXCEPT ![t] = IF served[t] = "no" THEN "answered" ELSE "both"]
  BY <1>1, <1>4 DEF Number, Trapped, TrapEnds
<1> QED BY <1>3, <1>4 DEF OnHostTrap

(* The SIGSYS of a host policy or of the guest's own filter.               *)
LEMMA OnHostTrapStep ==
  ASSUME Inv, NEW t \in Threads, OnHostTrap(t)
  PROVE  Inv'
<1> USE LeaderIsThread DEF kernel, records, Running, Stopped
<1>0. TypeOK /\ LiveInv /\ ModeInv /\ InsysInv /\ ArgsInv /\ FilesInv /\ ExecInv /\ ServedInv
      /\ LostInv
  BY DEF Inv
<1>a. /\ at[t] = "sigsys" /\ Trapped(t)
      /\ trap' = [trap EXCEPT ![t] = "none"] /\ mode' = [mode EXCEPT ![t] = resume_mode(pend[t])]
      /\ UNCHANGED <<opt, args, image, by, pend, insys, seen, req, filtered, files, orphans>>
  BY <1>0 DEF OnHostTrap, ServedInv
<1>b. \/ /\ at' = [at EXCEPT ![t] = "user"] /\ nr' = [nr EXCEPT ![t] = "none"]
         /\ \E r \in {"signal", "answer"} : ret' = [ret EXCEPT ![t] = r]
         /\ \E h \in {"no", "answered"} : served' = [served EXCEPT ![t] = h]
         /\ UNCHANGED lost
      \/ \E n \in Calls : Restarts(t, n)
  BY TrapCases, <1>a DEF TrapEnds, TrapRestarts
<1> USE DEF Restarts
<1>1. TypeOK'
  <2>1. lost' \in [Threads -> SUBSET (0 .. 5)]
    BY <1>0, <1>b, RestartedArgs DEF TypeOK
  <2>2. at' \in [Threads -> Running \cup Stopped \cup {"none"}]
        /\ nr' \in [Threads -> Calls \cup {"none", "skip"}]
    BY <1>0, <1>b DEF TypeOK
  <2>3. ret' \in [Threads -> {"none", "kernel", "answer", "signal", "clobbered", "restart"}]
        /\ served' \in [Threads -> {"no", "ran", "answered"}]
    BY <1>0, <1>b DEF TypeOK
  <2>4. mode' \in [Threads -> {"cont", "syscall"}] /\ trap' \in [Threads -> {"none", "call", "marker"}]
    BY <1>0, <1>a DEF TypeOK, resume_mode
  <2> HIDE DEF Restarts, Running, Stopped
  <2> QED BY <1>0, <1>a, <2>1, <2>2, <2>3, <2>4 DEF TypeOK
<1>2. LiveInv'
  BY <1>0, <1>a, <1>b DEF LiveInv, TypeOK
<1>3. ModeInv'
  BY <1>0, <1>a, <1>b DEF ModeInv, Outside, UserMode, TypeOK, resume_mode
<1>4. InsysInv'
  BY <1>0, <1>a, <1>b DEF InsysInv, Outside, UserMode, TypeOK, ModeInv
<1>5. ArgsInv'
  BY <1>0, <1>a, <1>b DEF ArgsInv, Outside, UserMode, TypeOK, LiveInv, ModeInv
<1>6. FilesInv'
  BY <1>0, <1>a, <1>b DEF FilesInv, StandInsRemoved, TypeOK, ModeInv, Outside, UserMode
<1>7. ExecInv'
  BY <1>0, <1>a, <1>b DEF ExecInv, RequestFitsImage, TypeOK, LiveInv
<1>8. ServedInv'
  BY <1>0, <1>a, <1>b DEF ServedInv, Leaving, Trapped, TypeOK, LiveInv, ModeInv, Outside, UserMode
<1>9. LostInv'
  <2>1. CASE UNCHANGED lost /\ at' = [at EXCEPT ![t] = "user"] /\ nr' = [nr EXCEPT ![t] = "none"]
             /\ \E h \in {"no", "answered"} : served' = [served EXCEPT ![t] = h]
    BY <1>0, <1>a, <2>1 DEF LostInv, OneLoss, InCall, TypeOK
  <2>2. ASSUME NEW n \in Calls, Restarts(t, n) PROVE LostInv'
    <3>1. lost[t] = {} /\ n \notin Legacy /\ n # "clone"
      BY <1>0, <1>a, <2>2, RestartedArgs DEF LostInv, InCall
    <3>2. lost' = [lost EXCEPT ![t] = restarted_args[n]]
      BY <1>0, <2>2, <3>1 DEF TypeOK
    <3>3. OneLoss(t)'
      BY <1>0, <1>a, <2>2, <3>2 DEF OneLoss, TypeOK
    <3> QED BY <1>0, <1>a, <2>2, <3>1, <3>2, <3>3 DEF LostInv, OneLoss, InCall, TypeOK
  <2> QED BY <1>b, <2>1, <2>2
<1> QED BY <1>1, <1>2, <1>3, <1>4, <1>5, <1>6, <1>7, <1>8, <1>9 DEF Inv

-----------------------------------------------------------------------------
LEMMA InitInv == Init => Inv
<1> SUFFICES ASSUME Init PROVE Inv
  OBVIOUS
<1>1. NoPending \in PendingSyscall /\ ~active(NoPending)
  BY DEF NoPending, PendingSyscall, Fixups, active
<1>2. TypeOK
  BY <1>1, LeaderIsThread DEF Init, TypeOK, Running, Stopped
<1>3. LiveInv /\ InsysInv /\ ArgsInv /\ FilesInv /\ ExecInv /\ ServedInv /\ LostInv
  BY LeaderIsThread DEF Init, LiveInv, InsysInv, ArgsInv, FilesInv, StandInsRemoved, ExecInv,
     RequestFitsImage, ServedInv, Outside, UserMode, LostInv, OneLoss
<1>4. ModeInv
  BY <1>1, LeaderIsThread DEF Init, ModeInv, Outside, UserMode, resume_mode
<1> QED BY <1>2, <1>3, <1>4 DEF Inv

(* At a syscall stop the supervisor does what the stop is for.             *)
LEMMA StopCases ==
  ASSUME Inv, NEW t \in Threads, OnSyscallStop(t) \/ OnSeccompEvent(t)
  PROVE  \/ Exits(t) /\ insys' = [insys EXCEPT ![t] = IF opt.seccomp THEN @ ELSE FALSE]
         \/ /\ \E o \in dispatch(nr[t]) : Enters(t, o)
            /\ insys' = [insys EXCEPT ![t] = IF opt.seccomp THEN @ ELSE TRUE]
<1>1. insys \in [Threads -> BOOLEAN] /\ (at[t] = "trace" => opt.seccomp)
  BY DEF Inv, TypeOK, ModeInv
<1>2. CASE OnSeccompEvent(t)
  BY <1>1, <1>2, EnterCases DEF OnSeccompEvent
<1>3. CASE OnSyscallStop(t) /\ at[t] = "exit"
  <2>1. is_exit(t)
    BY <1>3, ToldApart DEF StopsToldApart
  <2> QED BY <1>1, <1>3, <2>1, ExitCases DEF OnSyscallStop
<1>4. CASE OnSyscallStop(t) /\ at[t] = "entry"
  <2>1. ~is_exit(t)
    BY <1>4, ToldApart DEF StopsToldApart
  <2> QED BY <1>1, <1>4, <2>1, EnterCases DEF OnSyscallStop
<1> QED BY <1>2, <1>3, <1>4 DEF OnSyscallStop

LEMMA InvStep == Inv /\ [Next]_vars => Inv'
<1> SUFFICES ASSUME Inv, [Next]_vars PROVE Inv'
  OBVIOUS
<1>1. ASSUME NEW t \in Threads, OnSyscallStop(t) \/ OnSeccompEvent(t) PROVE Inv'
  BY <1>1, StopCases, EntersStep, ExitsStep
<1>2. CASE UNCHANGED vars
  BY <1>2 DEF vars, kernel, records, Inv, TypeOK, LiveInv, ModeInv, InsysInv, ArgsInv, FilesInv,
     StandInsRemoved, ExecInv, RequestFitsImage, ServedInv, Leaving, Trapped, resume_mode, LostInv, OneLoss, InCall
<1>3. CASE Kernel
  BY <1>3, AskStep, AskAgainStep, KernelRunsStep, KernelClonesStep, KernelExecsStep, UserStep,
     KilledStep DEF Kernel
<1>4. CASE Stops
  BY <1>1, <1>4, OnNewStep, OnCloneStep, UserStep, OnHostTrapStep, OnExecStep, KilledStep
         DEF Stops
<1> QED BY <1>2, <1>3, <1>4 DEF Next

(* The inductive invariant of the stops.                                   *)
THEOREM Invariant == Spec => []Inv
BY InitInv, InvStep, PTL DEF Spec

(* Type correctness: in particular no call is both carried out by the      *)
(* kernel and answered by the supervisor.                                  *)
THEOREM TypeCorrect == Spec => []TypeOK
<1>1. Inv => TypeOK
  BY DEF Inv
<1> QED BY <1>1, Invariant, PTL

(* on_syscall_stop() never takes an entry for an exit or an exit for an    *)
(* entry, with and without PTRACE_GET_SYSCALL_INFO.                        *)
THEOREM StopsAreToldApart == Spec => []StopsToldApart
BY ToldApart, Invariant, PTL

(* on_syscall_enter() and on_syscall_exit(): the guest never runs with a   *)
(* register that a handler rewrote through rewrite_arg; the registers it   *)
(* does find changed are clone's flags, and under a host policy those of   *)
(* one substitute call of restart_legacy().                                *)
THEOREM RegistersAreGuests == Spec => []GuestOwnsRegisters
<1>1. Inv => GuestOwnsRegisters
  BY DEF Inv, ArgsInv, Outside, GuestOwnsRegisters, LostInv, OneLoss
<1> QED BY <1>1, Invariant, PTL

(* on_syscall_exit(): the name of a stand-in for a /proc file exists only  *)
(* inside the open that uses it.                                           *)
THEOREM StandInsAreRemoved == Spec => []StandInsRemoved
<1>1. Inv => StandInsRemoved
  BY DEF Inv, FilesInv
<1> QED BY <1>1, Invariant, PTL

(* The exec event hands the loader the request of the execve that made the *)
(* image, however many threads were inside execve.                         *)
THEOREM RequestsFit == Spec => []RequestFitsImage
<1>1. Inv => RequestFitsImage
  BY DEF Inv, ExecInv
<1> QED BY <1>1, Invariant, PTL

-----------------------------------------------------------------------------
(* The refinement of GuestCall: what one thread's stops look like to it.   *)
Ph(a, how) == IF a \in UserMode THEN "user" ELSE IF a = "none" THEN "none"
              ELSE IF how = "no" THEN "asked" ELSE how
Res(a, r) == IF a \in UserMode THEN r ELSE "none"

LEMMA Mapping ==
  /\ phase = [t \in Threads |-> Ph(at[t], served[t])]
  /\ result = [t \in Threads |-> Res(at[t], ret[t])]
  /\ phase' = [t \in Threads |-> Ph(at'[t], served'[t])]
  /\ result' = [t \in Threads |-> Res(at'[t], ret'[t])]
<1>1. \A a, how : Ph(a, how) = IF a \in UserMode \cup {"none"}
                              THEN (IF a = "none" THEN "none" ELSE "user")
                              ELSE IF how = "no" THEN "asked" ELSE how
  BY DEF Ph, UserMode
<1> QED BY <1>1 DEF phase, result, Res

(* A step of one thread is seen as a step of that thread.                  *)
LEMMA OneThread ==
  ASSUME NEW t \in Threads,
         \A u \in Threads \ {t} : at'[u] = at[u] /\ served'[u] = served[u] /\ ret'[u] = ret[u]
  PROVE  /\ phase' = [phase EXCEPT ![t] = Ph(at'[t], served'[t])]
         /\ result' = [result EXCEPT ![t] = Res(at'[t], ret'[t])]
         /\ phase[t] = Ph(at[t], served[t]) /\ result[t] = Res(at[t], ret[t])
BY Mapping

(* A step that changes neither what the thread is doing nor its result.    *)
LEMMA Stutters ==
  ASSUME NEW t \in Threads,
         \A u \in Threads \ {t} : at'[u] = at[u] /\ served'[u] = served[u] /\ ret'[u] = ret[u],
         Ph(at'[t], served'[t]) = Ph(at[t], served[t]), Res(at'[t], ret'[t]) = Res(at[t], ret[t])
  PROVE  UNCHANGED <<phase, result>>
BY Mapping

LEMMA RefineInit == Init => G!Init
<1> SUFFICES ASSUME Init PROVE G!Init
  OBVIOUS
<1>1. phase = [t \in Threads |-> IF t = Leader THEN "user" ELSE "none"]
  BY Mapping DEF Init, Ph, UserMode
<1>2. result = [t \in Threads |-> "none"]
  BY Mapping DEF Init, Res
<1> QED BY <1>1, <1>2 DEF G!Init

LEMMA RefineStep ==
  ASSUME Inv, [Next]_vars
  PROVE  G!Next \/ UNCHANGED <<phase, result>>
<1> USE DEF Ph, Res, UserMode
<1>0. /\ at \in [Threads -> Running \cup Stopped \cup {"none"}]
      /\ ret \in [Threads -> {"none", "kernel", "answer", "signal", "clobbered", "restart"}]
      /\ served \in [Threads -> {"no", "ran", "answered"}]
      /\ ServedInv
  BY DEF Inv, TypeOK
<1>1. ASSUME NEW t \in Threads, NEW ph, NEW r,
             \A u \in Threads \ {t} : at'[u] = at[u] /\ served'[u] = served[u] /\ ret'[u] = ret[u],
             Ph(at'[t], served'[t]) = ph, Res(at'[t], ret'[t]) = r
      PROVE  G!Goes(t, ph, r) /\ phase[t] = Ph(at[t], served[t])
  BY <1>1, OneThread DEF G!Goes
<1>2. ASSUME NEW t \in Threads, Ask(t) PROVE G!Next
  <2>1. PICK n : Calling(t, n)
    BY <1>2, CallCases DEF Ask
  <2>2. phase[t] = "user" /\ G!Goes(t, "asked", "none")
    BY <1>0, <1>1, <1>2, <2>1 DEF Ask, Calling
  <2> QED BY <2>2 DEF G!Next, G!Ask
<1>3. ASSUME NEW t \in Threads, AskAgain(t) PROVE UNCHANGED <<phase, result>>
  <2>1. Calling(t, nr[t])
    BY <1>3, CallCases DEF AskAgain
  <2> QED BY <1>0, <1>3, <2>1, Stutters DEF AskAgain, Calling, ServedInv
<1>4. ASSUME NEW t \in Threads, KernelRuns(t) PROVE G!Next \/ UNCHANGED <<phase, result>>
  <2>1. at[t] = "run" /\ served[t] = "no"
    BY <1>0, <1>4 DEF KernelRuns, ServedInv
  <2>2. CASE ret' = [ret EXCEPT ![t] = "kernel"] /\ served' = [served EXCEPT ![t] = "ran"]
             /\ at' = [at EXCEPT ![t] = "exit"]
    <3>1. phase[t] = "asked" /\ G!Goes(t, "ran", "none")
      BY <1>0, <1>1, <2>1, <2>2
    <3> QED BY <3>1 DEF G!Next, G!Run
  <2>3. CASE ret' = [ret EXCEPT ![t] = "kernel"] /\ served' = [served EXCEPT ![t] = "ran"]
             /\ at' = [at EXCEPT ![t] = "user"]
    <3>1. phase[t] = "asked" /\ G!Goes(t, "user", "kernel")
      BY <1>0, <1>1, <2>1, <2>3
    <3> QED BY <3>1 DEF G!Next, G!Return
  <2>4. CASE ret' = [ret EXCEPT ![t] = "restart"] /\ UNCHANGED served
             /\ \E a \in {"exit", "again"} : at' = [at EXCEPT ![t] = a]
    BY <1>0, <2>1, <2>4, Stutters
  <2> QED BY <1>4, <2>1, <2>2, <2>3, <2>4 DEF KernelRuns, Leaves
<1>5. ASSUME NEW t \in Threads, KernelClones(t) PROVE G!Next
  <2>1. at[t] = "run" /\ served[t] = "no"
    BY <1>0, <1>5 DEF KernelClones, ServedInv
  <2>2. PICK u \in Threads :
          /\ at[u] = "none" /\ at' = [at EXCEPT ![t] = "cloneev", ![u] = "new"]
          /\ ret' = [ret EXCEPT ![t] = "kernel", ![u] = "kernel"]
          /\ served' = [served EXCEPT ![t] = "ran", ![u] = "ran"]
    BY <1>5, <2>1 DEF KernelClones
  <2>3. phase[t] = "asked" /\ phase[u] = "none" /\ phase' = [phase EXCEPT ![t] = "ran", ![u] = "ran"]
        /\ result' = result
    BY <1>0, <2>1, <2>2, Mapping
  <2> QED BY <2>3 DEF G!Next, G!Clone
<1>6. ASSUME NEW t \in Threads, KernelExecs(t) PROVE G!Next
  <2>1. at[t] = "run" /\ served[t] = "no"
    BY <1>0, <1>6 DEF KernelExecs, ServedInv
  <2>2. /\ phase[t] = "asked" /\ phase' = [u \in Threads |-> IF u = Leader THEN "ran" ELSE "none"]
        /\ result' = [u \in Threads |-> "none"]
    BY <1>6, <2>1, Mapping DEF KernelExecs
  <2> QED BY <2>2 DEF G!Next, G!Exec
<1>7. ASSUME NEW t \in Threads, Signalled(t) \/ Continued(t) \/ OnEventStop(t) \/ OnSignal(t)
      PROVE  UNCHANGED <<phase, result>>
  BY <1>0, <1>7, Stutters DEF Signalled, Continued, OnEventStop, OnSignal
<1>8. CASE Killed
  <2>1. phase' = [u \in Threads |-> "none"] /\ result' = [u \in Threads |-> "none"]
    BY <1>8, Mapping DEF Killed
  <2> QED BY <2>1 DEF G!Next, G!Die
<1>9. ASSUME NEW t \in Threads, at[t] \in {"new", "cloneev", "execev"},
             \E a \in {"exit", "user"} : at' = [at EXCEPT ![t] = a], UNCHANGED <<served, ret>>
      PROVE  G!Next \/ UNCHANGED <<phase, result>>
  <2>1. served[t] = "ran" /\ ret[t] = "kernel"
    BY <1>0, <1>9 DEF ServedInv
  <2>2. CASE at' = [at EXCEPT ![t] = "exit"]
    BY <1>0, <1>9, <2>1, <2>2, Stutters
  <2>3. CASE at' = [at EXCEPT ![t] = "user"]
    <3>1. phase[t] = "ran" /\ G!Goes(t, "user", "kernel")
      BY <1>0, <1>1, <1>9, <2>1, <2>3
    <3> QED BY <3>1 DEF G!Next, G!Return
  <2> QED BY <1>9, <2>2, <2>3
<1>10. ASSUME NEW t \in Threads, OnNew(t) \/ OnClone(t) PROVE G!Next \/ UNCHANGED <<phase,
              result>>
  BY <1>9, <1>10 DEF OnNew, OnClone, first_stop, Leaves
<1>11. CASE OnExec
  BY <1>9, <1>11, LeaderIsThread DEF OnExec, Leaves
<1>12. ASSUME NEW t \in Threads, Exits(t) PROVE G!Next \/ UNCHANGED <<phase, result>>
  <2>1. CASE ExitReturns(t)
    <3>1. \/ phase[t] = "ran" /\ G!Goes(t, "user", "kernel")
          \/ phase[t] = "answered" /\ G!Goes(t, "user", "answer")
      BY <1>0, <1>1, <1>12, <2>1 DEF Exits, ExitReturns
    <3> QED BY <3>1 DEF G!Next, G!Return
  <2>2. CASE ExitRestarts(t)
    BY <1>0, <1>12, <2>2, Stutters DEF Exits, ExitRestarts
  <2>3. CASE ExitTraps(t)
    BY <1>0, <1>12, <2>3, Stutters DEF Exits, ExitTraps
  <2> QED BY <1>12, <2>1, <2>2, <2>3 DEF Exits
<1>13. ASSUME NEW t \in Threads, NEW o, Enters(t, o) PROVE G!Next \/ UNCHANGED <<phase, result>>
  <2>1. at[t] \in {"entry", "trace"} /\ served[t] = "no"
    BY <1>0, <1>13 DEF Enters, ServedInv
  <2>2. CASE EnterRuns(t, o)
    BY <1>0, <2>1, <2>2, Stutters DEF EnterRuns
  <2>3. CASE EnterTrapped(t, o)
    BY <1>0, <2>1, <2>3, Stutters DEF EnterTrapped
  <2>4. CASE EnterAnswered(t, o)
    <3>1. phase[t] = "asked" /\ G!Goes(t, "user", "answer")
      BY <1>0, <1>1, <2>1, <2>4 DEF EnterAnswered
    <3> QED BY <3>1 DEF G!Next, G!Return
  <2>5. CASE EnterSkipped(t, o)
    <3>1. phase[t] = "asked" /\ G!Goes(t, "answered", "none")
      BY <1>0, <1>1, <2>1, <2>5 DEF EnterSkipped
    <3> QED BY <3>1 DEF G!Next, G!Answer
  <2> QED BY <1>13, <2>2, <2>3, <2>4, <2>5 DEF Enters
<1>14. ASSUME NEW t \in Threads, OnHostTrap(t) PROVE G!Next \/ UNCHANGED <<phase, result>>
  <2>1. at[t] = "sigsys"
    BY <1>14 DEF OnHostTrap
  <2>2. CASE TrapEnds(t)
    <3>1. \/ phase[t] = "asked" /\ G!Goes(t, "user", "signal")
          \/ phase[t] \in {"asked", "answered"} /\ G!Goes(t, "user", "answer")
      BY <1>0, <1>1, <2>1, <2>2 DEF TrapEnds
    <3> QED BY <3>1 DEF G!Next, G!Return
  <2>3. CASE TrapRestarts(t)
    BY <1>0, <2>1, <2>3, Stutters DEF TrapRestarts, Restarts
  <2> QED BY <1>14, <2>2, <2>3, TrapCases
<1>15. CASE OnEnd \/ UNCHANGED vars
  BY <1>15, Mapping DEF OnEnd, vars, kernel
<1>16. ASSUME NEW t \in Threads, OnSyscallStop(t) \/ OnSeccompEvent(t)
       PROVE  G!Next \/ UNCHANGED <<phase, result>>
  BY <1>12, <1>13, <1>16, StopCases
<1>17. CASE Kernel
  BY <1>2, <1>3, <1>4, <1>5, <1>6, <1>7, <1>8, <1>17 DEF Kernel
<1>18. CASE Stops
  BY <1>7, <1>10, <1>11, <1>14, <1>15, <1>16, <1>18 DEF Stops
<1> QED BY <1>15, <1>17, <1>18 DEF Next

(* Every behaviour of the stops is one that GuestCall allows: each call of *)
(* the guest is carried out once or answered once, and the thread goes on  *)
(* with that result.                                                       *)
THEOREM CallsRefine == Spec => ImplementsCalls
<1>1. Inv /\ [Next]_vars => [G!Next]_(G!vars)
  BY RefineStep DEF G!vars
<1> QED BY RefineInit, <1>1, Invariant, PTL DEF Spec, ImplementsCalls, G!Spec
=============================================================================
