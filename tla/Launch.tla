------------------------------- MODULE Launch -------------------------------
(***************************************************************************)
(* From a session's configuration to the first instruction of its program: *)
(* prepare_and_spawn and the end of run() on the supervisor's thread, the  *)
(* bootstrap code in the cloned child (bootstrap.c), and the userland      *)
(* loader or the guest's own dynamic loader after the exec.                *)
(*                                                                         *)
(* Both sides run at the same time and meet at the ready pipe, the         *)
(* PTRACE_SEIZE, the sync pipe, the exec event and the error pipe.  Any    *)
(* kernel call of either may fail, a client may cancel at any moment, and  *)
(* the process of the supervisor may be killed.                            *)
(***************************************************************************)
EXTENDS Loader

CONSTANTS Requests,     \* what sessions ask for
          Shells,       \* the programs tried when no command is given
          Dirs          \* guest paths usable as working directories

\* Descriptors of the parent: its own three, one more (a file or the pty slave), the
\* pipes; HIGH_FD_BASE and up are what F_DUPFD_CLOEXEC gives.
HIGH_FD_BASE == 10
Fds == 0 .. HIGH_FD_BASE + 2
Closed == "closed"
ParentFds == [fd \in Fds |->
                 CASE fd = 0 -> "stdin" [] fd = 1 -> "stdout" [] fd = 2 -> "stderr"
                   [] fd = 3 -> "other" [] fd = 4 -> "sync_rd" [] fd = 5 -> "sync_wr"
                   [] fd = 6 -> "err_rd" [] fd = 7 -> "err_wr" [] fd = 8 -> "ready_rd"
                   [] fd = 9 -> "ready_wr" [] OTHER -> Closed]

\* The host's file that is executed in place of the guest's; no path of a guest leads to it.
LoaderFile == <<"vhdp-loader">>

Hosts == [app : BOOLEAN, android : BOOLEAN, explicit : BOOLEAN, loader : BOOLEAN,
          ptrace : BOOLEAN, seccomp : BOOLEAN, exec_mapping : BOOLEAN]

\* A configuration whose program name is empty is refused (config.cpp).
ASSUME LaunchAssumption ==
    /\ \A r \in Requests : /\ r.host \in Hosts /\ r.seccomp \in {"on", "off", "auto"}
                           /\ r.stdio \in [1 .. 3 -> -1 .. HIGH_FD_BASE - 1]
                           /\ r.argv \in Seq(Seq(STRING)) /\ (r.argv # <<>> => r.argv[1] # <<>>)
                           /\ r.cwd \in Paths /\ r.path \in Seq(Seq(STRING))
    /\ Shells \in Seq(Paths)

VARIABLES req,       \* the session's request, never changed
          sup,       \* where the supervisor's thread stands
          round,     \* of the loop that plans the exec: how many scripts, file, arguments
          the_plan, load_request,
          start,     \* finish_start: pending, ok or failed, and what it reports
          cancelled, \* cancel_reason_ is set
          pc,        \* where the child stands
          fds,       \* its descriptors
          ready, go, \* bytes in the ready and sync pipes
          msg,       \* what the child wrote to the error pipe
          traced, killed, \* seized; SIGKILL is pending
          secure,    \* no_new_privs and the filter, once set
          given,     \* the load request the loader was handed
          mem, prog, dl, \* memory and the images in it
          seg,       \* the loader's next segment
          argv       \* the argument vector on the guest's stack

supervisor == <<sup, round, the_plan, load_request, start, cancelled>>
child == <<pc, fds, ready, msg, secure, mem, prog, dl, seg, argv>>
vars == <<req, supervisor, child, go, traced, killed, given>>

Pending == [state |-> "pending", code |-> "", stage |-> "", errno |-> ""]
Failed(code, stage, errno) == [state |-> "failed", code |-> code, stage |-> stage, errno |-> errno]
NoRound == [depth |-> 0, current |-> <<>>, argv |-> <<>>]
NoMsg == [stage |-> "", errno |-> ""]

\* RootlessEngine::compute, from what the host answers: an Android app cannot execute its
\* own storage and needs the userland loader; one named by VHDP_LOADER must be there.
compute(h) == [available |-> (h.app \/ h.explicit => h.loader) /\ h.ptrace,
               loader |-> h.loader /\ (h.app \/ h.explicit \/ h.android),
               seccomp |-> h.seccomp]

\* The other engines are never available.
select_engine(requested, h) == requested \in {"auto", "rootless"} /\ compute(h).available

loader == compute(req.host).loader
use_seccomp == req.seccomp = "on" \/ (req.seccomp = "auto" /\ compute(req.host).seccomp)

create_instance(h) == /\ compute(h).available
                      /\ loader /\ h.android => h.exec_mapping
                      /\ req.seccomp = "on" => compute(h).seccomp

Init == /\ req \in Requests
        /\ sup = "select" /\ round = NoRound /\ the_plan = NoPlan /\ load_request = NoRequest
        /\ start = Pending /\ cancelled = FALSE
        /\ pc = "none" /\ fds = ParentFds /\ ready = 0 /\ go = 0 /\ msg = NoMsg
        /\ traced = FALSE /\ killed = FALSE /\ secure = {} /\ given = NoRequest
        /\ mem = [a \in Addr |-> Free] /\ prog = NoImage /\ dl = NoImage /\ seg = 0 /\ argv = <<>>

----------------------------------------------------------------------------
\* prepare_and_spawn up to the clone.

command == IF req.argv = <<>>
           THEN LET found == {i \in DOMAIN Shells : is_file(resolve(Shells[i]))}
                IN IF found = {} THEN [err |-> "ENOENT", path |-> <<>>]
                   ELSE [err |-> "ok", path |-> Shells[Least(found)]]
           ELSE IF Len(req.argv[1]) = 1 THEN search_path(req.argv[1], req.path, req.cwd)
           ELSE [err |-> "ok", path |-> req.argv[1]]

start_argv(c) == IF req.argv = <<>> THEN <<c.path>> ELSE req.argv

FailStart(f) == /\ start' = f /\ sup' = "done"
                /\ UNCHANGED <<req, round, the_plan, load_request, cancelled, child, go, traced,
                               killed, given>>

\* Session::start up to the engine's own start.
Select == /\ sup = "select"
          /\ IF select_engine(req.engine, req.host) /\ create_instance(req.host)
             THEN /\ sup' = "prepare"
                  /\ UNCHANGED <<req, round, the_plan, load_request, start, cancelled, child, go,
                                 traced,
                                 killed, given>>
             ELSE FailStart(Failed("engine_unavailable", "", ""))

through_loader(p) == [err |-> p.err, diag |-> p.diag, host_exec |-> LoaderFile,
                      argv |-> p.program_argv, guest_program |-> p.guest_program,
                      guest_loader |-> p.guest_loader, program_argv |-> p.program_argv,
                      via_loader |-> p.via_loader, loader_argv0 |-> p.loader_argv0]

spawn_with(p, request) ==
    /\ sup' = "ready" /\ pc' = "ready"
    /\ load_request' = request
    /\ the_plan' = IF loader THEN through_loader(p) ELSE p
    /\ UNCHANGED <<req, round, start, cancelled, fds, ready, msg, secure, mem, prog, dl, seg,
                   argv, go, traced,
                   killed, given>>

Spawn(p, request) ==
    \/ loader /\ request = NoRequest /\ FailStart(Failed("exec_failed", "", "ENAMETOOLONG"))
    \/ ~(loader /\ request = NoRequest) /\ spawn_with(p, request)
    \/ ~(loader /\ request = NoRequest) /\ FailStart(Failed("io", "", ""))  \* pipe2, clone

Planned(c, p) ==
    IF p.err # "ok" THEN FailStart(Failed("exec_failed", "", p.err))
    ELSE Spawn(p, IF loader THEN make_load_request(p, absolute(c.path, req.cwd)) ELSE NoRequest)

\* The loop of ExecResolver::plan looks at one more file.
PlanFrom(depth, current, args) ==
    /\ sup' = "plan" /\ round' = [depth |-> depth, current |-> current, argv |-> args]
    /\ UNCHANGED <<req, the_plan, load_request, start, cancelled, child, go, traced, killed, given>>

Prepare ==
    /\ sup = "prepare"
    /\ IF req.cwd \notin Dirs
       THEN FailStart(Failed("invalid_argument", "",
                             IF resolve(req.cwd).err # "ok" THEN resolve(req.cwd).err ELSE "ENOTDIR"))
       ELSE \E c \in {command} :
               IF c.err # "ok" THEN FailStart(Failed("exec_failed", "", c.err))
               ELSE PlanFrom(0, absolute(c.path, req.cwd), start_argv(c))

Plan == /\ sup = "plan"
        /\ \E r \in {plan_round(round.depth, round.current, round.argv, req.cwd)} :
              IF r.plan = NoPlan THEN PlanFrom(round.depth + 1, r.current, r.argv)
              ELSE Planned(command, r.plan)

\* The file, or the dynamic loader it names, cannot be opened or read.
OpenErrnos == {"EACCES", "EMFILE"}
PlanFails == /\ sup = "plan" /\ round.depth <= kMaxShebangDepth /\ opens(resolve(round.current))
             /\ \E e \in OpenErrnos : FailStart(Failed("exec_failed", "", e))

\* The read of the ready pipe: a byte, or the end of file of a dead child.
Ready == /\ sup = "ready" /\ (ready = 1 \/ pc = "dead")
         /\ sup' = "seize"
         /\ UNCHANGED <<req, round, the_plan, load_request, start, cancelled, child, go, traced,
                        killed, given>>

\* PTRACE_SEIZE; get_or_add kills what a cancel came before.
Seize == /\ sup = "seize" /\ pc # "dead"
         /\ traced' = TRUE /\ sup' = "go" /\ killed' = (killed \/ cancelled)
         /\ UNCHANGED <<req, round, the_plan, load_request, start, cancelled, child, go, given>>

seize_refused_only == UNCHANGED pc

\* The attach failed: the child is killed and waited for.
seize_refused == pc' = "reaped"

SeizeRefused == /\ sup = "seize"
                /\ start' = Failed("engine_unavailable", "", "") /\ sup' = "done"
                /\ seize_refused
                /\ UNCHANGED <<req, round, the_plan, load_request, cancelled, fds, ready, msg,
                               secure, mem,
                               prog, dl, seg, argv, go, traced, killed, given>>

Go == /\ sup = "go" /\ sup' = "loop" /\ go' = 1
      /\ UNCHANGED <<req, round, the_plan, load_request, start, cancelled, child, traced, killed,
                     given>>

----------------------------------------------------------------------------
\* The event loop until the exec or the death of the child.

\* kEventExec: the request goes to the new image, the start has succeeded.
OnExec ==
    /\ sup = "loop" /\ pc = "execev"
    /\ \/ pc' = "image" /\ given' = load_request /\ UNCHANGED killed
       \/ load_request # NoRequest /\ killed' = TRUE /\ UNCHANGED <<pc, given>>  \* handover failed
    /\ load_request' = NoRequest
    /\ start' = [Pending EXCEPT !.state = "ok"]
    /\ sup' = "running"
    /\ UNCHANGED <<req, round, the_plan, cancelled, fds, ready, msg, secure, mem, prog, dl, seg,
                   argv, go, traced>>

OnExit == /\ sup \in {"loop", "running"} /\ pc = "dead"
          /\ pc' = "reaped" /\ sup' = IF sup = "loop" THEN "finish" ELSE "done"
          /\ UNCHANGED <<req, round, the_plan, load_request, start, cancelled, fds, ready, msg,
                         secure, mem,
                         prog, dl, seg, argv, go, traced, killed, given>>

\* run(), when the child died before its exec.
start_result == IF msg # NoMsg
                THEN Failed(IF msg.stage = "exec" THEN "exec_failed" ELSE "internal", msg.stage, msg.errno)
                ELSE IF cancelled THEN Failed("cancelled", "", "")
                ELSE Failed("exec_failed", "", "")

Finish == /\ sup = "finish" /\ sup' = "done" /\ start' = start_result
          /\ UNCHANGED <<req, round, the_plan, load_request, cancelled, child, go, traced,
                         killed, given>>

\* A client's cancel; the child is known once its pid was recorded.
Cancel == /\ ~cancelled /\ sup \notin {"select", "prepare", "plan", "done", "dead"}
          /\ cancelled' = TRUE
          /\ killed' = (killed \/ sup # "ready")
          /\ UNCHANGED <<req, sup, round, the_plan, load_request, start, child, go, traced, given>>

\* The process of the supervisor is killed; PTRACE_O_EXITKILL takes the child along.
SupervisorDies ==
    /\ sup \in {"ready", "seize", "go", "loop"}
    /\ sup' = "dead" /\ killed' = (killed \/ traced)
    /\ UNCHANGED <<req, round, the_plan, load_request, start, cancelled, child, go, traced, given>>

----------------------------------------------------------------------------
\* child_main.

Stages == <<"ready", "signals", "session", "stdio", "sync", "chdir", "fds", "no_new_privs",
            "seccomp", "exec">>
After(s) == Stages[Least({i \in DOMAIN Stages : Stages[i] = s}) + 1]

Alive == pc \notin {"none", "dead", "reaped"}
Dies == /\ killed /\ Alive /\ pc' = "dead"
        /\ UNCHANGED <<req, supervisor, fds, ready, msg, secure, mem, prog, dl, seg, argv, go,
                       traced, killed, given>>

\* Straight from the sources, without the detour.
stdio_direct(t, s) ==
    LET dup(u, i) == IF s[i + 1] < 0 THEN u ELSE [u EXCEPT ![i] = u[s[i + 1]]]
    IN dup(dup(dup(t, 0), 1), 2)

\* The sources are moved out of 0..2 first, then put in place.
stdio(t, s) ==
    LET moved == [fd \in Fds |-> IF fd >= HIGH_FD_BASE /\ s[fd - HIGH_FD_BASE + 1] >= 0
                                 THEN t[s[fd - HIGH_FD_BASE + 1]] ELSE t[fd]]
    IN [fd \in Fds |-> IF fd <= 2 /\ s[fd + 1] >= 0 THEN moved[fd + HIGH_FD_BASE] ELSE moved[fd]]

\* What the stages change besides their place.
Effect(s) ==
    CASE s = "ready" -> ready' = 1 /\ UNCHANGED <<fds, secure>>
      [] s = "stdio" -> fds' = stdio(fds, req.stdio) /\ UNCHANGED <<ready, secure>>
      [] s = "no_new_privs" -> secure' = secure \cup {"no_new_privs"} /\ UNCHANGED <<fds, ready>>
      [] s = "seccomp" -> /\ secure' = IF use_seccomp THEN secure \cup {"filter"} ELSE secure
                          /\ UNCHANGED <<fds, ready>>
      [] OTHER -> UNCHANGED <<fds, ready, secure>>

\* The sync read waits for the byte.  Its end of file never comes: the child holds a
\* write end of the pipe itself.
Stage(s) == /\ pc = s /\ s # "exec" /\ (s = "sync" => go = 1)
            /\ pc' = After(s) /\ Effect(s)
            /\ UNCHANGED <<req, supervisor, msg, mem, prog, dl, seg, argv, go, traced, killed,
                           given>>

\* report_and_exit.
CanFail == {"signals", "session", "stdio", "chdir", "no_new_privs", "seccomp", "exec"}
Errnos == {"EPERM", "ENOMEM"}
StageFails(s) ==
    /\ pc = s /\ s \in CanFail
    /\ s = "session" => req.new_session
    /\ s = "stdio" => \E i \in 1 .. 3 : req.stdio[i] >= 0
    /\ s = "seccomp" => use_seccomp
    /\ pc' = "dead" /\ \E e \in Errnos : msg' = [stage |-> s, errno |-> e]
    /\ UNCHANGED <<req, supervisor, fds, ready, secure, mem, prog, dl, seg, argv, go, traced,
                   killed, given>>

\* execve: descriptors above 2 are close-on-exec by now.
Exec == /\ pc = "exec" /\ pc' = "execev"
        /\ fds' = [fd \in Fds |-> IF fd <= 2 THEN fds[fd] ELSE Closed]
        /\ argv' = the_plan.argv
        /\ UNCHANGED <<req, supervisor, ready, msg, secure, mem, prog, dl, seg, go, traced,
                       killed, given>>

----------------------------------------------------------------------------
\* vhdp_loader_main, and die().

LoaderDies == /\ pc' = "dead" /\ UNCHANGED <<mem, prog, dl, seg, argv>>

\* load_image up to the reservation of the span; img' is the image it is about.
Reserve(g, is_interp, img, b) ==
    /\ ~refused_image(g, is_interp) /\ b \in bases(mem, g)
    /\ mem' = reserve(mem, g, b) /\ img' = image(g, b) /\ seg' = 1

\* One round of its loop; what comes after it follows the last segment.
MapSegment(img, then) ==
    /\ ~refused_segment(img.file, loads(img.file)[seg])
    /\ mem' = map_segment(mem, img.file, loads(img.file)[seg],
                          img.base - low(img.file) + loads(img.file)[seg].va)
    /\ img' = with_segment(img, loads(img.file)[seg])
    /\ seg' = seg + 1
    /\ pc' = IF seg < Len(loads(img.file)) THEN pc ELSE then

LoadProgram == \/ /\ pc = "image" /\ loader /\ pc' = "map"
                  /\ \E b \in Addr : Reserve(given.program, FALSE, prog, b)
                  /\ UNCHANGED <<dl, argv>>
               \/ pc = "map" /\ MapSegment(prog, "interp") /\ UNCHANGED <<dl, argv>>

LoadInterp == \/ /\ pc = "interp" /\ given.interp # <<>> /\ pc' = "map_interp"
                 /\ \E b \in Addr : Reserve(given.interp, TRUE, dl, b)
                 /\ UNCHANGED <<prog, argv>>
              \/ pc = "map_interp" /\ MapSegment(dl, "loaded") /\ UNCHANGED <<prog, argv>>
              \/ /\ pc = "interp" /\ interps(Files[prog.file]) = <<>> /\ given.interp = <<>>
                 /\ pc' = "loaded" /\ UNCHANGED <<mem, prog, dl, seg, argv>>

Jump == /\ pc = "loaded" /\ prog.phdr # 0
        /\ pc' = "guest" /\ UNCHANGED <<mem, prog, dl, seg, argv>>

\* Where nothing else is possible, or a kernel call of the loader fails, it dies.
InLoader == pc \in {"map", "interp", "map_interp", "loaded"} \/ (pc = "image" /\ loader)
LoaderStep == /\ LoadProgram \/ LoadInterp \/ Jump \/ (InLoader /\ LoaderDies)
              /\ UNCHANGED <<req, supervisor, fds, ready, msg, secure, go, traced, killed, given>>

\* External: without the userland loader the kernel runs host_exec, and a dynamic
\* loader started by name takes the program from its command line.
LdSo(a) == IF a[2] = <<"--argv0">>
           THEN [file |-> a[4], argv |-> <<a[3]>> \o SubSeq(a, 5, Len(a))]
           ELSE [file |-> a[2], argv |-> Tail(a)]

KernelLoads ==
    /\ pc = "image" /\ ~loader /\ pc' = "guest"
    /\ prog' = [NoImage EXCEPT !.file = IF the_plan.via_loader THEN LdSo(argv).file
                                        ELSE the_plan.host_exec]
    /\ argv' = IF the_plan.via_loader THEN LdSo(argv).argv ELSE argv
    /\ UNCHANGED <<req, supervisor, fds, ready, msg, secure, mem, dl, seg, go, traced, killed,
                   given>>

\* The launch is over; a child whose supervisor died before the seize waits for good, and
\* so does a supervisor that opened a FIFO nobody writes to.
Over == /\ \/ sup = "plan" /\ waits(resolve(round.current))
           \/ sup = "done" /\ pc \in {"none", "reaped", "dead"}
           \/ sup = "running" /\ pc = "guest" /\ ~killed
           \/ sup = "dead" /\ (~Alive \/ (pc = "sync" /\ go = 0 /\ ~traced))
        /\ UNCHANGED vars

Next == \/ Select \/ Prepare \/ Plan \/ PlanFails \/ Ready \/ Seize \/ SeizeRefused \/ Go
        \/ OnExec \/ OnExit \/ Finish
        \/ Cancel \/ SupervisorDies
        \/ Dies \/ Exec \/ LoaderStep \/ KernelLoads
        \/ \E i \in DOMAIN Stages : Stage(Stages[i]) \/ StageFails(Stages[i])
        \/ Over

Spec == Init /\ [][Next]_vars

----------------------------------------------------------------------------
\* What execve(2) would run.  A #! line puts its first word in place of the script: the
\* rest of the line, outer blanks off, is one argument, and the script's name the next.
Line(p) == Files[resolve(p).guest].line
Script(p) == /\ resolve(p).err = "ok" /\ Files[resolve(p).guest].kind = "script"
             /\ \E i \in DOMAIN Line(p) : Line(p)[i] # Space
Said(l) == {i \in DOMAIN l : l[i] # Space}
First(l) == l[Least(Said(l))]
Option(l) == Said(l) \ {Least(Said(l))}
Others(l) == IF Option(l) = {} THEN <<>>
             ELSE <<FlattenSeq(SubSeq(l, Least(Option(l)), Greatest(Option(l))))>>

\* Linux keeps a carriage return that ends the option of a line saved with CRLF; here it
\* is taken off, and an option that is nothing else is none.
EndsInCR(l) == Option(l) # {} /\ Last(l[Greatest(Option(l))]) = CR
WithoutCR(l) == LET solid == {i \in Option(l) : Solid(l[i])}
                IN IF solid = {} THEN <<>>
                   ELSE <<FlattenSeq(Append(SubSeq(l, Least(Option(l)), Greatest(solid) - 1),
                                            chomp(l[Greatest(solid)])))>>

\* argv as Linux has it, taken without such carriage returns, and whether there was one.
Asks(p, args) == [file |-> p, argv |-> args, taken |-> args, cr |-> FALSE]
Through(e, cwd) ==
    [file |-> absolute(First(Line(e.file)), cwd),
     argv |-> <<First(Line(e.file))>> \o Others(Line(e.file)) \o <<e.file>> \o Tail(e.argv),
     taken |-> <<First(Line(e.file))>> \o WithoutCR(Line(e.file)) \o <<e.file>> \o Tail(e.taken),
     cr |-> e.cr \/ EndsInCR(Line(e.file))]

\* Through at most kMaxShebangDepth scripts.
Onward(e, cwd) == IF Script(e.file) THEN Through(e, cwd) ELSE e
Execs(e, cwd) == LET at[k \in 0 .. kMaxShebangDepth] == IF k = 0 THEN e ELSE Onward(at[k - 1], cwd)
                 IN at
Execve(p, args, cwd) == Execs(Asks(p, args), cwd)[kMaxShebangDepth]

\* argv[0] is lost where the guest's dynamic loader is started by name and cannot take it.
SameArgv(a, owed) == IF ~loader /\ the_plan.via_loader /\ ~the_plan.loader_argv0
                     THEN Tail(a) = Tail(owed) ELSE a = owed

RunsCommand(c) ==
    \E e \in {Execve(absolute(c.path, req.cwd), start_argv(c), req.cwd)} :
       /\ prog.file = resolve(e.file).guest
       /\ ~e.cr => SameArgv(argv, e.argv)
       /\ SameArgv(argv, e.taken)
       /\ loader => /\ given.execfn = absolute(c.path, req.cwd)
                    /\ given.name = Last(c.path)

\* The first instruction runs with the three descriptors the session asked for, in
\* whatever order they overlap, and no other; traced, without new privileges, with the
\* filter wherever it was asked for or can be had; and on a host that may not execute
\* guest programs never by executing one.
StartsConfined ==
    /\ \A i \in 0 .. 2 : fds[i] = ParentFds[IF req.stdio[i + 1] < 0 THEN i ELSE req.stdio[i + 1]]
    /\ \A fd \in Fds : fd > 2 => fds[fd] = Closed
    /\ traced /\ "no_new_privs" \in secure
    /\ ("filter" \in secure) = (req.seccomp # "off" /\ req.host.seccomp)
    /\ req.host.app => prog.file # the_plan.host_exec

\* The guest's first instruction belongs to the program execve(2) would have run on Linux,
\* with the arguments it would have been given (through any chain of #! lines, with either
\* loader), and in the confinement the session asked for.  One difference is part of the
\* statement: where the option of a #! line ends in a carriage return, which Linux passes
\* on, parse_shebang takes it off, and the arguments are those of the line without it.
StartsAsExecve == pc = "guest" => RunsCommand(command) /\ StartsConfined

\* When the userland loader jumps, every byte of every segment of the program and of its
\* dynamic loader is in memory as it was linked, zeroes after the file's part, and AT_PHDR
\* points to where a segment puts the program headers.  Excepted are the bytes that lie on
\* a page of a segment mapped later, where that one was not mapped from the same place of
\* the file: map_segment replaces whole pages, and load_image does not refuse such a file.
\* An address PT_PHDR names falsely is passed on.
ImageAsLinked ==
    pc = "guest" /\ loader =>
        /\ Linked(mem, prog) /\ PhdrsShown(prog)
        /\ dl # NoImage => Linked(mem, dl)
        /\ prog.file = given.program
        /\ (dl = NoImage) = (interps(Files[prog.file]) = <<>>)

Executed == {"execev", "image", "map", "interp", "map_interp", "loaded", "guest"}

\* A start that is reported as successful has executed its image; one that failed leaves
\* no process behind, and names the step at which the child gave up if it did.
OutcomeReported ==
    /\ start.state = "ok" => pc \in Executed \cup {"dead", "reaped"} /\ msg = NoMsg
    /\ start.state = "failed" => /\ pc \in {"none", "reaped"}
                                 /\ msg # NoMsg /\ start.code # "engine_unavailable" =>
                                       start.stage = msg.stage /\ start.errno = msg.errno
=============================================================================
