# TLA+ models of vhdp

vhdp runs a Linux userland (a rootfs) without root: a *session* launches a guest
program under ptrace, a *supervisor* thread translates its system calls, and the
session ends when the guest's process tree does. This directory holds the models
of the parts where that is hard: several threads around one session, a process
tree whose events arrive in any order, state kept per process id, system calls
that are rewritten, answered or restarted between two stops, paths of a namespace
that exists only in the supervisor, the launch of a program by three parties, and
a file layout on disk that several sessions change and any may abandon half-way.

Paths below are relative to the repository.

## 1. Inventory

| part | state | operations | interacts with | what makes it correct |
|---|---|---|---|---|
| lifecycle (`src/core/lifecycle.*`) | one state under a mutex | `transition`, waits | session | only the diagram's edges; terminal states stay |
| session (`src/core/session.*`) | `sm_`, `result_`, `inst_`, `cancel_requested_`, waiter and watchdog threads | `start`, `cancel`, `wait`, destructor | client threads, engine | an outcome means the guest is gone; cancel and timeout end it; calls return |
| engine interface (`src/core/engine.hpp`) | started / done, first cancel reason | `start`, `wait`, `cancel` | session, supervisor | `wait` returns only when the whole tree is gone |
| supervisor, process tree (`src/engines/rootless/supervisor.cpp`) | `tracees_`, `known_`, `exited_`, `main_exited_`, `cancel_reason_` | launch, fork/exec/exit events, `cancel`, `finish` | kernel (ptrace, waitpid), cancelling threads | nobody survives a cancel; no stranger is signalled; the loop ends |
| supervisor, process state (`supervisor.cpp`, `syscall_handlers.cpp`) | `creds_`, `exe_of_`, `guest_filtered_` | get/set*id, fork event, exec, exit | guest processes | the kernel's rules; nothing stale when an id is used again |
| hard links (`link_store.cpp`, link/unlink/rename handlers) | store directory, records, symlinks, flock | `link_new`, `link_existing`, `unlink_name`, `release`, `name_moved` | kernel renames, other sessions | names, files and counts as with real hard links |
| syscall stops and handlers (`supervisor.cpp` 777-1377, `syscall_handlers.cpp`, `seccomp_filter.cpp`) | `in_syscall`, `pending`, `exec_seen`, `load_request`, stand-in files | entry, exit, seccomp event, host trap, restart, clone and exec events; what each handler rewrites, refuses, answers, fixes up | guest tasks, kernel | entry and exit never confused; each call carried out or answered exactly once; registers given back |
| paths (`src/vfs`, `translate_path`) | mount table, directory cache | `resolve`, `to_host`, `to_guest`, path calls | every path handler, the kernel's own lookup | the object a kernel in the guest's namespace would find; nothing outside changes |
| engine choice (`engine_select.cpp`, `rootless_engine.cpp`) | the probe's report | `select_engine`, `compute`, `create_instance` | session, host | never a mode the host cannot carry |
| exec (`exec_resolver.cpp`, `elf.c`) | a plan, a load request | PATH, `#!` chains, ELF checks, argument vectors | supervisor, loader | the program and arguments execve(2) would have used |
| bootstrap and loader (`bootstrap.c`, `loader/loader.c`) | descriptors, pipes, memory | the stages of the child, segments | supervisor | the image as linked; the right descriptors; failures come back |
| pseudo-terminal (`vdr/drivers.cpp`) | master, pump thread, stop event | pump, drain, input | engine, client callback | output is complete; no callback after stop |
| command (`src/cli/cli_run.cpp`) | raw terminal, input pump, signal relay | `run_command` | session, pseudo-terminal, person | terminal restored; interrupts once; returns |
| C API (`src/capi/capi.cpp`) | handles | argument checks, the calls above | clients | destroy is the last call |
| configuration, reports, arguments, probes, tables | none that outlives a call | validation, formatting | | pure functions and I/O |

What is hard here: `cancel`, a timeout, the guest's own exit and the destructor
race; SIGKILL may take a task at any stop, so an event can be lost; `waitpid`
reports stops and exits of different tasks in any order; process ids are used
again; what a handler reads at a call's entry is used at its exit; sessions share
a store on disk and die in the middle of a change. `PROJECT.json` lists these
hazards line by line.

## 2. Modules

    StateMachine --> Lifecycle (abstract)             GuestTasks (kernel)   KernelCreds (kernel)
         \              ^ implements                        |                    |
          Session ------+                              Supervisor           ProcessState      LinkStore
         /                                                  |
    EngineInstance (abstract)  <----- implements -----------+

    GuestCall (abstract) <--- implements --- SyscallStops        Resolver ---> PathResolver      Terminal

    ExecPlan ---> Loader ---> Launch

* **StateMachine** - `lifecycle.cpp`: the states, `can_transition`, `transition`.
* **Lifecycle** - abstract: the diagram at the head of `lifecycle.hpp`, plus what
  must have been asked before "cancelled".
* **EngineInstance** - abstract: what a session relies on (`engine.hpp`). Session
  is built on it; Supervisor is shown to implement it. That is how the two compose.
* **Session** - one `pc` per client thread, and the waiter, the watchdog and the
  destructor. A step is the code between two points where another thread may
  intervene: one section of `mu_`, one access to `sm_` or `cancel_requested_`, one
  engine call. `StartThreads` includes the case that a thread cannot be created,
  in which `start` waits for the guest itself.
* **GuestTasks** - external: tasks, groups, stops, SIGKILL and waitpid as ptrace(2)
  describes them. Ids are free after their exit was collected and are used again,
  but not while an unreported event still names the old user.
* **Supervisor** - launch, `handle_stop` for initial, fork and exec stops,
  `handle_exit` (a step of its own after waitpid collected the exit: that window is
  where ids can be reused), `get_or_add`, `cancel` in two steps (the reason, then
  the section of `known_mu_` that kills), `finish`. System-call and signal stops do
  not touch this state and are left out.
* **KernelCreds** - external: the kernel's rules for set*id.
* **ProcessState** - the three per-process tables next to what the kernel's rules
  give the same process. `LateEvents` lets a child run before its fork event is
  handled. `astray` marks a process (and its children) that ran before its event
  was handled, lost it, had a saved id to drop at an exec, or was given -1 as its ids
  (`StoresNoId`); such a process is no longer compared.
* **LinkStore** - one mount's store; per session one supervisor call at a time, one
  change of the disk per step, and one rename or unlink of the guest inside the
  kernel. `truth` is the reference: the file each name would have with real hard
  links. `left` and `hurt` mark what a death or an ignored failure damaged.
  Any call may come at any time, on any names. `tangled` records that two calls in
  progress named one path (`Meets`), or that a name changed between `release`'s look at
  it and its rename over it (`Pinned`, `Disturbs`): from there on the code does not keep
  its promises (section 5, number 7), and the properties say so.

* **GuestCall** - abstract: what a guest thread is promised about one system call.
* **SyscallStops** - the stops of one process with several threads. The kernel half
  (where a thread stands, its registers, which filter sees which number) is external;
  the supervisor half is the tracee record. `dispatch` gives for every kind of call the
  set of things its handler may do at the entry: rewrite arguments, refuse, answer, ask
  for a fixup. How a path lookup comes out is left open here and modelled in
  PathResolver. Under a host policy (Android) calls trap, are answered or are restarted
  as newer ones (`restart_legacy`). `args` are the registers rewritten through
  `rewrite_arg` and not yet given back, `lost` the ones changed past it: the flags of
  `clone`, and what `restarted_args` says a restart gives the substitute call.
* **Resolver** - the mount table and `resolve` with its directory cache and /proc links,
  as functions of what the host answers: `lstat` and `read_link` are parameters. A target
  may be empty, relative or absolute, hold "." and end in a slash; in a proc mount it is
  the guest's own process or thread, a relative link, a host path to map back, or an
  object without a path. The loop is a recursive function over its rounds.
* **PathResolver** - a host file system as a graph of inodes that the guest changes with
  mkdir, rmdir, symlink, unlink, rename and chdir; it instantiates Resolver with that
  host's answers and adds `translate_path` and read-only mounts. The reference is
  `KernelWalk`, which walks inodes in the guest's namespace and knows no host path.
* **ExecPlan** - one round of `plan`'s loop, `search_path`, `parse_shebang`, the ELF
  checks and `make_load_request` as functions of a set of files; words and paths are
  sequences of names, and a carriage return is part of the word it ends. **Loader** - what one segment does to a memory of pages, and when
  `load_image` gives up. **Launch** composes them: engine choice, `prepare_and_spawn`
  with a step per round of the plan, the child's stages, seize, exec event, load request,
  the loader with a step per segment (it may die at each, as any of its kernel calls may
  fail) or the dynamic loader, errors, cancel and death of the supervisor at every point.
  Opening the file of a round may fail (`PlanFails`) or, for a FIFO, wait.
  What execve(2) would do is stated separately, as a function of the files alone
  (`Through`: one #! line; `Execs`, `Execve`: up to the limit of them): the arguments as
  Linux has them, next to them the arguments without the carriage returns that end an
  option, and whether there was one.
* **Terminal** - `phdp run` around a session: `run_command`, input pump, signal relay,
  output pump with `finish_pump`, waiter and watchdog, `mu_` held across the blocking
  write. Sessions without a pseudo-terminal share the caller's terminal. With one, the
  command's input may be no terminal, and the guest may close the slave and open it again
  (`attached`); `late` counts what it writes after the pump has ended.

`PROJECT.json` ("map") gives the lines each definition stands for.

## 3. Runs

| run | bounds | shows |
|---|---|---|
| `session` | two clients, a timeout | outcomes fit and are final, the diagram is implemented; cancel, timeout and all calls end |
| `session_cancel_race` | one configuration | **violated**: a cancel that read "created" before `start` left it makes `wait` succeed while the guest is launched |
| `supervisor` | three ids that are reused, threads, two cancel reasons | nobody survives, `known_` names our processes, the engine interface is implemented |
| `supervisor_live` | two ids | the tree ends after a cancel or the main exit |
| `process_state` | two processes, the child's id reused, one call of each shape, -1 too | tables agree with the kernel where events are timely; only a late event restores a dropped root |
| `links` | two sessions, three names (one not recordable), two files, two ids, two faults | names, files, counts and the absence of leftovers, through failures and deaths at every step, until two calls meet at a path |
| `links_undo` | two sessions, one fault | **violated**: undoing a refused link can remove the file itself |
| `syscalls` | a leader making every kind of call, a second thread with `openat` and `execve`, nine kinds of sessions | stops told apart, rewritten registers given back, stand-ins removed, load requests fit, every call served exactly once (refinement of GuestCall) |
| `paths` | two directories, one of six symlinks at a time, two names, a read-only bind, /proc | lookups, with and without the cache, from the root, the working directory or a descriptor, agree with the kernel's walk (but for cache entries behind a link the host reads otherwise); EROFS comes exactly on the read-only mounts; nothing outside or read-only changes |
| `launch` | 25 commands over 25 files, both loaders; five overlaps of descriptors; 96 hosts with every seccomp mode | the right program, arguments, descriptors, memory and confinement, or a reported failure that leaves nothing |
| `terminal` | two units of output, two keys, one signal, buffers of one, a guest that closes and reopens its terminal | output complete while the pump lives, terminal restored, interrupts at most once, the command returns |
| `terminal_timeout` | two keys, input buffer of one | **violated**: a guest that does not read blocks `write_input`, which blocks the watchdog |

Why the bounds are enough. Two clients give every race between `start`, `cancel`
and `wait`; a third repeats one of the roles, and the theorems hold for any number.
Three task ids are a main process, a child, and a grandchild, a second thread or a
reused id. In `process_state` a second pid is enough for a parent and a child and
for reuse. For links, three names are two links and a third name to link, rename
over or exchange with; two ids let a rename replace a link of another file. In
`syscalls` the second thread makes the two calls that interact with another thread's
(an exec that replaces it, an open with a stand-in it is killed in); options that only
matter together are varied together (`MCOptions`). In `paths` two directories and a
link give every shape in which a cached directory moves below, away from or behind
another; the walk's limits are scaled to `MaxSymlinks` and `MaxEntries`, and
`MaxRounds` is above what `LookupsEnd` says a lookup there can take (at most four
components, a slash, and three targets of at most three names). The six links are: to a
sibling, absolute and relative; up over the root and down; to the read-only bind, with a
slash; to the *host* path of a guest directory, which the guest must not read so; to a
file with a slash behind it. In `launch`
memory has nine pages of two units, so that a .bss starts inside a page and there are
files whose segments share one: with the second mapped from the same place of the file,
from another, and copied. The `#!` limit keeps its value. In `terminal` buffers of one unit are full
as soon as anything is in them. The
state constraint `NotTangled` of the link runs only cuts off what comes after a state in
which the properties claim nothing any more. The largest runs are `terminal` (1.2 million
states, two and a half minutes) and `syscalls` (1.1 million). Named bounds are `kFaults` (deaths and ignored write failures) and
`kMaxExited`, which the code sets to 4096 and which the runs keep above the number
of ids: at the limit `exited_` is cleared and a later fork event can re-add a dead
child (listed as a hazard, not covered).

Deadlock is checked where the system must go on; in `process_state` and `links` no
call need come, so idle states without a successor are allowed.

Fairness (Session, Supervisor): every thread that can take a step is scheduled; the
watchdog's timer elapses; a launch completes one way or the other; a task with
SIGKILL pending dies and its exit is reported. A guest nobody cancels may run
forever, and no client need call anything. Terminal: every thread of the command and
the library runs, an output callback returns, two seconds pass in `finish_pump`; the
guest need not read, write or exit, and nobody need type. The timeout itself need not
be configured.

`CancelTerminates` and `TimeoutTerminates` hold of Session, which has no `write_input`;
with it they do not (`terminal_timeout`).

## 4. Proofs

Each component's theorems are in a module of their own, `<Component>Proofs`, that
extends the component's module. All have the same shape: an inductive invariant `Inv`
(theorem `Invariant`, from `InitInv`/`InvInit` and one lemma per step or per part of the
invariant), and one theorem per property that follows from it.

* **SessionProofs**, for any set of clients. The invariant `Inv` adds to the types
  who can be where: at most one thread is inside `start` (`OneStarter`), what state
  and engine look like at each of its points (`StarterInv`, `EngineInv`), what the
  absence of a starter means (`NoStarterInv`), and what the waiter, a cancel and the
  destructor imply. It is needed because, for instance, "exited means gone" is not
  preserved by the waiter's transition unless the engine is known to be done at that
  point. `OutcomeInv` goes on from there: which reasons can be recorded before the
  session ended, that a recorded timeout came from the watchdog, and that `result_` is
  written before anyone can read it. Theorems: `TypeCorrect`, `EndedIsGone`,
  `DestroyIsLast`, `FinalOutcome`, `ReportsAreRight`, and the refinement
  `LifecycleRefinement`.
* **SupervisorProofs**, for any set of ids. `Inv` says that groups and leaders fit
  (`GroupInv`, `ExecInv`), that a process at its initial stop has no second thread
  (`FreshInv`), what exists during a launch (`LaunchInv`), that every live task is
  known or still stands at its first stop (`SeenInv`), and which ids pending events
  name (`ReuseInv`). The central step is that a cancel's kill reaches every known
  task and `get_or_add` every later one. Theorems: `TypeCorrect`, `NobodySurvives`,
  `VerdictIsLast`; `EngineRefinement`, that the supervisor is the engine instance
  Session is built on; and `KnownIsOurs`, which has a hypothesis the code does not
  give: `exited_` has not been emptied at its limit of 4096 (`Roomy`). Without it the
  property is false, which is the uncovered hazard at `supervisor.cpp:751`.
* **ProcessStateProofs**, for any ids and processes. `EmulationIsKernels`: each set*id
  handler gives the ids the kernel would, for every argument but one: -1 given by root to
  `setuid` or `setgid`, which the kernel refuses and the handler stores; the theorem says
  that, too. The invariant adds what
  a pending fork event implies (`ForkInv`). Theorems: `TypeCorrect`, `NothingStale`,
  `TimelyIsKernels`, `DroppedIsFinal`.
* **SyscallStopsProofs**, for any threads, calls and options. The invariant ties every
  field of a tracee's record to the place where the thread stands in the kernel:
  `ModeInv` (how it was resumed), `InsysInv` (`in_syscall`, where the kernel does not
  tell), `ArgsInv` (only registers recorded in `pending` are rewritten, and which ones a
  clone or a restart has changed past it), `FilesInv`,
  `ExecInv` (whose load request), `ServedInv` (how far the call has been served). What a
  handler may decide enters through one lemma, `Outcomes`. Theorems: `TypeCorrect`,
  `StopsAreToldApart`, `RegistersAreGuests`, `StandInsAreRemoved`, `RequestsFit`, and
  `CallsRefine`: the stops implement GuestCall.
* **TerminalProofs**, for any amount of output and input and any buffers. Two accounts
  carry it: what the guest wrote is delivered, in the pump's hands or in the terminal
  (`FlowInv`), and an interrupt is in at most one of the places it can wait in
  (`CreditInv`); `PumpInv`, `PhaseInv` and `JoinInv` say who has ended before whom, and
  `PumpInv` that what the pump leaves in the terminal was written after it had ended.
  Theorems: `AllOutputDelivered`, `CallerIsRestored`, `InterruptsNotDoubled`.
* **LinkStoreProofs**, for any sessions, files and ids, any finite set of names, and any
  number of deaths and ignored failures. There is no hypothesis on when calls come or what
  they name; every part of the invariant, like the properties, has the form
  `~tangled => ...`, because once calls have met at a path the code does break them
  (section 5, number 7, and the hazard at `link_store.cpp:422`). The invariant has three layers. First, what
  each call still finds of what it read: the lock (`LockInv`), its names (`BusyInv`,
  `ShapeInv`), a drawn id that nobody else knows (`OwnInv`, `NewInv`), links whose id was
  read earlier (`SeenInv`, `KernelInv`), files in one place each (`PlaceInv`). Then
  `CountInv`: a record's count is the number of names that *hold* the object (`Held`),
  where a name holds it from the step that counts it until `release` has taken it off,
  also while it is no link any more, and does not hold it while another session has
  made the link but not counted it. Neither `CountsCurrent` nor `NamesKept` is inductive
  without it: `release` destroys the object, or moves the file away from it, because of
  a number in a file, and only `Held` says that nobody else is left then (`LastName`,
  `LastTwo`). Last, what the names show and what may be left behind (`TruthInv`,
  `TraceInv`). `StepDoes` turns every action into its effect field by field
  (`DoesNewMove`, ...), and each part of the invariant has one lemma over these effects.
  Theorems: `TypeCorrect`, `NamesAreKept`, `FilesAreReachable`, `CountsAreCurrent`,
  `NoTraceIsLeft`. TLC checked `Inv` itself on the constants of `links` before it was
  proved.
* **LaunchProofs**, for any requests, hosts, files and links, any page size and address
  space. `Inv` says where the supervisor and the child can stand at the same time and
  what is reported by then (`ControlInv`), that the child's message is written once and
  carried into the report (`MessageInv`), that nothing passes the sync pipe untraced
  (`TracedInv`), and which descriptors, privileges and filter belong to each place
  (`ConfinedInv`, `HostInv`). `OutcomeReported` is not inductive alone: that a failed
  start leaves no process depends on where the child can be when each side gives up.
  `RoundInv` compares `plan` with execve(2): after k rounds of the loop it has in hand
  the file and the arguments of `Execs` at k. `Parsed` shows that `parse_shebang` finds
  the words execve(2) would; `RoundOf` and `OneRound` that a round goes on as `Through`
  does, or ends in a plan that runs the file it is at; `Settled` that nothing comes after
  the first file that is no script. From there the plan, the load request and the
  arguments on the stack stay what is owed (`PlanInv`, `HandedInv`, `ArgvInv`), and
  `LdSoRuns` undoes the dynamic loader's command line. `ExecsAre` (the recursive function
  exists) and `Settled` are inductions over numbers; the library's induction theorems
  cannot be instantiated, so they go by the least number outside a set (`LeastExists`,
  `UpTo`), which can.
  `RequestInv` says a load request names a dynamic loader only for a program that has
  PT_INTERP. `ImageInv` follows the loader: the first `seg - 1` segments hold what they
  were linked to hold, but for the bytes a later one of them has replaced (`Spoils`), and
  the dynamic loader's span is apart from the program because it
  was free. Its lemmas are arithmetic of pages (`TruncPage`, `RoundPage`, `PageShift`),
  what `map_segment` writes (`SegmentMapped`) and what it leaves (`SegmentFrame`).
  Theorems: `OutcomesAreReported`, `GuestsAreConfined` (the second half of
  `StartsAsExecve`), `GuestsStartAsExecve` (all of it), `ImagesAreAsLinked`. None has a hypothesis on the
  files; what the code does to segments that share a page and to a carriage return
  (section 5, numbers 8 and 13) stands in the properties. TLC checked `Inv`
  and `ImageInv` on the constants of `launch` before they were proved.

* **ResolverProofs**, for any mount table with a root, any path and any answers of the
  host. `Host` only says which kinds the answers have: directories are no links, a failed
  `lstat` finds nothing, targets are paths. `RoundDoes` gives the outcomes of a round of
  the loop field by field; three loop invariants follow from it by `UpTo`: `InLoop` (what
  was walked so far is a path of plain names, a failure ends the loop), `OnWay` (every
  parent of it is a directory, and the flags say what the host has there) and a measure
  that each round spends, `Fuel` (components pending and names of targets that may still
  come). `OnWay` starts from a cache that is `Honest`: the parents of its entries are
  directories, as they were when the entries were made. `resolve` preserves that but
  compares only an entry's own inode before it uses it, so a change of the host can end
  it (section 5, number 9); `NoLinkOnTheWay` has it as its hypothesis.
  `CacheMisleadsBehindLinksOnly` has none: whatever the cache holds, a lookup answers as
  one without it, or a name above the directory it begins at is no directory. For it
  `ComponentsAre` and `OnwardIs` say what a target puts before the loop, `RoundWith` shows that no round reads the cache, `Along`
  that the loop from the root passes the cached directory in the state in which the
  cache would start it, and `LookupsEnd`'s measure that both have ended by `MaxRounds`.
  Theorems: `ResolvesInside`, `NoLinkOnTheWay`, `LookupsEnd`,
  `CacheMisleadsBehindLinksOnly`.

Assumptions are the named ASSUMEs of the modules: what the constants are, nothing
about behaviour. The hypotheses of `KnownIsOurs`, of LinkStoreProofs (finitely many
names) and of ResolverProofs stand in the theorems themselves; PathResolver's host
satisfies `Host` in every state.

Only model-checked:

* everything with fairness: `CancelTerminates`, `TimeoutTerminates`, `CallsReturn`,
  `TreeEnds`, `RunReturns` (liveness is out of the prover's reach);
* PathResolver's `LookupsMatch`, `CacheTransparent` and `Contained`. The reference is a
  RECURSIVE walk of inodes, and that it agrees with `resolve` is an induction over the
  path and over the tree. `CacheTransparent` exempts the lookups that section 5, number 9
  is about; that a cache can mislead nowhere else is `CacheMisleadsBehindLinksOnly`.

## 5. What disagrees with the code's own words

With a run that shows it:

1. `cancel` and `start` race on "created" (`session.cpp:277`); `vhdp.h:292`. Run
   `session_cancel_race`.
2. `link_existing`'s undo can remove the file that another session has just moved
   back to that name (`link_store.cpp:353`); `link_store.hpp:23`. Run `links_undo`.
3. `write_input` holds `mu_` while it writes to the blocking master, so a guest that
   does not read keeps the watchdog and `cancel` from killing it (`session.cpp:267`);
   `vhdp.h:128`. Run `terminal_timeout`.

Met while modelling; the passing runs state what does hold next to each:

4. `known_` keeps the id a thread had when SIGKILL swallows its exec event
   (`supervisor.cpp:847`; comment at 290). `KnownProcessIsOurs` is about ids that named
   a process.
5. A late fork event gives a child its parent's credentials back (`supervisor.cpp:152`;
   `supervisor.hpp:91`). `DroppedUntilLateEvent` allows exactly that.
6. exec does not copy the effective to the saved id (`supervisor.cpp:842`);
   `TimelyStateIsKernels` stops comparing such a process.
7. An unlink or rename decided at entry misses a link made before the kernel acts
   (`syscall_handlers.cpp:1477`, `1499`; `link_store.hpp:18`). Every link property holds
   until two calls have met at a path (`tangled`); without that, TLC finds
   `CountsCurrent` violated.
8. A copied segment replaces the end of the one before when they share a page
   (`loader.c:274`; "slower but correct", 234). The run has such a file ("shared"), and
   `ImageAsLinked` excepts the bytes it destroys and no others. The same goes for a PT_PHDR
   that names no place of the headers ("misnamed"): it is passed on unchecked.
9. A directory cache entry survives when a component above it is replaced by a symlink
   that leads the host, but not the guest, to the same directory (`resolver.cpp:162`;
   `resolver.hpp:27`). The run has such a link (K5); `CacheTransparent` excepts the
   lookups behind it (`Misled`), and without the exception TLC finds it violated.
10. The child of a supervisor that died before the seize waits for good: it holds a
    write end of its own sync pipe (`bootstrap.c:111`).
11. A bootstrap stage that fails before the seize is reported as ptrace being denied
    (`supervisor.cpp:634`).
12. A working directory that does not exist ends `phdp run` with 127
    (`supervisor.cpp:396`, `engine_select.cpp:17`); `docs/TROUBLESHOOTING.md:31` keeps
    127 for commands and loaders.
13. The carriage return that ends the option of a `#!` line saved with CRLF is dropped
    (`exec_resolver.cpp:72`), where Linux trims blanks and tabs only; `exec_resolver.hpp:72`
    says "Linux semantics". One that ends the interpreter's name is kept, as on Linux.
    `StartsAsExecve` asks for the arguments without it there, for Linux's everywhere else.
14. `plan` opens the file before it looks whether it is a regular one
    (`exec_resolver.cpp:199`, `207`): an executable FIFO keeps the supervisor waiting for a
    writer, where execve(2) answers EACCES. Launch lets such a start wait (`waits`).
15. Argument registers that are changed past `rewrite_arg` are not given back: clone's
    flags (`syscall_handlers.cpp:1849`; "Rewritten arguments are restored at syscall exit", 8) and those of a call
    restarted as another (`supervisor.cpp:1161`). The comment there (1153) speaks of
    registers "the original call did not use", but `open` as `openat` changes the ones it
    used. `GuestOwnsRegisters` allows these and no others.
16. `setuid(-1)` and `setgid(-1)` of an emulated root are carried out
    (`syscall_handlers.cpp:600`), where the kernel answers EINVAL; `EmulationIsKernels`.
17. `components` drops a "." at the end of a path (`guest_path.cpp:21`), so "file/." is
    found where a kernel says ENOTDIR; and a slash behind a /proc link to a pipe or socket
    is ignored (`resolver.cpp:279`). `LookupsMatch` allows both.
18. When a guest closes its last descriptor of the pseudo-terminal the pump ends for good
    (`drivers.cpp:226`); what the guest writes after it has opened the terminal again is
    not delivered. `OutputDelivered` counts it apart.

## 6. Not modelled

`resize` (it forwards under a lock) and the race of `pty_` between `start` and a
concurrent `cancel` or `resize`; the waitpid error other than EINTR and ECHILD,
exceptions out of the engine's `wait` and out of thread constructors in the command;
for links, directory renames, ordinary symlinks, a store whose lock file cannot be
opened, a failing undo, and the in-memory inode map. For calls, the contents of stat
buffers, directory records, socket addresses and xattrs; a session with `--trace`, whose
filter allows nothing. For paths, length limits and a change between a translation and
the kernel's lookup (the residual risk `resolver.hpp` documents). In the loader, page
protections and the auxiliary vector beyond the program headers and the entry.

`configure` and the recovery script of `dpkg_recovery.cpp` change a rootfs, outside any
session, in single steps whose order nothing depends on. Tracee memory, platform probes,
configuration, context and events, reports, JSON and argument parsing are I/O, pure
functions or formatting. `PROJECT.json` has the reason for each component.

## 7. Plan

1. LinkStore: `UndoRemovesNoFile` for a session whose new name nobody moves a file back
   to, which is what finding 2 leaves of it.
2. PathResolver: `LookupsMatch` with an empty cache, from `NoLinkOnTheWay` and an
   invariant that directories form a tree.
3. Handles and events of the C API.
