---------------------------- MODULE ProcessState ----------------------------
(***************************************************************************)
(* What the supervisor remembers per guest process: the emulated           *)
(* credentials (creds_), the program (exe_of_) and whether it installed a  *)
(* seccomp filter of its own (guest_filtered_).  A child gets them from    *)
(* its parent when the fork event is handled (inherit_process_state),      *)
(* which may be after the child's first own system calls; a process        *)
(* without credentials gets the session's identity (creds_of).             *)
(*                                                                         *)
(* Beside each table stands what the kernel's rules give the process.      *)
(***************************************************************************)
EXTENDS KernelCreds

CONSTANTS
  Pid,         \* thread groups
  Main,        \* the initial process
  Uid, Gid,    \* ids a guest uses
  UidCalls, GidCalls,      \* the id-changing calls they make with them
  SessionUid, SessionGid,  \* --uid, --gid
  Program,     \* guest programs
  Shell,       \* the program the session starts
  LateEvents   \* a child may run before its parent's event is handled

(* The calls that change one kind of ids.                                  *)
IdCall(S) ==
  [call : {"setid", "setfsid"}, x : S \cup {Keep}]
    \cup [call : {"setreid"}, r : S \cup {Keep}, e : S \cup {Keep}]
    \cup [call : {"setresid"}, r : S \cup {Keep}, e : S \cup {Keep}, s : S \cup {Keep}]

ASSUME ProcessAssumption ==
  /\ Main \in Pid
  /\ 0 \in Uid /\ SessionUid \in Uid /\ SessionGid \in Gid
  /\ Keep \notin Uid /\ Keep \notin Gid
  /\ UidCalls \subseteq IdCall(Uid) /\ GidCalls \subseteq IdCall(Gid)
  /\ Shell \in Program
  /\ LateEvents \in BOOLEAN

VARIABLES
  alive,       \* live processes
  forking,     \* forking[p]: the children whose fork event p still stands at
  creds,       \* creds_: a function on the processes that have an entry
  exe,         \* exe_of_
  filtered,    \* guest_filtered_
  kernel,      \* the credentials, program and filter the kernel's rules give
  astray       \* processes that ran before their fork event was handled or
               \* lost it, had a saved id to drop at an exec, or as root made
               \* setuid(-1) or setgid(-1); and children

vars == <<alive, forking, creds, exe, filtered, kernel, astray>>

Ids(S) == [r : S, e : S, s : S, f : S]

CredsOf(U, G) == [u : Ids(U), g : Ids(G), groups : SUBSET Gid]

(* The credentials here, in which -1 can end up, and the kernel's.         *)
Creds == CredsOf(Uid \cup {Keep}, Gid \cup {Keep})

KCreds == CredsOf(Uid, Gid)

All(x) == [r |-> x, e |-> x, s |-> x, f |-> x]

(* The values of the supervisor's tables and of the reference's.            *)
Types ==
  /\ alive \subseteq Pid
  /\ forking \in [Pid -> SUBSET Pid]
  /\ DOMAIN creds \subseteq Pid /\ creds \in [DOMAIN creds -> Creds]
  /\ DOMAIN exe \subseteq Pid /\ exe \in [DOMAIN exe -> Program]
  /\ filtered \subseteq Pid
  /\ kernel \in [Pid -> [creds : KCreds, exe : Program, filtered : BOOLEAN]]
  /\ astray \subseteq Pid

(* The identity creds_of() gives a process it does not know.               *)
Default == [u |-> All(SessionUid), g |-> All(SessionGid), groups |-> {SessionGid}]

Fresh == [creds |-> Default, exe |-> Shell, filtered |-> FALSE]

Init ==
  /\ alive = {Main}
  /\ forking = [p \in Pid |-> {}]
  /\ creds = [p \in {} |-> Default]
  /\ exe = [p \in {Main} |-> Shell]
  /\ filtered = {}
  /\ kernel = [p \in Pid |-> Fresh]
  /\ astray = {}

-----------------------------------------------------------------------------
With(f, p, v) == [q \in DOMAIN f \cup {p} |-> IF q = p THEN v ELSE f[q]]

Without(f, p) == [q \in DOMAIN f \ {p} |-> f[q]]

(* creds_of(p).                                                            *)
creds_of(p) == IF p \in DOMAIN creds THEN creds[p] ELSE Default

Untimely(q) == \E p \in Pid : q \in forking[p]

(* Type correctness of the tables; the ids of a process that is compared   *)
(* with the kernel's are ids: "unchanged" (-1) is never stored as one.     *)
TypeOK ==
  /\ Types
  /\ \A p \in alive \ astray : ~Untimely(p) => creds_of(p) \in KCreds

(* p makes a system call: it is not at a fork event.                       *)
Runs(p) ==
  /\ p \in alive /\ forking[p] = {}
  /\ LateEvents \/ ~Untimely(p)

(* The reference after a step that makes it f.                             *)
Followed(f) ==
  [p \in Pid |-> IF p \in astray' THEN Fresh ELSE f[p]]

NowAstray(p) == IF Untimely(p) THEN astray \cup {p} ELSE astray

-----------------------------------------------------------------------------
(* handle_identity: setuid/setgid.                                         *)
setid(c, priv, x) ==
  IF priv THEN All(x)
  ELSE IF x = c.r \/ x = c.s THEN [r |-> c.r, e |-> x, s |-> c.s, f |-> x]
  ELSE c

(* Mutant: -1 is stored like any other id.                                 *)
SetreidNoKeep(c, priv, r, e) ==
  IF priv THEN [r |-> r, e |-> e, s |-> e, f |-> e] ELSE c

(* setreuid/setregid.                                                      *)
setreid(c, priv, r, e) ==
  LET refused == /\ ~priv
                 /\ \/ r # Keep /\ r # c.r /\ r # c.e
                    \/ e # Keep /\ e \notin {c.r, c.e, c.s}
      rr == IF r # Keep THEN r ELSE c.r
      ee == IF e # Keep THEN e ELSE c.e
      ss == IF r # Keep \/ (e # Keep /\ e # c.r) THEN ee ELSE c.s
  IN IF refused THEN c ELSE [r |-> rr, e |-> ee, s |-> ss, f |-> ee]

(* Mutant: anybody may set any id.                                         *)
SetresidUnchecked(c, priv, r, e, s) ==
  [r |-> IF r # Keep THEN r ELSE c.r, e |-> IF e # Keep THEN e ELSE c.e,
   s |-> IF s # Keep THEN s ELSE c.s, f |-> IF e # Keep THEN e ELSE c.e]

(* setresuid/setresgid.                                                    *)
setresid(c, priv, r, e, s) ==
  LET refused == ~priv /\ \E x \in {r, e, s} : x # Keep /\ x \notin {c.r, c.e, c.s}
      ee == IF e # Keep THEN e ELSE c.e
  IN IF refused THEN c
     ELSE [r |-> IF r # Keep THEN r ELSE c.r, e |-> ee,
           s |-> IF s # Keep THEN s ELSE c.s, f |-> ee]

(* setfsuid/setfsgid.                                                      *)
setfsid(c, priv, x) ==
  LET ok == x \in {c.r, c.e, c.s} \/ x = c.f
  IN IF x # Keep /\ (priv \/ ok) THEN [c EXCEPT !.f = x] ELSE c

(* What a call does to one kind of ids here, and by the kernel's rules.     *)
Emulated(c, priv, k) ==
  CASE k.call = "setid"    -> setid(c, priv, k.x)
    [] k.call = "setfsid"  -> setfsid(c, priv, k.x)
    [] k.call = "setreid"  -> setreid(c, priv, k.r, k.e)
    [] k.call = "setresid" -> setresid(c, priv, k.r, k.e, k.s)

Kernel(c, priv, k) ==
  CASE k.call = "setid"    -> KernelSetid(c, priv, k.x)
    [] k.call = "setfsid"  -> KernelSetfsid(c, priv, k.x)
    [] k.call = "setreid"  -> KernelSetreid(c, priv, k.r, k.e)
    [] k.call = "setresid" -> KernelSetresid(c, priv, k.r, k.e, k.s)

Priv(c) == c.u.e = 0

(* The getters only make creds_of() create the entry.                      *)
GetIds(p) ==
  /\ Runs(p)
  /\ creds' = With(creds, p, creds_of(p))
  /\ astray' = NowAstray(p)
  /\ kernel' = Followed(kernel)
  /\ UNCHANGED <<alive, forking, exe, filtered>>

(* A privileged setuid(-1) or setgid(-1): handle_identity stores -1 as the *)
(* four ids, where the kernel answers EINVAL.                              *)
StoresNoId(p, k) == k.call = "setid" /\ k.x = Keep /\ Priv(creds_of(p))

NowAstrayBy(p, k) == IF StoresNoId(p, k) THEN astray \cup {p} ELSE NowAstray(p)

SetUids(p) ==
  /\ Runs(p)
  /\ \E k \in UidCalls :
       /\ astray' = NowAstrayBy(p, k)
       /\ creds' = With(creds, p, [creds_of(p) EXCEPT
                      !.u = Emulated(creds_of(p).u, Priv(creds_of(p)), k)])
       /\ kernel' = Followed([kernel EXCEPT ![p].creds.u = Kernel(@, Priv(kernel[p].creds), k)])
  /\ UNCHANGED <<alive, forking, exe, filtered>>

SetGids(p) ==
  /\ Runs(p)
  /\ \E k \in GidCalls :
       /\ astray' = NowAstrayBy(p, k)
       /\ creds' = With(creds, p, [creds_of(p) EXCEPT
                      !.g = Emulated(creds_of(p).g, Priv(creds_of(p)), k)])
       /\ kernel' = Followed([kernel EXCEPT ![p].creds.g = Kernel(@, Priv(kernel[p].creds), k)])
  /\ UNCHANGED <<alive, forking, exe, filtered>>

SetGroups(p) ==
  /\ Runs(p)
  /\ astray' = NowAstray(p)
  /\ \E list \in SUBSET Gid :
       /\ creds' = With(creds, p,
            IF Priv(creds_of(p)) THEN [creds_of(p) EXCEPT !.groups = list] ELSE creds_of(p))
       /\ kernel' = Followed([kernel EXCEPT ![p].creds.groups =
                                 IF Priv(kernel[p].creds) THEN list ELSE @])
  /\ UNCHANGED <<alive, forking, exe, filtered>>

(* seccomp/prctl that installs a filter: noted by dispatch() at the call's *)
(* entry, before the kernel accepts or refuses it.                         *)
InstallFilter(p) ==
  /\ Runs(p)
  /\ filtered' = filtered \cup {p}
  /\ astray' = NowAstray(p)
  /\ \E accepted \in BOOLEAN :
       kernel' = Followed([kernel EXCEPT ![p].filtered = @ \/ accepted])
  /\ UNCHANGED <<alive, forking, creds, exe>>

(* execve in loader mode: the exec event records the program               *)
(* (inject_load_request); nothing is done to the credentials.              *)
Exec(p) ==
  LET before == kernel[p].creds
      after  == [before EXCEPT !.u = KernelExec(@), !.g = KernelExec(@)]
  IN /\ Runs(p)
     /\ astray' = NowAstray(p) \cup (IF after = before THEN {} ELSE {p})
     /\ \E prog \in Program :
          /\ exe' = With(exe, p, prog)
          /\ kernel' = Followed([kernel EXCEPT ![p].creds = after, ![p].exe = prog])
     /\ UNCHANGED <<alive, forking, creds, filtered>>

-----------------------------------------------------------------------------
(* The kernel side of a fork: the child exists with its parent's state,    *)
(* and the parent stands at the event.                                     *)
Fork(p, q) ==
  /\ Runs(p)
  /\ q \in Pid \ alive /\ ~Untimely(q)
  /\ alive' = alive \cup {q}
  /\ forking' = [forking EXCEPT ![p] = {q}]
  /\ astray' = IF p \in NowAstray(p) THEN NowAstray(p) \cup {q} ELSE astray \ {q}
  /\ kernel' = Followed([kernel EXCEPT ![q] = kernel[p]])
  /\ UNCHANGED <<creds, exe, filtered>>

(* Mutant: the credentials are not inherited.                              *)
InheritNoCreds(p, q) ==
  /\ exe' = IF p \in DOMAIN exe THEN With(exe, q, exe[p]) ELSE exe
  /\ filtered' = IF p \in filtered THEN filtered \cup {q} ELSE filtered
  /\ UNCHANGED creds

(* The fork event, unless the child is gone: inherit_process_state().      *)
inherit_process_state(p, q) ==
  /\ exe' = IF p \in DOMAIN exe THEN With(exe, q, exe[p]) ELSE exe
  /\ creds' = IF p \in DOMAIN creds THEN With(creds, q, creds[p]) ELSE creds
  /\ filtered' = IF p \in filtered THEN filtered \cup {q} ELSE filtered

(* Mutant: a child that is gone inherits, too.                             *)
ForkEventAlways(p) ==
  \E q \in forking[p] :
    /\ p \in alive
    /\ inherit_process_state(p, q)
    /\ forking' = [forking EXCEPT ![p] = {}]
    /\ UNCHANGED <<alive, kernel, astray>>

ForkEvent(p) ==
  \E q \in forking[p] :
    /\ p \in alive
    /\ IF q \in alive THEN inherit_process_state(p, q)
                      ELSE UNCHANGED <<exe, creds, filtered>>
    /\ forking' = [forking EXCEPT ![p] = {}]
    /\ UNCHANGED <<alive, kernel, astray>>

(* An exit, at any moment: remove_tracee().                                *)
Exit(p) ==
  /\ p \in alive
  /\ alive' = alive \ {p}
  /\ forking' = [forking EXCEPT ![p] = {}]
  /\ exe' = Without(exe, p)
  /\ creds' = Without(creds, p)
  /\ filtered' = filtered \ {p}
  /\ astray' = (astray \cup forking[p]) \ {p}
  /\ kernel' = Followed([kernel EXCEPT ![p] = Fresh])

OwnCall(p) ==
  GetIds(p) \/ SetUids(p) \/ SetGids(p) \/ SetGroups(p) \/ InstallFilter(p) \/ Exec(p)

Next ==
  \E p \in Pid :
    \/ OwnCall(p)
    \/ \E q \in Pid : Fork(p, q)
    \/ ForkEvent(p)
    \/ Exit(p)

Spec == Init /\ [][Next]_vars

-----------------------------------------------------------------------------
(* As long as fork events come in time (and come: SIGKILL can take a       *)
(* parent at the event), no exec drops a saved id and root does not call   *)
(* setuid(-1) or setgid(-1), the supervisor answers what the kernel would: *)
(* credentials and program of every process are inherited, changed and     *)
(* forgotten as the kernel's rules say, over ids that are used again, and  *)
(* no guest filter is missed.                                              *)
TimelyStateIsKernels ==
  \A p \in alive \ astray : ~Untimely(p) =>
    /\ creds_of(p) = kernel[p].creds
    /\ p \in DOMAIN exe /\ exe[p] = kernel[p].exe
    /\ kernel[p].filtered => p \in filtered

(* No entry outlives its process, so an id that is used again never starts *)
(* with a dead process's identity.                                         *)
NoStaleEntry == (DOMAIN creds \cup DOMAIN exe \cup filtered) \subseteq alive

Dropped(c) == 0 \notin {c.u.r, c.u.e, c.u.s}

(* supervisor.hpp, Creds: "a program that drops privileges ... observes    *)
(* the switch and can no longer switch back -- which such programs         *)
(* verify".  A step of which that is true, unless it handles p's late fork *)
(* event.                                                                  *)
DropHolds ==
  \A p \in alive \cap alive' :
    Dropped(creds_of(p)) /\ ~(Untimely(p) /\ ~Untimely(p)') => Dropped(creds_of(p)')

(* What the code guarantees of that: no call of the process, of            *)
(* another process, and no fork, exec or exit restores a root id; only the *)
(* late handling of its own fork event can.                                *)
DroppedUntilLateEvent == [][DropHolds]_vars
=============================================================================
