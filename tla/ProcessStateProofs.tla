------------------------- MODULE ProcessStateProofs -------------------------
(***************************************************************************)
(* Proofs about ProcessState, for any set of processes, ids and programs.  *)
(***************************************************************************)
EXTENDS ProcessState, TLAPS

-----------------------------------------------------------------------------
(* setuid(-1) or setgid(-1).                                               *)
NoId(k) == k.call = "setid" /\ k.x = Keep

(* handle_identity computes what the kernel's rules say, for every ids,    *)
(* privilege and arguments of every call that changes ids, with one        *)
(* exception: where the kernel refuses setuid(-1) and setgid(-1) with      *)
(* EINVAL and changes nothing, a privileged one makes all four ids -1.     *)
THEOREM EmulationIsKernels ==
  ASSUME NEW S, Keep \notin S, NEW c \in Ids(S), NEW priv \in BOOLEAN, NEW k \in IdCall(S)
  PROVE  /\ ~(NoId(k) /\ priv) => Emulated(c, priv, k) = Kernel(c, priv, k)
         /\ NoId(k) /\ priv => Kernel(c, priv, k) = c /\ Emulated(c, priv, k) = All(Keep)
<1> USE DEF Ids, NoId
<1>1. CASE k \in [call : {"setid", "setfsid"}, x : S \cup {Keep}]
  <2>1. CASE k.call = "setid"
    BY <1>1, <2>1 DEF Emulated, Kernel, setid, KernelSetid, All
  <2>2. CASE k.call = "setfsid"
    BY <1>1, <2>2 DEF Emulated, Kernel, setfsid, KernelSetfsid
  <2> QED BY <1>1, <2>1, <2>2
<1>3. CASE k \in [call : {"setreid"}, r : S \cup {Keep}, e : S \cup {Keep}]
  BY <1>3 DEF Emulated, Kernel, setreid, KernelSetreid, Given
<1>4. CASE k \in [call : {"setresid"}, r : S \cup {Keep}, e : S \cup {Keep}, s : S \cup {Keep}]
  BY <1>4 DEF Emulated, Kernel, setresid, KernelSetresid, Given
<1> QED BY <1>1, <1>3, <1>4 DEF IdCall

(* A call's result is made of the ids in play, here and by the kernel.     *)
LEMMA EmulatedType ==
  ASSUME NEW S, NEW c \in Ids(S \cup {Keep}), NEW priv \in BOOLEAN, NEW k \in IdCall(S)
  PROVE  Emulated(c, priv, k) \in Ids(S \cup {Keep})
<1> USE DEF Ids
<1>1. CASE k \in [call : {"setid", "setfsid"}, x : S \cup {Keep}]
  <2>1. CASE k.call = "setid"
    BY <1>1, <2>1 DEF Emulated, setid, All
  <2>2. CASE k.call = "setfsid"
    BY <1>1, <2>2 DEF Emulated, setfsid
  <2> QED BY <1>1, <2>1, <2>2
<1>3. CASE k \in [call : {"setreid"}, r : S \cup {Keep}, e : S \cup {Keep}]
  BY <1>3 DEF Emulated, setreid
<1>4. CASE k \in [call : {"setresid"}, r : S \cup {Keep}, e : S \cup {Keep}, s : S \cup {Keep}]
  BY <1>4 DEF Emulated, setresid
<1> QED BY <1>1, <1>3, <1>4 DEF IdCall

LEMMA KernelType ==
  ASSUME NEW S, Keep \notin S, NEW c \in Ids(S), NEW priv \in BOOLEAN, NEW k \in IdCall(S)
  PROVE  Kernel(c, priv, k) \in Ids(S)
<1> USE DEF Ids
<1>1. CASE k \in [call : {"setid", "setfsid"}, x : S \cup {Keep}]
  <2>1. CASE k.call = "setid"
    BY <1>1, <2>1 DEF Kernel, KernelSetid
  <2>2. CASE k.call = "setfsid"
    BY <1>1, <2>2 DEF Kernel, KernelSetfsid
  <2> QED BY <1>1, <2>1, <2>2
<1>3. CASE k \in [call : {"setreid"}, r : S \cup {Keep}, e : S \cup {Keep}]
  BY <1>3 DEF Kernel, KernelSetreid, Given
<1>4. CASE k \in [call : {"setresid"}, r : S \cup {Keep}, e : S \cup {Keep}, s : S \cup {Keep}]
  BY <1>4 DEF Kernel, KernelSetresid, Given
<1> QED BY <1>1, <1>3, <1>4 DEF IdCall

(* No call gives a process without privilege an id it did not have.        *)
LEMMA NoIdFromNothing ==
  ASSUME NEW S, NEW c \in Ids(S \cup {Keep}), NEW k \in IdCall(S),
         NEW x, x \notin {c.r, c.e, c.s}
  PROVE  LET d == Emulated(c, FALSE, k) IN x \notin {d.r, d.e, d.s}
<1> USE DEF Ids
<1>1. CASE k \in [call : {"setid", "setfsid"}, x : S \cup {Keep}]
  <2>1. CASE k.call = "setid"
    BY <1>1, <2>1 DEF Emulated, setid, All
  <2>2. CASE k.call = "setfsid"
    BY <1>1, <2>2 DEF Emulated, setfsid
  <2> QED BY <1>1, <2>1, <2>2
<1>3. CASE k \in [call : {"setreid"}, r : S \cup {Keep}, e : S \cup {Keep}]
  BY <1>3 DEF Emulated, setreid
<1>4. CASE k \in [call : {"setresid"}, r : S \cup {Keep}, e : S \cup {Keep}, s : S \cup {Keep}]
  BY <1>4 DEF Emulated, setresid
<1> QED BY <1>1, <1>3, <1>4 DEF IdCall

-----------------------------------------------------------------------------
(* The tables as partial functions.                                        *)
LEMMA WithType ==
  ASSUME NEW P, NEW V, NEW f, DOMAIN f \subseteq P, f \in [DOMAIN f -> V],
         NEW p \in P, NEW v \in V
  PROVE  /\ DOMAIN With(f, p, v) \subseteq P
         /\ With(f, p, v) \in [DOMAIN With(f, p, v) -> V]
BY DEF With

LEMMA WithoutType ==
  ASSUME NEW P, NEW V, NEW f, DOMAIN f \subseteq P, f \in [DOMAIN f -> V], NEW p
  PROVE  /\ DOMAIN Without(f, p) = DOMAIN f \ {p}
         /\ DOMAIN Without(f, p) \subseteq P
         /\ Without(f, p) \in [DOMAIN Without(f, p) -> V]
         /\ \A q \in DOMAIN f \ {p} : Without(f, p)[q] = f[q]
BY DEF Without

KernelRecord == [creds : KCreds, exe : Program, filtered : BOOLEAN]

LEMMA DefaultType == Default \in Creds /\ Default \in KCreds /\ Fresh \in KernelRecord
BY ProcessAssumption DEF Default, Creds, KCreds, CredsOf, Ids, All, Fresh, KernelRecord

LEMMA FollowedType ==
  ASSUME NEW f \in [Pid -> KernelRecord]
  PROVE  Followed(f) \in [Pid -> KernelRecord]
BY DefaultType DEF Followed

LEMMA CredsOfType == ASSUME Types, NEW p \in Pid PROVE creds_of(p) \in Creds
BY DefaultType DEF Types, creds_of

LEMMA UidCallType ==
  ASSUME NEW c \in Creds, NEW k \in UidCalls
  PROVE  [c EXCEPT !.u = Emulated(c.u, Priv(c), k)] \in Creds
<1>1. c.u \in Ids(Uid \cup {Keep}) /\ k \in IdCall(Uid) /\ Priv(c) \in BOOLEAN
  BY ProcessAssumption DEF Creds, CredsOf, Priv
<1> QED BY <1>1, EmulatedType DEF Creds, CredsOf

LEMMA UidCallKernel ==
  ASSUME NEW c \in KCreds, NEW k \in UidCalls
  PROVE  /\ [c EXCEPT !.u = Kernel(c.u, Priv(c), k)] \in KCreds
         /\ ~(NoId(k) /\ Priv(c)) => Kernel(c.u, Priv(c), k) = Emulated(c.u, Priv(c), k)
<1>1. c.u \in Ids(Uid) /\ k \in IdCall(Uid) /\ Keep \notin Uid /\ Priv(c) \in BOOLEAN
  BY ProcessAssumption DEF KCreds, CredsOf, Priv
<1> QED BY <1>1, KernelType, EmulationIsKernels DEF KCreds, CredsOf

LEMMA GidCallType ==
  ASSUME NEW c \in Creds, NEW k \in GidCalls
  PROVE  [c EXCEPT !.g = Emulated(c.g, Priv(c), k)] \in Creds
<1>1. c.g \in Ids(Gid \cup {Keep}) /\ k \in IdCall(Gid) /\ Priv(c) \in BOOLEAN
  BY ProcessAssumption DEF Creds, CredsOf, Priv
<1> QED BY <1>1, EmulatedType DEF Creds, CredsOf

LEMMA GidCallKernel ==
  ASSUME NEW c \in KCreds, NEW k \in GidCalls
  PROVE  /\ [c EXCEPT !.g = Kernel(c.g, Priv(c), k)] \in KCreds
         /\ ~(NoId(k) /\ Priv(c)) => Kernel(c.g, Priv(c), k) = Emulated(c.g, Priv(c), k)
<1>1. c.g \in Ids(Gid) /\ k \in IdCall(Gid) /\ Keep \notin Gid /\ Priv(c) \in BOOLEAN
  BY ProcessAssumption DEF KCreds, CredsOf, Priv
<1> QED BY <1>1, KernelType, EmulationIsKernels DEF KCreds, CredsOf

LEMMA KernelExecType ==
  ASSUME NEW c \in KCreds
  PROVE  [c EXCEPT !.u = KernelExec(@), !.g = KernelExec(@)] \in KCreds
BY DEF KCreds, CredsOf, Ids, KernelExec

(* What each system call does to the reference.                            *)
LEMMA KernelUpdateType ==
  ASSUME NEW f \in [Pid -> KernelRecord], NEW p \in Pid, NEW r \in KernelRecord
  PROVE  Followed([f EXCEPT ![p] = r]) \in [Pid -> KernelRecord]
BY FollowedType

(* Type correctness is inductive on its own.                               *)
LEMMA TypeStep == Types /\ [Next]_vars => Types'
<1> SUFFICES ASSUME Types, [Next]_vars PROVE Types'
  OBVIOUS
<1>0. kernel \in [Pid -> KernelRecord]
  BY DEF Types, KernelRecord
<1>1. ASSUME NEW p \in Pid, GetIds(p) PROVE Types'
  <2>1. creds_of(p) \in Creds /\ Followed(kernel) \in [Pid -> KernelRecord]
    BY <1>0, CredsOfType, FollowedType
  <2> QED BY <1>1, <2>1, WithType DEF GetIds, Types, NowAstray, KernelRecord
<1>2. ASSUME NEW p \in Pid, SetUids(p) PROVE Types'
  <2>1. PICK k \in UidCalls :
          /\ creds' = With(creds, p, [creds_of(p) EXCEPT
                         !.u = Emulated(creds_of(p).u, Priv(creds_of(p)), k)])
          /\ kernel' = Followed([kernel EXCEPT ![p].creds.u = Kernel(@, Priv(kernel[p].creds), k)])
    BY <1>2 DEF SetUids
  <2> DEFINE new == [creds_of(p) EXCEPT !.u = Emulated(creds_of(p).u, Priv(creds_of(p)), k)]
  <2>2. new \in Creds /\ creds' = With(creds, p, new)
    BY <2>1, CredsOfType, UidCallType
  <2>3. [kernel EXCEPT ![p].creds.u = Kernel(@, Priv(kernel[p].creds), k)] \in [Pid -> KernelRecord]
    <3>1. kernel[p].creds \in KCreds
      BY <1>0 DEF KernelRecord
    <3>2. [kernel[p].creds EXCEPT !.u = Kernel(@, Priv(kernel[p].creds), k)] \in KCreds
      BY <3>1, UidCallKernel DEF KCreds, CredsOf
    <3> QED BY <1>0, <3>2 DEF KernelRecord
  <2>4. Followed([kernel EXCEPT ![p].creds.u = Kernel(@, Priv(kernel[p].creds), k)])
          \in [Pid -> KernelRecord]
    BY <2>3, FollowedType
  <2>5. DOMAIN creds \subseteq Pid /\ creds \in [DOMAIN creds -> Creds]
    BY DEF Types
  <2>6. DOMAIN creds' \subseteq Pid /\ creds' \in [DOMAIN creds' -> Creds]
    <3> HIDE DEF new
    <3> QED BY <2>2, <2>5, WithType
  <2>7. kernel' \in [Pid -> KernelRecord]
    BY <2>1, <2>4
  <2>8. astray' \subseteq Pid /\ UNCHANGED <<alive, forking, exe, filtered>>
    BY <1>2 DEF SetUids, Types, NowAstrayBy, NowAstray
  <2> QED BY <2>6, <2>7, <2>8 DEF Types, KernelRecord
<1>3. ASSUME NEW p \in Pid, SetGids(p) PROVE Types'
  <2>1. PICK k \in GidCalls :
          /\ creds' = With(creds, p, [creds_of(p) EXCEPT
                         !.g = Emulated(creds_of(p).g, Priv(creds_of(p)), k)])
          /\ kernel' = Followed([kernel EXCEPT ![p].creds.g = Kernel(@, Priv(kernel[p].creds), k)])
    BY <1>3 DEF SetGids
  <2> DEFINE new == [creds_of(p) EXCEPT !.g = Emulated(creds_of(p).g, Priv(creds_of(p)), k)]
  <2>2. new \in Creds /\ creds' = With(creds, p, new)
    BY <2>1, CredsOfType, GidCallType
  <2>3. [kernel EXCEPT ![p].creds.g = Kernel(@, Priv(kernel[p].creds), k)] \in [Pid -> KernelRecord]
    <3>1. kernel[p].creds \in KCreds
      BY <1>0 DEF KernelRecord
    <3>2. [kernel[p].creds EXCEPT !.g = Kernel(@, Priv(kernel[p].creds), k)] \in KCreds
      BY <3>1, GidCallKernel DEF KCreds, CredsOf
    <3> QED BY <1>0, <3>2 DEF KernelRecord
  <2>4. Followed([kernel EXCEPT ![p].creds.g = Kernel(@, Priv(kernel[p].creds), k)])
          \in [Pid -> KernelRecord]
    BY <2>3, FollowedType
  <2>5. DOMAIN creds \subseteq Pid /\ creds \in [DOMAIN creds -> Creds]
    BY DEF Types
  <2>6. DOMAIN creds' \subseteq Pid /\ creds' \in [DOMAIN creds' -> Creds]
    <3> HIDE DEF new
    <3> QED BY <2>2, <2>5, WithType
  <2>7. kernel' \in [Pid -> KernelRecord]
    BY <2>1, <2>4
  <2>8. astray' \subseteq Pid /\ UNCHANGED <<alive, forking, exe, filtered>>
    BY <1>3 DEF SetGids, Types, NowAstrayBy, NowAstray
  <2> QED BY <2>6, <2>7, <2>8 DEF Types, KernelRecord
<1>4. ASSUME NEW p \in Pid, SetGroups(p) PROVE Types'
  <2>1. PICK list \in SUBSET Gid :
          /\ creds' = With(creds, p, IF Priv(creds_of(p)) THEN [creds_of(p) EXCEPT !.groups = list]
                                                          ELSE creds_of(p))
          /\ kernel' = Followed([kernel EXCEPT ![p].creds.groups =
                                    IF Priv(kernel[p].creds) THEN list ELSE @])
    BY <1>4 DEF SetGroups
  <2>2. (IF Priv(creds_of(p)) THEN [creds_of(p) EXCEPT !.groups = list] ELSE creds_of(p)) \in Creds
    BY CredsOfType DEF Creds, CredsOf
  <2>3. [kernel EXCEPT ![p].creds.groups = IF Priv(kernel[p].creds) THEN list ELSE @]
          \in [Pid -> KernelRecord]
    BY <1>0 DEF KernelRecord, KCreds, CredsOf
  <2>4. Followed([kernel EXCEPT ![p].creds.groups = IF Priv(kernel[p].creds) THEN list ELSE @])
          \in [Pid -> KernelRecord]
    BY <2>3, FollowedType
  <2>5. DOMAIN creds \subseteq Pid /\ creds \in [DOMAIN creds -> Creds]
    BY DEF Types
  <2>6. DOMAIN creds' \subseteq Pid /\ creds' \in [DOMAIN creds' -> Creds]
    BY ONLY <2>1, <2>2, <2>5, WithType
  <2>7. kernel' \in [Pid -> KernelRecord]
    BY <2>1, <2>4
  <2>8. astray' \subseteq Pid /\ UNCHANGED <<alive, forking, exe, filtered>>
    BY <1>4 DEF SetGroups, Types, NowAstray
  <2> QED BY <2>6, <2>7, <2>8 DEF Types, KernelRecord
<1>5. ASSUME NEW p \in Pid, InstallFilter(p) PROVE Types'
  <2>0. PICK accepted \in BOOLEAN :
          kernel' = Followed([kernel EXCEPT ![p].filtered = @ \/ accepted])
    BY <1>5 DEF InstallFilter
  <2>1. Followed([kernel EXCEPT ![p].filtered = @ \/ accepted]) \in [Pid -> KernelRecord]
    <3>0. (kernel[p].filtered \/ accepted) \in BOOLEAN
      OBVIOUS
    <3>1. [kernel EXCEPT ![p].filtered = @ \/ accepted] \in [Pid -> KernelRecord]
      BY <1>0, <3>0 DEF KernelRecord
    <3> QED BY <3>1, FollowedType
  <2> QED BY <1>5, <2>0, <2>1 DEF InstallFilter, Types, NowAstray, KernelRecord
<1>6. ASSUME NEW p \in Pid, Exec(p) PROVE Types'
  <2> DEFINE after == [kernel[p].creds EXCEPT !.u = KernelExec(@), !.g = KernelExec(@)]
  <2>1. PICK prog \in Program :
          /\ exe' = With(exe, p, prog)
          /\ kernel' = Followed([kernel EXCEPT ![p].creds = after, ![p].exe = prog])
    BY <1>6 DEF Exec
  <2>2. kernel[p].creds \in KCreds
    BY <1>0 DEF KernelRecord
  <2>3. after \in KCreds
    BY <2>2, KernelExecType
  <2> HIDE DEF after
  <2>4. [kernel EXCEPT ![p].creds = after, ![p].exe = prog] \in [Pid -> KernelRecord]
    BY <1>0, <2>3 DEF KernelRecord
  <2>5. kernel' \in [Pid -> KernelRecord]
    BY <2>1, <2>4, FollowedType
  <2>6. astray' \subseteq Pid
    BY <1>6 DEF Exec, Types, NowAstray
  <2>7. UNCHANGED <<alive, forking, creds, filtered>>
    BY <1>6 DEF Exec
  <2> QED BY <2>1, <2>5, <2>6, <2>7, WithType DEF Types, KernelRecord
<1>7. ASSUME NEW p \in Pid, NEW q \in Pid, Fork(p, q) PROVE Types'
  <2>1. Followed([kernel EXCEPT ![q] = kernel[p]]) \in [Pid -> KernelRecord]
    BY <1>0, KernelUpdateType
  <2> QED BY <1>7, <2>1 DEF Fork, Types, NowAstray, KernelRecord
<1>8. ASSUME NEW p \in Pid, ForkEvent(p) PROVE Types'
  <2>1. PICK q \in forking[p] :
          IF q \in alive THEN inherit_process_state(p, q) ELSE UNCHANGED <<exe, creds, filtered>>
    BY <1>8 DEF ForkEvent
  <2>2. q \in Pid
    BY DEF Types
  <2>3. forking' = [forking EXCEPT ![p] = {}] /\ UNCHANGED <<alive, kernel, astray>>
    BY <1>8 DEF ForkEvent
  <2>4. CASE q \in alive
    <3>1. p \in DOMAIN creds => creds[p] \in Creds
      BY DEF Types
    <3>2. p \in DOMAIN exe => exe[p] \in Program
      BY DEF Types
    <3>3. inherit_process_state(p, q)
      BY <2>1, <2>4
    <3>4. DOMAIN creds' \subseteq Pid /\ creds' \in [DOMAIN creds' -> Creds]
      <4>1. DOMAIN creds \subseteq Pid /\ creds \in [DOMAIN creds -> Creds]
        BY DEF Types
      <4>2. creds' = IF p \in DOMAIN creds THEN With(creds, q, creds[p]) ELSE creds
        BY <3>3 DEF inherit_process_state
      <4>3. CASE p \in DOMAIN creds
        BY ONLY <2>2, <3>1, <4>1, <4>2, <4>3, WithType
      <4> QED BY <4>1, <4>2, <4>3
    <3>5. DOMAIN exe' \subseteq Pid /\ exe' \in [DOMAIN exe' -> Program]
      <4>1. DOMAIN exe \subseteq Pid /\ exe \in [DOMAIN exe -> Program]
        BY DEF Types
      <4>2. exe' = IF p \in DOMAIN exe THEN With(exe, q, exe[p]) ELSE exe
        BY <3>3 DEF inherit_process_state
      <4>3. CASE p \in DOMAIN exe
        BY ONLY <2>2, <3>2, <4>1, <4>2, <4>3, WithType
      <4> QED BY <4>1, <4>2, <4>3
    <3> QED BY <2>2, <2>3, <3>3, <3>4, <3>5 DEF inherit_process_state, Types
  <2>5. CASE q \notin alive
    BY <2>1, <2>3, <2>5 DEF Types
  <2> QED BY <2>4, <2>5
<1>9. ASSUME NEW p \in Pid, Exit(p) PROVE Types'
  <2>1. Followed([kernel EXCEPT ![p] = Fresh]) \in [Pid -> KernelRecord]
    BY <1>0, DefaultType, KernelUpdateType
  <2> QED BY <1>9, <2>1, WithoutType DEF Exit, Types, KernelRecord
<1>10. CASE UNCHANGED vars
  BY <1>10 DEF vars, Types
<1> QED BY <1>1, <1>2, <1>3, <1>4, <1>5, <1>6, <1>7, <1>8, <1>9, <1>10 DEF Next, OwnCall

-----------------------------------------------------------------------------
(* A call of p changes the tables at p only.                               *)
LEMMA OwnCallTables ==
  ASSUME NEW p \in Pid, OwnCall(p)
  PROVE  /\ UNCHANGED creds \/ \E v : creds' = With(creds, p, v)
         /\ UNCHANGED exe \/ \E v : exe' = With(exe, p, v)
         /\ filtered' \in {filtered, filtered \cup {p}}
         /\ Runs(p) /\ UNCHANGED <<alive, forking>>
<1>1. CASE GetIds(p)
  BY <1>1 DEF GetIds
<1>2. CASE SetUids(p)
  BY <1>2 DEF SetUids
<1>3. CASE SetGids(p)
  BY <1>3 DEF SetGids
<1>4. CASE SetGroups(p)
  BY <1>4 DEF SetGroups
<1>5. CASE InstallFilter(p)
  BY <1>5 DEF InstallFilter
<1>6. CASE Exec(p)
  BY <1>6 DEF Exec
<1> QED BY <1>1, <1>2, <1>3, <1>4, <1>5, <1>6 DEF OwnCall

(* No entry outlives its process: inductive with the types.                *)
LEMMA StaleStep == Types /\ NoStaleEntry /\ [Next]_vars => NoStaleEntry'
<1> SUFFICES ASSUME Types, NoStaleEntry, [Next]_vars PROVE NoStaleEntry'
  OBVIOUS
<1> USE DEF NoStaleEntry
<1>1. ASSUME NEW p \in Pid, OwnCall(p) PROVE NoStaleEntry'
  <2>1. p \in alive /\ UNCHANGED alive
    BY <1>1, OwnCallTables DEF Runs
  <2>2. DOMAIN creds' \subseteq DOMAIN creds \cup {p}
    BY <1>1, OwnCallTables DEF With
  <2>3. DOMAIN exe' \subseteq DOMAIN exe \cup {p}
    BY <1>1, OwnCallTables DEF With
  <2>4. filtered' \subseteq filtered \cup {p}
    BY <1>1, OwnCallTables
  <2> QED BY <2>1, <2>2, <2>3, <2>4
<1>2. ASSUME NEW p \in Pid, NEW q \in Pid, Fork(p, q) PROVE NoStaleEntry'
  BY <1>2 DEF Fork
<1>3. ASSUME NEW p \in Pid, ForkEvent(p) PROVE NoStaleEntry'
  <2>1. PICK q \in forking[p] :
          IF q \in alive THEN inherit_process_state(p, q) ELSE UNCHANGED <<exe, creds, filtered>>
    BY <1>3 DEF ForkEvent
  <2>2. UNCHANGED alive
    BY <1>3 DEF ForkEvent
  <2>3. CASE q \in alive
    <3>1. DOMAIN creds' \subseteq DOMAIN creds \cup {q}
      BY <2>1, <2>3 DEF inherit_process_state, With
    <3>2. DOMAIN exe' \subseteq DOMAIN exe \cup {q}
      BY <2>1, <2>3 DEF inherit_process_state, With
    <3>3. filtered' \subseteq filtered \cup {q}
      BY <2>1, <2>3 DEF inherit_process_state
    <3> QED BY <2>2, <2>3, <3>1, <3>2, <3>3
  <2> QED BY <2>1, <2>2, <2>3
<1>4. ASSUME NEW p \in Pid, Exit(p) PROVE NoStaleEntry'
  BY <1>4 DEF Exit, Without
<1>5. CASE UNCHANGED vars
  BY <1>5 DEF vars
<1> QED BY <1>1, <1>2, <1>3, <1>4, <1>5 DEF Next

(* A child whose fork event is still to be handled has one parent, which   *)
(* stands at the event; and as long as the child has not run, the parent   *)
(* is as it was at the fork and the child has no entries of its own.       *)
ForkInv ==
  \A p \in Pid : \A q \in forking[p] :
    /\ forking[p] = {q} /\ \A r \in Pid : q \in forking[r] => r = p
    /\ p \in alive /\ p # q
    /\ q \in alive \ astray =>
         /\ p \notin astray /\ ~Untimely(p)
         /\ kernel[q] = kernel[p]
         /\ q \notin DOMAIN creds \cup DOMAIN exe \cup filtered

Inv ==
  /\ Types
  /\ NoStaleEntry
  /\ ForkInv
  /\ TimelyStateIsKernels

-----------------------------------------------------------------------------
(* What a call of p must do for the invariant: leave every other process   *)
(* alone and, unless p has gone astray, agree with the kernel about p.     *)
LEMMA OwnCallKeeps ==
  ASSUME Types, ForkInv, TimelyStateIsKernels, NEW p \in Pid, OwnCall(p),
         NowAstray(p) \subseteq astray', astray' \subseteq astray \cup {p},
         \A q \in Pid \ {p} : q \notin astray' => kernel'[q] = kernel[q],
         p \notin astray' =>
           /\ creds_of(p)' = kernel'[p].creds
           /\ p \in DOMAIN exe' /\ exe'[p] = kernel'[p].exe
           /\ kernel'[p].filtered => p \in filtered'
  PROVE  ForkInv' /\ TimelyStateIsKernels'
<1>1. /\ Runs(p) /\ UNCHANGED <<alive, forking>> /\ filtered' \in {filtered, filtered \cup {p}}
      /\ UNCHANGED creds \/ \E v : creds' = With(creds, p, v)
      /\ UNCHANGED exe \/ \E v : exe' = With(exe, p, v)
  BY OwnCallTables
<1>2. ASSUME NEW q \in Pid \ {p}
      PROVE  /\ creds_of(q)' = creds_of(q) /\ (q \in DOMAIN creds' <=> q \in DOMAIN creds)
             /\ (q \in DOMAIN exe' <=> q \in DOMAIN exe) /\ (q \in DOMAIN exe => exe'[q] = exe[q])
             /\ (q \in filtered' <=> q \in filtered)
             /\ (q \in astray' <=> q \in astray)
  <2>1. creds_of(q)' = creds_of(q) /\ (q \in DOMAIN creds' <=> q \in DOMAIN creds)
    BY <1>1 DEF creds_of, With
  <2>2. (q \in DOMAIN exe' <=> q \in DOMAIN exe) /\ (q \in DOMAIN exe => exe'[q] = exe[q])
    BY <1>1 DEF With
  <2> QED BY <1>1, <2>1, <2>2 DEF NowAstray
<1>3. \A q \in Pid : Untimely(q)' <=> Untimely(q)
  BY <1>1 DEF Untimely
<1>4. Untimely(p) => p \in astray'
  BY DEF NowAstray
<1>5. TimelyStateIsKernels'
  <2> SUFFICES ASSUME NEW q \in alive, q \notin astray', ~Untimely(q)
               PROVE  /\ creds_of(q)' = kernel'[q].creds
                      /\ q \in DOMAIN exe' /\ exe'[q] = kernel'[q].exe
                      /\ kernel'[q].filtered => q \in filtered'
    BY <1>1, <1>3 DEF TimelyStateIsKernels, Types
  <2>1. CASE q = p
    BY <2>1 DEF creds_of
  <2>2. CASE q # p
    BY <1>2, <2>2 DEF TimelyStateIsKernels, Types
  <2> QED BY <2>1, <2>2
<1>6. ForkInv'
  <2> SUFFICES ASSUME NEW r \in Pid, NEW q \in forking[r]
               PROVE  /\ forking[r] = {q} /\ \A t \in Pid : q \in forking[t] => t = r
                      /\ r \in alive /\ r # q
                      /\ q \in alive /\ q \notin astray' =>
                           /\ r \notin astray' /\ ~Untimely(r)
                           /\ kernel'[q] = kernel'[r]
                           /\ q \notin DOMAIN creds' \cup DOMAIN exe' \cup filtered'
    BY <1>1, <1>3 DEF ForkInv
  <2>1. r # p /\ q \in Pid
    BY <1>1 DEF Runs, Types
  <2>2. q = p => Untimely(p)
    BY DEF Untimely
  <2> QED BY <1>2, <1>4, <2>1, <2>2 DEF ForkInv
<1> QED BY <1>5, <1>6

(* What Followed leaves of the reference.                                  *)
LEMMA FollowedAt ==
  ASSUME NEW f, NEW q \in Pid, q \notin astray'
  PROVE  Followed(f)[q] = f[q]
BY DEF Followed

LEMMA OwnCallInv ==
  ASSUME Types, ForkInv, TimelyStateIsKernels, NEW p \in Pid, OwnCall(p)
  PROVE  ForkInv' /\ TimelyStateIsKernels'
<1>0. kernel \in [Pid -> KernelRecord] /\ kernel[p] \in KernelRecord /\ kernel[p].creds \in KCreds
  BY DEF Types, KernelRecord
<1>1. /\ p \in alive
      /\ p \notin NowAstray(p) => p \notin astray /\ ~Untimely(p)
  BY OwnCallTables DEF Runs, NowAstray
<1>2. ASSUME p \notin NowAstray(p)
      PROVE  /\ creds_of(p) = kernel[p].creds
             /\ p \in DOMAIN exe /\ exe[p] = kernel[p].exe
             /\ kernel[p].filtered => p \in filtered
  BY <1>1, <1>2 DEF TimelyStateIsKernels
<1>3. NowAstray(p) \subseteq astray \cup {p}
  BY DEF NowAstray
<1>4. CASE GetIds(p)
  <2>1. astray' = NowAstray(p) /\ kernel' = Followed(kernel) /\ UNCHANGED <<exe, filtered>>
        /\ creds_of(p)' = creds_of(p)
    BY <1>4 DEF GetIds, creds_of, With
  <2> QED BY <1>2, <1>3, <2>1, FollowedAt, OwnCallKeeps
<1>5. CASE SetUids(p)
  <2>1. PICK k \in UidCalls :
          /\ creds' = With(creds, p, [creds_of(p) EXCEPT
                         !.u = Emulated(creds_of(p).u, Priv(creds_of(p)), k)])
          /\ kernel' = Followed([kernel EXCEPT ![p].creds.u = Kernel(@, Priv(kernel[p].creds), k)])
          /\ astray' = NowAstrayBy(p, k)
    BY <1>5 DEF SetUids
  <2>2. /\ NowAstray(p) \subseteq astray' /\ astray' \subseteq astray \cup {p}
        /\ UNCHANGED <<exe, filtered>>
        /\ p \notin astray' => p \notin NowAstray(p) /\ ~(NoId(k) /\ Priv(creds_of(p)))
    BY <1>5, <2>1 DEF SetUids, NowAstrayBy, NowAstray, StoresNoId, NoId
  <2> DEFINE f == [kernel EXCEPT ![p].creds.u = Kernel(@, Priv(kernel[p].creds), k)]
  <2>3. \A q \in Pid \ {p} : f[q] = kernel[q]
    BY <1>0
  <2>4. /\ f[p].exe = kernel[p].exe /\ f[p].filtered = kernel[p].filtered
        /\ ~(NoId(k) /\ Priv(kernel[p].creds)) =>
             f[p].creds = [kernel[p].creds EXCEPT !.u = Emulated(@, Priv(kernel[p].creds), k)]
    BY <1>0, UidCallKernel DEF KernelRecord
  <2>5. creds_of(p)' = [creds_of(p) EXCEPT !.u = Emulated(creds_of(p).u, Priv(creds_of(p)), k)]
    BY <2>1 DEF creds_of, With
  <2>6. kernel' = Followed(f)
    BY <2>1
  <2> HIDE DEF f
  <2> QED BY <1>2, <1>3, <2>2, <2>3, <2>4, <2>5, <2>6, FollowedAt, OwnCallKeeps
<1>6. CASE SetGids(p)
  <2>1. PICK k \in GidCalls :
          /\ creds' = With(creds, p, [creds_of(p) EXCEPT
                         !.g = Emulated(creds_of(p).g, Priv(creds_of(p)), k)])
          /\ kernel' = Followed([kernel EXCEPT ![p].creds.g = Kernel(@, Priv(kernel[p].creds), k)])
          /\ astray' = NowAstrayBy(p, k)
    BY <1>6 DEF SetGids
  <2>2. /\ NowAstray(p) \subseteq astray' /\ astray' \subseteq astray \cup {p}
        /\ UNCHANGED <<exe, filtered>>
        /\ p \notin astray' => p \notin NowAstray(p) /\ ~(NoId(k) /\ Priv(creds_of(p)))
    BY <1>6, <2>1 DEF SetGids, NowAstrayBy, NowAstray, StoresNoId, NoId
  <2> DEFINE f == [kernel EXCEPT ![p].creds.g = Kernel(@, Priv(kernel[p].creds), k)]
  <2>3. \A q \in Pid \ {p} : f[q] = kernel[q]
    BY <1>0
  <2>4. /\ f[p].exe = kernel[p].exe /\ f[p].filtered = kernel[p].filtered
        /\ ~(NoId(k) /\ Priv(kernel[p].creds)) =>
             f[p].creds = [kernel[p].creds EXCEPT !.g = Emulated(@, Priv(kernel[p].creds), k)]
    BY <1>0, GidCallKernel DEF KernelRecord
  <2>5. creds_of(p)' = [creds_of(p) EXCEPT !.g = Emulated(creds_of(p).g, Priv(creds_of(p)), k)]
    BY <2>1 DEF creds_of, With
  <2>6. kernel' = Followed(f)
    BY <2>1
  <2> HIDE DEF f
  <2> QED BY <1>2, <1>3, <2>2, <2>3, <2>4, <2>5, <2>6, FollowedAt, OwnCallKeeps
<1>7. CASE SetGroups(p)
  <2>1. PICK list \in SUBSET Gid :
          /\ creds' = With(creds, p, IF Priv(creds_of(p)) THEN [creds_of(p) EXCEPT !.groups = list]
                                                          ELSE creds_of(p))
          /\ kernel' = Followed([kernel EXCEPT ![p].creds.groups =
                                    IF Priv(kernel[p].creds) THEN list ELSE @])
    BY <1>7 DEF SetGroups
  <2>2. astray' = NowAstray(p) /\ UNCHANGED <<exe, filtered>>
    BY <1>7 DEF SetGroups
  <2> DEFINE f == [kernel EXCEPT ![p].creds.groups = IF Priv(kernel[p].creds) THEN list ELSE @]
  <2>3. \A q \in Pid \ {p} : f[q] = kernel[q]
    BY <1>0
  <2>4. f[p].exe = kernel[p].exe /\ f[p].filtered = kernel[p].filtered
        /\ f[p].creds = IF Priv(kernel[p].creds) THEN [kernel[p].creds EXCEPT !.groups = list]
                                                 ELSE kernel[p].creds
    BY <1>0 DEF KernelRecord, KCreds, CredsOf
  <2>5. creds_of(p)' = IF Priv(creds_of(p)) THEN [creds_of(p) EXCEPT !.groups = list] ELSE creds_of(p)
    BY <2>1 DEF creds_of, With
  <2>6. kernel' = Followed(f)
    BY <2>1
  <2> HIDE DEF f
  <2> QED BY <1>2, <1>3, <2>2, <2>3, <2>4, <2>5, <2>6, FollowedAt, OwnCallKeeps
<1>8. CASE InstallFilter(p)
  <2>0. PICK accepted \in BOOLEAN :
          kernel' = Followed([kernel EXCEPT ![p].filtered = @ \/ accepted])
    BY <1>8 DEF InstallFilter
  <2>1. astray' = NowAstray(p) /\ UNCHANGED <<creds, exe>> /\ p \in filtered'
    BY <1>8 DEF InstallFilter
  <2> DEFINE f == [kernel EXCEPT ![p].filtered = @ \/ accepted]
  <2>2. \A q \in Pid \ {p} : f[q] = kernel[q]
    BY <1>0
  <2>3. f[p].exe = kernel[p].exe /\ f[p].creds = kernel[p].creds
    BY <1>0 DEF KernelRecord
  <2>4. creds_of(p)' = creds_of(p)
    BY <2>1 DEF creds_of
  <2>5. kernel' = Followed(f)
    BY <2>0
  <2> HIDE DEF f
  <2>6. p \notin astray' => (kernel'[p].filtered => p \in filtered')
    BY <2>1
  <2>7. p \notin astray' => kernel'[p].creds = kernel[p].creds /\ kernel'[p].exe = kernel[p].exe
    BY <2>3, <2>5, FollowedAt
  <2>8. \A q \in Pid \ {p} : q \notin astray' => kernel'[q] = kernel[q]
    BY <2>2, <2>5, FollowedAt
  <2> QED BY <1>2, <1>3, <2>1, <2>4, <2>6, <2>7, <2>8, OwnCallKeeps
<1>9. CASE Exec(p)
  <2> DEFINE after == [kernel[p].creds EXCEPT !.u = KernelExec(@), !.g = KernelExec(@)]
  <2>1. PICK prog \in Program :
          /\ exe' = With(exe, p, prog)
          /\ kernel' = Followed([kernel EXCEPT ![p].creds = after, ![p].exe = prog])
    BY <1>9 DEF Exec
  <2>2. astray' = NowAstray(p) \cup (IF after = kernel[p].creds THEN {} ELSE {p})
        /\ UNCHANGED <<creds, filtered>>
    BY <1>9 DEF Exec
  <2> HIDE DEF after
  <2> DEFINE f == [kernel EXCEPT ![p].creds = after, ![p].exe = prog]
  <2>3. \A q \in Pid \ {p} : f[q] = kernel[q]
    BY <1>0
  <2>4. f[p].exe = prog /\ f[p].creds = after /\ f[p].filtered = kernel[p].filtered
    BY <1>0 DEF KernelRecord
  <2>5. p \in DOMAIN exe' /\ exe'[p] = prog /\ creds_of(p)' = creds_of(p)
    BY <2>1, <2>2 DEF With, creds_of
  <2>6. kernel' = Followed(f)
    BY <2>1
  <2> HIDE DEF f
  <2> QED BY <1>2, <1>3, <2>2, <2>3, <2>4, <2>5, <2>6, FollowedAt, OwnCallKeeps
<1> QED BY <1>4, <1>5, <1>6, <1>7, <1>8, <1>9 DEF OwnCall

(* A fork, its event and an exit.                                          *)
LEMMA ForkInvStep ==
  ASSUME Types, NoStaleEntry, ForkInv, TimelyStateIsKernels,
         NEW p \in Pid, NEW q \in Pid, Fork(p, q)
  PROVE  ForkInv' /\ TimelyStateIsKernels'
<1>1. /\ Runs(p) /\ q \notin alive /\ ~Untimely(q) /\ alive' = alive \cup {q}
      /\ forking' = [forking EXCEPT ![p] = {q}]
      /\ astray' = IF p \in NowAstray(p) THEN NowAstray(p) \cup {q} ELSE astray \ {q}
      /\ kernel' = Followed([kernel EXCEPT ![q] = kernel[p]])
      /\ UNCHANGED <<creds, exe, filtered>>
  BY DEF Fork
<1>2. p \in alive /\ p # q /\ forking[p] = {}
  BY <1>1 DEF Runs
<1>3. q \notin DOMAIN creds \cup DOMAIN exe \cup filtered
  BY <1>1 DEF NoStaleEntry
<1>4. q \notin astray' => p \notin astray' /\ p \notin astray /\ ~Untimely(p)
  BY <1>1, <1>2 DEF NowAstray
<1>5. \A r \in Pid \ {q} : r \notin astray' => kernel'[r] = kernel[r] /\ r \notin astray
  BY <1>1, FollowedAt DEF Types, NowAstray
<1>6. q \notin astray' => kernel'[q] = kernel[p]
  BY <1>1, FollowedAt DEF Types
<1>7. \A r \in Pid : Untimely(r)' <=> Untimely(r) \/ r = q
  BY <1>1, <1>2 DEF Untimely, Types
<1>8. \A r \in Pid : creds_of(r)' = creds_of(r)
  BY <1>1 DEF creds_of
<1>9. TimelyStateIsKernels'
  BY <1>1, <1>5, <1>7, <1>8 DEF TimelyStateIsKernels, Types
<1>10. ForkInv'
  <2> SUFFICES ASSUME NEW r \in Pid, NEW t \in forking'[r]
               PROVE  /\ forking'[r] = {t} /\ \A z \in Pid : t \in forking'[z] => z = r
                      /\ r \in alive' /\ r # t
                      /\ t \in alive' \ astray' =>
                           /\ r \notin astray' /\ ~Untimely(r)'
                           /\ kernel'[t] = kernel'[r]
                           /\ t \notin DOMAIN creds' \cup DOMAIN exe' \cup filtered'
    BY DEF ForkInv
  <2>1. CASE r = p
    <3>1. t = q /\ forking'[r] = {t} /\ r \in alive' /\ r # t
      BY <1>1, <1>2, <2>1 DEF Types
    <3>2. \A z \in Pid : q \in forking'[z] => z = p
      BY <1>1 DEF Types, Untimely
    <3>3. t \notin astray' => /\ r \notin astray' /\ ~Untimely(r)'
                             /\ kernel'[t] = kernel'[r]
      BY <1>2, <1>4, <1>5, <1>6, <1>7, <2>1, <3>1
    <3>4. t \notin DOMAIN creds' \cup DOMAIN exe' \cup filtered'
      BY <1>1, <1>3, <3>1
    <3> QED BY <2>1, <3>1, <3>2, <3>3, <3>4
  <2>2. CASE r # p
    <3>1. t \in forking[r] /\ t \in Pid /\ t # q
      BY <1>1, <2>2 DEF Types, Untimely
    <3>2. r \in alive /\ r # q
      BY <1>1, <3>1 DEF ForkInv
    <3>3. r \in astray' => r \in astray
      BY <1>1, <2>2, <3>2 DEF NowAstray
    <3>4. forking'[r] = {t} /\ \A z \in Pid : t \in forking'[z] => z = r
      BY <1>1, <2>2, <3>1 DEF ForkInv, Types
    <3>5. r \in alive' /\ r # t
      BY <1>1, <3>1 DEF ForkInv
    <3>6. ASSUME t \in alive' \ astray'
          PROVE  /\ r \notin astray' /\ ~Untimely(r)'
                 /\ kernel'[t] = kernel'[r]
                 /\ t \notin DOMAIN creds' \cup DOMAIN exe' \cup filtered'
      <4>1. t \in alive \ astray
        BY <1>1, <1>5, <3>1, <3>6
      <4>2. /\ r \notin astray /\ ~Untimely(r) /\ kernel[t] = kernel[r]
            /\ t \notin DOMAIN creds \cup DOMAIN exe \cup filtered
        BY <3>1, <4>1 DEF ForkInv
      <4>3. r \notin astray' /\ ~Untimely(r)'
        BY <1>7, <3>2, <3>3, <4>2
      <4>4. kernel'[t] = kernel[t] /\ kernel'[r] = kernel[r]
        BY <1>5, <3>1, <3>2, <3>6, <4>3
      <4> QED BY <1>1, <4>2, <4>3, <4>4
    <3> QED BY <3>4, <3>5, <3>6
  <2> QED BY <2>1, <2>2
<1> QED BY <1>9, <1>10

LEMMA ForkEventInvStep ==
  ASSUME Types, NoStaleEntry, ForkInv, TimelyStateIsKernels, NEW p \in Pid, ForkEvent(p)
  PROVE  ForkInv' /\ TimelyStateIsKernels'
<1>1. PICK q \in forking[p] :
        IF q \in alive THEN inherit_process_state(p, q) ELSE UNCHANGED <<exe, creds, filtered>>
  BY DEF ForkEvent
<1>2. /\ q \in Pid /\ p \in alive /\ p # q
      /\ forking' = [forking EXCEPT ![p] = {}]
      /\ UNCHANGED <<alive, kernel, astray>>
  BY DEF ForkEvent, ForkInv, Types
<1>3. \A r \in Pid \ {p} : q \notin forking[r]
  BY DEF ForkInv
<1>4. \A r \in Pid \ {q} :
        /\ creds_of(r)' = creds_of(r) /\ (r \in DOMAIN creds' <=> r \in DOMAIN creds)
        /\ (r \in DOMAIN exe' <=> r \in DOMAIN exe) /\ (r \in DOMAIN exe => exe'[r] = exe[r])
        /\ (r \in filtered' <=> r \in filtered)
  BY <1>1 DEF inherit_process_state, With, creds_of
<1>5. ASSUME q \in alive, q \notin astray
      PROVE  /\ creds_of(q)' = kernel[q].creds
             /\ q \in DOMAIN exe' /\ exe'[q] = kernel[q].exe
             /\ kernel[q].filtered => q \in filtered'
  <2>1. inherit_process_state(p, q)
    BY <1>1, <1>5
  <2>2. /\ p \notin astray /\ ~Untimely(p) /\ kernel[q] = kernel[p]
        /\ q \notin DOMAIN creds \cup DOMAIN exe \cup filtered
    BY <1>5 DEF ForkInv
  <2>3. /\ creds_of(p) = kernel[p].creds
        /\ p \in DOMAIN exe /\ exe[p] = kernel[p].exe
        /\ kernel[p].filtered => p \in filtered
    BY <1>2, <2>2 DEF TimelyStateIsKernels
  <2>4. creds_of(q)' = creds_of(p)
    BY <2>1, <2>2 DEF inherit_process_state, With, creds_of
  <2>5. q \in DOMAIN exe' /\ exe'[q] = exe[p]
    BY <2>1, <2>3 DEF inherit_process_state, With
  <2>6. q \in filtered' <=> p \in filtered
    BY <2>1, <2>2 DEF inherit_process_state
  <2> QED BY <2>2, <2>3, <2>4, <2>5, <2>6
<1>6. forking[p] = {q}
  BY DEF ForkInv
<1>7. \A r \in Pid : Untimely(r)' <=> Untimely(r) /\ r # q
  BY <1>2, <1>3, <1>6 DEF Untimely, Types
<1>8. TimelyStateIsKernels'
  <2> SUFFICES ASSUME NEW r \in alive, r \notin astray, ~Untimely(r)'
               PROVE  /\ creds_of(r)' = kernel[r].creds
                      /\ r \in DOMAIN exe' /\ exe'[r] = kernel[r].exe
                      /\ kernel[r].filtered => r \in filtered'
    BY <1>2 DEF TimelyStateIsKernels
  <2>1. CASE r = q
    BY <1>5, <2>1 DEF creds_of
  <2>2. CASE r # q
    BY <1>4, <1>7, <2>2 DEF TimelyStateIsKernels, Types
  <2> QED BY <2>1, <2>2
<1>9. ForkInv'
  <2> SUFFICES ASSUME NEW r \in Pid, NEW t \in forking'[r]
               PROVE  /\ forking'[r] = {t} /\ \A z \in Pid : t \in forking'[z] => z = r
                      /\ r \in alive /\ r # t
                      /\ t \in alive \ astray =>
                           /\ r \notin astray /\ ~Untimely(r)'
                           /\ kernel[t] = kernel[r]
                           /\ t \notin DOMAIN creds' \cup DOMAIN exe' \cup filtered'
    BY <1>2 DEF ForkInv
  <2>1. r # p /\ t \in forking[r] /\ t \in Pid /\ t # q /\ forking'[r] = forking[r]
    BY <1>2, <1>3 DEF Types
  <2>2. \A z \in Pid : t \in forking'[z] => t \in forking[z]
    BY <1>2 DEF Types
  <2> QED BY <1>4, <1>7, <2>1, <2>2 DEF ForkInv
<1> QED BY <1>8, <1>9

LEMMA ExitInvStep ==
  ASSUME Types, NoStaleEntry, ForkInv, TimelyStateIsKernels, NEW p \in Pid, Exit(p)
  PROVE  ForkInv' /\ TimelyStateIsKernels'
<1>1. /\ p \in alive /\ alive' = alive \ {p}
      /\ forking' = [forking EXCEPT ![p] = {}]
      /\ exe' = Without(exe, p) /\ creds' = Without(creds, p) /\ filtered' = filtered \ {p}
      /\ astray' = (astray \cup forking[p]) \ {p}
      /\ kernel' = Followed([kernel EXCEPT ![p] = Fresh])
  BY DEF Exit
<1>2. \A r \in Pid \ {p} :
        /\ creds_of(r)' = creds_of(r) /\ (r \in DOMAIN creds' <=> r \in DOMAIN creds)
        /\ (r \in DOMAIN exe' <=> r \in DOMAIN exe) /\ (r \in DOMAIN exe => exe'[r] = exe[r])
        /\ (r \in filtered' <=> r \in filtered)
  BY <1>1 DEF Without, creds_of
<1>3. \A r \in Pid \ {p} : r \notin astray' => kernel'[r] = kernel[r] /\ r \notin astray
  BY <1>1, FollowedAt DEF Types
<1>4. \A r \in Pid : Untimely(r)' <=> Untimely(r) /\ r \notin forking[p]
  BY <1>1 DEF Untimely, Types, ForkInv
<1>5. TimelyStateIsKernels'
  <2> SUFFICES ASSUME NEW r \in alive, r # p, r \notin astray', ~Untimely(r)'
               PROVE  /\ creds_of(r)' = kernel'[r].creds
                      /\ r \in DOMAIN exe' /\ exe'[r] = kernel'[r].exe
                      /\ kernel'[r].filtered => r \in filtered'
    BY <1>1 DEF TimelyStateIsKernels
  <2>1. r \in Pid /\ r \notin forking[p]
    BY <1>1 DEF Types
  <2> QED BY <1>2, <1>3, <1>4, <2>1 DEF TimelyStateIsKernels
<1>6. ForkInv'
  <2> SUFFICES ASSUME NEW r \in Pid, NEW t \in forking'[r]
               PROVE  /\ forking'[r] = {t} /\ \A z \in Pid : t \in forking'[z] => z = r
                      /\ r \in alive' /\ r # t
                      /\ t \in alive' \ astray' =>
                           /\ r \notin astray' /\ ~Untimely(r)'
                           /\ kernel'[t] = kernel'[r]
                           /\ t \notin DOMAIN creds' \cup DOMAIN exe' \cup filtered'
    BY DEF ForkInv
  <2>1. r # p /\ t \in forking[r] /\ t \in Pid /\ forking'[r] = forking[r]
    BY <1>1 DEF Types
  <2>2. \A z \in Pid : t \in forking'[z] => t \in forking[z]
    BY <1>1 DEF Types
  <2>3. r \in forking[p] => Untimely(r)
    BY DEF Untimely
  <2>4. forking'[r] = {t} /\ (\A z \in Pid : t \in forking'[z] => z = r) /\ r \in alive' /\ r # t
    BY <1>1, <2>1, <2>2 DEF ForkInv
  <2>5. ASSUME t \in alive' \ astray'
        PROVE  /\ r \notin astray' /\ ~Untimely(r)'
               /\ kernel'[t] = kernel'[r]
               /\ t \notin DOMAIN creds' \cup DOMAIN exe' \cup filtered'
    <3>1. t # p /\ t \in alive \ astray
      BY <1>1, <1>3, <2>1, <2>5
    <3>2. /\ r \notin astray /\ ~Untimely(r) /\ kernel[t] = kernel[r]
          /\ t \notin DOMAIN creds \cup DOMAIN exe \cup filtered
      BY <2>1, <3>1 DEF ForkInv
    <3>3. r \notin astray' /\ ~Untimely(r)'
      BY <1>1, <1>4, <2>3, <3>2
    <3>4. kernel'[t] = kernel[t] /\ kernel'[r] = kernel[r]
      BY <1>3, <2>1, <2>5, <3>1, <3>3
    <3> QED BY <1>2, <2>1, <3>1, <3>2, <3>3, <3>4
  <2> QED BY <2>4, <2>5
<1> QED BY <1>5, <1>6

LEMMA InvInit == Init => Inv
BY ProcessAssumption, DefaultType
   DEF Init, Inv, Types, NoStaleEntry, ForkInv, TimelyStateIsKernels, KernelRecord, Fresh, creds_of

LEMMA InvStep == Inv /\ [Next]_vars => Inv'
<1> SUFFICES ASSUME Inv, [Next]_vars PROVE ForkInv' /\ TimelyStateIsKernels'
  BY TypeStep, StaleStep DEF Inv
<1>1. CASE UNCHANGED vars
  BY <1>1 DEF vars, Inv, ForkInv, TimelyStateIsKernels, Untimely, creds_of
<1>2. CASE Next
  BY <1>2, OwnCallInv, ForkInvStep, ForkEventInvStep, ExitInvStep DEF Inv, Next
<1> QED BY <1>1, <1>2

(* The inductive invariant holds of every session.                         *)
THEOREM Invariant == Spec => []Inv
BY InvInit, InvStep, PTL DEF Spec

(* Type correctness of the tables and of the reference.                    *)
THEOREM TypeCorrect == Spec => []TypeOK
<1>1. Inv => TypeOK
  <2> SUFFICES ASSUME Inv, NEW p \in alive \ astray, ~Untimely(p) PROVE creds_of(p) \in KCreds
    BY DEF Inv, TypeOK
  <2>1. creds_of(p) = kernel[p].creds
    BY DEF Inv, TimelyStateIsKernels
  <2>2. p \in Pid /\ kernel[p].creds \in KCreds
    BY DEF Inv, Types
  <2> QED BY <2>1, <2>2
<1> QED BY Invariant, <1>1, PTL

(* remove_tracee() leaves nothing behind that a reused id could inherit.   *)
THEOREM NothingStale == Spec => []NoStaleEntry
<1>1. Inv => NoStaleEntry
  BY DEF Inv
<1> QED BY Invariant, <1>1, PTL

(* While fork events come in time, the supervisor's tables are what the    *)
(* kernel's rules say, for any number of processes and any reuse of ids.   *)
THEOREM TimelyIsKernels == Spec => []TimelyStateIsKernels
<1>1. Inv => TimelyStateIsKernels
  BY DEF Inv
<1> QED BY Invariant, <1>1, PTL

-----------------------------------------------------------------------------
(* A dropped process stays dropped over its own id-changing calls.         *)
LEMMA DroppedOverUidCall ==
  ASSUME NEW c \in Creds, Dropped(c), NEW k \in UidCalls
  PROVE  Dropped([c EXCEPT !.u = Emulated(c.u, Priv(c), k)])
<1>1. c.u \in Ids(Uid \cup {Keep}) /\ k \in IdCall(Uid)
  BY ProcessAssumption DEF Creds, CredsOf
<1>2. Priv(c) = FALSE /\ 0 \notin {c.u.r, c.u.e, c.u.s}
  BY DEF Dropped, Priv
<1> DEFINE d == Emulated(c.u, FALSE, k)
<1>3. 0 \notin {d.r, d.e, d.s}
  BY <1>1, <1>2, NoIdFromNothing
<1> HIDE DEF d
<1>4. [c EXCEPT !.u = d].u = d
  BY DEF Creds, CredsOf
<1> QED BY <1>2, <1>3, <1>4 DEF Dropped, d

(* A process that gave up root has no way back: no call of its own or of   *)
(* another process, no fork, exec or exit restores a root id; only the     *)
(* late handling of its own fork event can.                                *)
THEOREM DroppedIsFinal == Spec => DroppedUntilLateEvent
<1>1. ASSUME Inv, [Next]_vars, NEW p \in alive \cap alive', Dropped(creds_of(p)),
             ~(Untimely(p) /\ ~Untimely(p)')
      PROVE  Dropped(creds_of(p)')
  <2>0. p \in Pid /\ creds_of(p) \in Creds
    BY <1>1, CredsOfType DEF Inv, Types
  <2>1. CASE creds_of(p)' = creds_of(p)
    BY <1>1, <2>1
  <2>2. ASSUME NEW q \in Pid, OwnCall(q) PROVE Dropped(creds_of(p)')
    <3>1. CASE q # p
      <4>1. UNCHANGED creds \/ \E v : creds' = With(creds, q, v)
        BY <2>2, OwnCallTables
      <4>2. creds_of(p)' = creds_of(p)
        BY <3>1, <4>1 DEF creds_of, With
      <4> QED BY <2>1, <4>2
    <3>2. CASE q = p
      <4>1. CASE GetIds(p) \/ InstallFilter(p) \/ Exec(p)
        <5>1. creds_of(p)' = creds_of(p)
          BY <4>1 DEF GetIds, InstallFilter, Exec, creds_of, With
        <5> QED BY <2>1, <5>1
      <4>2. CASE SetUids(p)
        <5>1. PICK k \in UidCalls : creds' = With(creds, p, [creds_of(p) EXCEPT
                         !.u = Emulated(creds_of(p).u, Priv(creds_of(p)), k)])
          BY <4>2 DEF SetUids
        <5>2. creds_of(p)' = [creds_of(p) EXCEPT !.u = Emulated(creds_of(p).u, Priv(creds_of(p)), k)]
          BY <5>1 DEF creds_of, With
        <5> QED BY <1>1, <2>0, <5>2, DroppedOverUidCall
      <4>3. CASE SetGids(p) \/ SetGroups(p)
        <5>1. creds_of(p)'.u = creds_of(p).u
          BY <2>0, <4>3 DEF SetGids, SetGroups, creds_of, With, Creds, CredsOf
        <5> QED BY <1>1, <5>1 DEF Dropped
      <4> QED BY <2>2, <3>2, <4>1, <4>2, <4>3 DEF OwnCall
    <3> QED BY <3>1, <3>2
  <2>3. ASSUME NEW q \in Pid, NEW r \in Pid, Fork(q, r) PROVE Dropped(creds_of(p)')
    <3>1. creds_of(p)' = creds_of(p)
      BY <2>3 DEF Fork, creds_of
    <3> QED BY <2>1, <3>1
  <2>4. ASSUME NEW q \in Pid, ForkEvent(q) PROVE Dropped(creds_of(p)')
    <3>1. PICK r \in forking[q] :
            IF r \in alive THEN inherit_process_state(q, r) ELSE UNCHANGED <<exe, creds, filtered>>
      BY <2>4 DEF ForkEvent
    <3>2. forking' = [forking EXCEPT ![q] = {}]
      BY <2>4 DEF ForkEvent
    <3>3. r # p
      BY <1>1, <3>2 DEF Inv, Types, ForkInv, Untimely
    <3>4. creds_of(p)' = creds_of(p)
      BY <3>1, <3>3 DEF inherit_process_state, creds_of, With
    <3> QED BY <2>1, <3>4
  <2>5. ASSUME NEW q \in Pid, Exit(q) PROVE Dropped(creds_of(p)')
    <3>1. q # p
      BY <1>1, <2>5 DEF Exit
    <3>2. creds_of(p)' = creds_of(p)
      BY <2>5, <3>1 DEF Exit, creds_of, Without
    <3> QED BY <2>1, <3>2
  <2>6. CASE UNCHANGED vars
    <3>1. creds_of(p)' = creds_of(p)
      BY <2>6 DEF vars, creds_of
    <3> QED BY <2>1, <3>1
  <2> QED BY <1>1, <2>2, <2>3, <2>4, <2>5, <2>6 DEF Next
<1>2. Inv /\ [Next]_vars => DropHolds
  BY <1>1 DEF DropHolds
<1> QED BY Invariant, <1>2, PTL DEF Spec, DroppedUntilLateEvent
=============================================================================
