------------------------------ MODULE LinkStore ------------------------------
(***************************************************************************)
(* Hard links where the host refuses link(2)                               *)
(* (engines/rootless/link_store.cpp and the link, unlink and rename        *)
(* handlers of syscall_handlers.cpp), for one mount that several sessions  *)
(* share.                                                                  *)
(*                                                                         *)
(* A file with several names is an object in the mount's store; each name  *)
(* is a symlink that carries the object's id, and a record counts the      *)
(* names and lists those it knows.  A session's supervisor thread works on *)
(* one call at a time, one change of the file system per step, while one   *)
(* rename or unlink of its guest may be inside the kernel.  A session can  *)
(* die between any two steps.  A file-system call that fails changes       *)
(* nothing, so it is one step with the undoing that follows it; the        *)
(* undoing itself is taken to succeed.  Calls that are refused before they *)
(* change anything are not steps.  Ordinary symlinks, directories and a    *)
(* store that cannot be locked are left out.                               *)
(***************************************************************************)
EXTENDS Naturals, FiniteSets

CONSTANTS
  Session,   \* sessions on the mount
  Name,      \* paths of non-directories
  File,      \* files (inodes)
  Id,        \* object ids; random_id() gives one that is not in use
  None,
  Long,      \* names a record cannot hold (a newline, or too long)
  kFaults    \* bound on deaths and on record writes whose failure is ignored

ASSUME LinkStoreAssumption ==
  /\ Long \subseteq Name
  /\ kFaults \in Nat
  /\ None \notin Session \cup Name \cup File \cup Id
  /\ File \cap Id = {}

VARIABLES
  entry,     \* what a directory holds at a name: a file, a link's id, or None
  object,    \* <store>/<id>
  record,    \* <store>/<id>.n
  lock,      \* who holds <store>/.lock
  call,      \* what each supervisor is working on
  kernel,    \* each session's rename or unlink inside the kernel
  truth,     \* reference: the file each name would have with real hard links
  left,      \* ids at which a session died, or whose record could not be written
  hurt,      \* files with a name left uncounted by a death, or moved back over such a one
  faults,
  tangled    \* two calls at once have named one path, or one came into release()'s gap

disk == <<entry, object, record>>
ghost == <<truth, left, hurt, faults, tangled>>
vars == <<disk, lock, call, kernel, ghost>>

Record == [count : Nat, names : SUBSET Name]

Op == {"unlink", "rename", "noreplace", "exchange"}

(* Where a supervisor stands in a call, and what the call works on.        *)
Places ==
  {"idle", "new_link", "new_record", "new_move", "new_old", "undo_move", "undo_record",
   "undo_new", "ex_link", "ex_record", "unlink", "release", "rel_move", "rel_record",
   "moved", "moved_back"}

Call ==
  [at : Places, old : Name \cup {None}, new : Name \cup {None}, id : Id \cup {None},
   pick : Name \cup {None}, fixup : BOOLEAN]

(* A rename or unlink in the kernel, with the ids read when it was entered. *)
KernelCall ==
  [op : Op, from : Name, to : Name, src : Id \cup {None}, dst : Id \cup {None},
   done : BOOLEAN]

ASSUME NoneAssumption == None \notin Record /\ None \notin KernelCall

Idle == [at |-> "idle", old |-> None, new |-> None, id |-> None,
         pick |-> None, fixup |-> FALSE]

(* Type correctness of the store and of the calls in progress.             *)
TypeOK ==
  /\ entry \in [Name -> File \cup Id \cup {None}]
  /\ object \in [Id -> File \cup Id \cup {None}]
  /\ record \in [Id -> Record \cup {None}]
  /\ lock \in Session \cup {None}
  /\ call \in [Session -> Call]
  /\ kernel \in [Session -> {None} \cup KernelCall]
  /\ truth \in [Name -> File \cup {None}]
  /\ left \subseteq Id
  /\ hurt \subseteq File
  /\ faults \in 0..kFaults
  /\ tangled \in BOOLEAN

Init ==
  /\ entry = [n \in Name |-> None]
  /\ object = [i \in Id |-> None]
  /\ record = [i \in Id |-> None]
  /\ lock = None
  /\ call = [s \in Session |-> Idle]
  /\ kernel = [s \in Session |-> None]
  /\ truth = [n \in Name |-> None]
  /\ left = {}
  /\ hurt = {}
  /\ faults = 0
  /\ tangled = FALSE

-----------------------------------------------------------------------------
(* entry_id(): the id a name carries, if it is an emulated link.           *)
entry_id(n) == IF entry[n] \in Id THEN entry[n] ELSE None

(* The file a name leads to: a link whose object is missing leads nowhere. *)
Resolve(n) ==
  CASE entry[n] \in File -> entry[n]
    [] entry[n] \in Id /\ object[entry[n]] \in File -> object[entry[n]]
    [] OTHER -> None

Links(i) == {n \in Name : entry[n] = i}

InCall(s) == {call[s].old, call[s].new} \cap Name

InKernel(s) ==
  IF kernel[s] = None THEN {} ELSE {kernel[s].from, kernel[s].to}

Busy == UNION {InCall(s) \cup InKernel(s) : s \in Session}

InWork(i) ==
  \E s \in Session :
    \/ call[s].id = i
    \/ kernel[s] # None /\ i \in {kernel[s].src, kernel[s].dst}

(* A call on these names starts: does another one use one of them?         *)
Meets(names) == tangled' = (tangled \/ names \cap Busy # {})

(* release() has looked at n and is about to replace it.                   *)
Pinned(n) == \E s \in Session : call[s].at = "rel_move" /\ call[s].pick = n

(* These names change: does that fall between such a look and its rename?  *)
Disturbs(names) == tangled' = (tangled \/ \E n \in names : Pinned(n))

(* random_id(): 128 random bits, so never one that is in use.              *)
random_id(i) ==
  /\ object[i] = None /\ record[i] = None /\ Links(i) = {} /\ ~InWork(i)
  /\ i \notin left

read_record(i) == record[i]

(* present_stat(): the link count the guest is shown for an object; without *)
(* a record the host's own.                                                 *)
present_stat(i) == IF read_record(i) = None THEN 1 ELSE read_record(i).count

(* write_record() drops the names it cannot hold.                          *)
Written(count, names) == [count |-> count, names |-> names \ Long]

At(s, where) == call[s].at = where

Goto(s, where) == call' = [call EXCEPT ![s].at = where]

(* A call starts; fixup: it is the fixup of a rename.                      *)
Begin(s, where, old, new, i, fixup) ==
  call' = [call EXCEPT ![s] = [at |-> where, old |-> old, new |-> new, id |-> i,
                               pick |-> None, fixup |-> fixup]]

(* release() tries to move the file back to n.                             *)
Try(s, n) == call' = [call EXCEPT ![s] = [@ EXCEPT !.at = "rel_move", !.pick = n]]

Return(s) == call' = [call EXCEPT ![s] = Idle]

Unlock(s) == lock' = IF lock = s THEN None ELSE lock

Fault == faults < kFaults /\ faults' = faults + 1

-----------------------------------------------------------------------------
(* The guest creates a file (open with O_CREAT, outside this module).      *)
Create(n, f) ==
  /\ entry[n] = None /\ Meets({n})
  /\ f \notin hurt
  /\ \A m \in Name : entry[m] # f /\ truth[m] # f
  /\ \A i \in Id : object[i] # f
  /\ entry' = [entry EXCEPT ![n] = f]
  /\ truth' = [truth EXCEPT ![n] = f]
  /\ UNCHANGED <<object, record, lock, call, kernel, left, hurt, faults>>

(* link_like(): an emulated link gets another name, any other file a first *)
(* second one.                                                             *)
LinkBegin(s, old, new) ==
  /\ At(s, "idle") /\ Meets({old, new})
  /\ entry[old] # None /\ entry[new] = None
  /\ \/ /\ entry_id(old) # None
        /\ Begin(s, "ex_link", old, new, entry_id(old), FALSE)
     \/ /\ entry_id(old) = None
        /\ \E i \in Id : random_id(i) /\ Begin(s, "new_link", old, new, i, FALSE)
  /\ UNCHANGED <<disk, lock, kernel, truth, left, hurt, faults>>

(* link_new(), the new name first; then mkdir of the store, which can fail. *)
NewLink(s) ==
  /\ At(s, "new_link")
  /\ \/ Return(s) /\ UNCHANGED entry
     \/ /\ entry[call[s].new] = None
        /\ entry' = [entry EXCEPT ![call[s].new] = call[s].id]
        /\ \E made \in BOOLEAN : Goto(s, IF made THEN "new_record" ELSE "undo_new")
  /\ UNCHANGED <<object, record, lock, kernel, ghost>>

NewRecord(s) ==
  /\ At(s, "new_record") /\ lock = None
  /\ lock' = s
  /\ \/ Goto(s, "undo_new") /\ UNCHANGED record
     \/ /\ record' = [record EXCEPT ![call[s].id] = Written(2, {call[s].old, call[s].new})]
        /\ Goto(s, "new_move")
  /\ UNCHANGED <<entry, object, kernel, ghost>>

(* The old name's file moves into the store.                               *)
NewMove(s) ==
  /\ At(s, "new_move")
  /\ \/ Goto(s, "undo_record") /\ UNCHANGED <<entry, object>>
     \/ /\ entry[call[s].old] # None
        /\ object' = [object EXCEPT ![call[s].id] = entry[call[s].old]]
        /\ entry' = [entry EXCEPT ![call[s].old] = None]
        /\ Goto(s, "new_old")
  /\ UNCHANGED <<record, lock, kernel, ghost>>

(* The old name becomes a link too: link(2) has succeeded.                 *)
NewOld(s) ==
  /\ At(s, "new_old")
  /\ \/ Goto(s, "undo_move") /\ UNCHANGED <<entry, lock, truth>>
     \/ /\ entry[call[s].old] = None
        /\ entry' = [entry EXCEPT ![call[s].old] = call[s].id]
        /\ truth' = [truth EXCEPT ![call[s].new] = truth[call[s].old]]
        /\ Unlock(s)
        /\ Return(s)
  /\ UNCHANGED <<object, record, kernel, left, hurt, faults, tangled>>

(* Mutant: the file stays in the store.                                    *)
UndoMoveNot(s) ==
  /\ At(s, "undo_move")
  /\ Goto(s, "undo_record")
  /\ UNCHANGED <<disk, lock, kernel, ghost>>

UndoMove(s) ==
  /\ At(s, "undo_move")
  /\ entry' = [entry EXCEPT ![call[s].old] = object[call[s].id]]
  /\ object' = [object EXCEPT ![call[s].id] = None]
  /\ Goto(s, "undo_record")
  /\ UNCHANGED <<record, lock, kernel, ghost>>

(* Mutant: the record stays behind.                                        *)
UndoRecordNot(s) ==
  /\ At(s, "undo_record")
  /\ Goto(s, "undo_new")
  /\ UNCHANGED <<disk, lock, kernel, ghost>>

UndoRecord(s) ==
  /\ At(s, "undo_record")
  /\ record' = [record EXCEPT ![call[s].id] = None]
  /\ Goto(s, "undo_new")
  /\ UNCHANGED <<entry, object, lock, kernel, ghost>>

UndoNew(s) ==
  /\ At(s, "undo_new")
  /\ entry' = [entry EXCEPT ![call[s].new] = None]
  /\ Unlock(s)
  /\ Return(s)
  /\ UNCHANGED <<object, record, kernel, ghost>>

(* link_existing(): the name, if the object is there.                      *)
ExLink(s) ==
  /\ At(s, "ex_link")
  /\ \/ Return(s) /\ UNCHANGED entry
     \/ /\ object[call[s].id] # None /\ entry[call[s].new] = None
        /\ entry' = [entry EXCEPT ![call[s].new] = call[s].id]
        /\ Goto(s, "ex_record")
  /\ UNCHANGED <<object, record, lock, kernel, ghost>>

(* Under the lock: the object is still there, and the name is counted; or  *)
(* the name goes again.                                                    *)
ExRecord(s) ==
  LET i == call[s].id
      rec == IF read_record(i) = None THEN [count |-> 1, names |-> {}]
             ELSE read_record(i)
  IN
  /\ At(s, "ex_record") /\ lock = None
  /\ \/ /\ entry' = [entry EXCEPT ![call[s].new] = None]
        /\ UNCHANGED <<record, truth>>
     \/ /\ object[i] # None
        /\ record' = [record EXCEPT ![i] =
                        Written(rec.count + 1, rec.names \cup {call[s].new})]
        /\ truth' = [truth EXCEPT ![call[s].new] = truth[call[s].old]]
        /\ UNCHANGED entry
  /\ Return(s)
  /\ UNCHANGED <<object, lock, kernel, left, hurt, faults, tangled>>

-----------------------------------------------------------------------------
(* unlink_like(): an emulated link is removed here, any other name by the  *)
(* kernel.                                                                 *)
UnlinkBegin(s, n) ==
  /\ At(s, "idle") /\ Meets({n})
  /\ entry[n] # None
  /\ \/ /\ entry_id(n) # None
        /\ Begin(s, "unlink", None, n, entry_id(n), FALSE)
        /\ UNCHANGED kernel
     \/ /\ entry_id(n) = None /\ kernel[s] = None
        /\ kernel' = [kernel EXCEPT ![s] = [op |-> "unlink", from |-> n, to |-> n,
                                            src |-> None, dst |-> None, done |-> FALSE]]
        /\ UNCHANGED call
  /\ UNCHANGED <<disk, lock, truth, left, hurt, faults>>

unlink_name(s) ==
  /\ At(s, "unlink")
  /\ \/ Return(s) /\ UNCHANGED <<entry, truth, tangled>>
     \/ /\ entry[call[s].new] # None
        /\ entry' = [entry EXCEPT ![call[s].new] = None]
        /\ truth' = [truth EXCEPT ![call[s].new] = None]
        /\ Disturbs({call[s].new})
        /\ Goto(s, "release")
  /\ UNCHANGED <<object, record, lock, kernel, left, hurt, faults>>

(* After release(): a rename's fixup goes on to name_moved().              *)
Released(s) == IF call[s].fixup THEN Goto(s, "moved") ELSE Return(s)

(* The record less one name is written; a failure is ignored.              *)
ReleaseWrite(s, rec) ==
  /\ \/ record' = [record EXCEPT ![call[s].id] = rec] /\ UNCHANGED <<left, faults>>
     \/ Fault /\ left' = left \cup {call[s].id} /\ UNCHANGED record
  /\ lock' = None
  /\ Released(s)

(* Mutant: an object without names stays, counted zero.                    *)
NeverNameless(rec) == FALSE

Nameless(rec) == rec.count = 0

(* The record once a name is gone.                                         *)
Less(rec, gone) == Written(rec.count - 1, rec.names \ {gone})

(* release(), up to its first change: without a record nothing is done; at *)
(* zero names the object goes; at one the file goes back to the name that  *)
(* still links to it, if the record knows it.                              *)
release(s) ==
  LET i == call[s].id
      rec == read_record(i)
      rest == Less(rec, call[s].new)
      known == {n \in rest.names : entry_id(n) = i}
  IN
  /\ At(s, "release") /\ lock = None
  /\ \/ rec = None /\ Released(s) /\ UNCHANGED <<disk, lock, left, faults>>
     \/ /\ rec # None /\ Nameless(rest)
        /\ object' = [object EXCEPT ![i] = None]
        /\ lock' = s
        /\ Goto(s, "rel_record")
        /\ UNCHANGED <<entry, record, left, faults>>
     \/ /\ rec # None /\ rest.count = 1
        /\ \E n \in known : Try(s, n)
        /\ lock' = s
        /\ UNCHANGED <<disk, left, faults>>
     \/ /\ rec # None /\ ~Nameless(rest)
        /\ rest.count = 1 => known = {}
        /\ ReleaseWrite(s, rest)
        /\ UNCHANGED <<entry, object>>
  /\ UNCHANGED <<kernel, truth, hurt, tangled>>

(* Another session has made the link n and still has to count it.          *)
BeingLinked(n) == \E s \in Session : At(s, "ex_record") /\ call[s].new = n

(* The file moves back over the name; if it cannot, another name is tried, *)
(* and in the end the record is written.                                   *)
RelMove(s) ==
  LET i == call[s].id
      rest == Less(record[i], call[s].new)
  IN
  /\ At(s, "rel_move")
  /\ \/ /\ object[i] # None
        /\ entry' = [entry EXCEPT ![call[s].pick] = object[i]]
        /\ object' = [object EXCEPT ![i] = None]
        /\ hurt' = IF BeingLinked(call[s].pick) THEN hurt \cup ({object[i]} \cap File)
                   ELSE hurt
        /\ left' = IF BeingLinked(call[s].pick) THEN left \cup {i} ELSE left
        /\ Goto(s, "rel_record")
        /\ UNCHANGED <<record, lock, faults>>
     \/ /\ \E n \in rest.names \ {call[s].pick} :
             entry_id(n) = i /\ Try(s, n)
        /\ UNCHANGED <<disk, lock, left, hurt, faults>>
     \/ /\ ReleaseWrite(s, rest)
        /\ UNCHANGED <<entry, object, hurt>>
  /\ UNCHANGED <<kernel, truth, tangled>>

RelRecord(s) ==
  /\ At(s, "rel_record")
  /\ record' = [record EXCEPT ![call[s].id] = None]
  /\ lock' = None
  /\ Released(s)
  /\ UNCHANGED <<entry, object, kernel, ghost>>

-----------------------------------------------------------------------------
(* Mutant: two names of one file are renamed like any others.              *)
NeverOneFile(from, to) == FALSE

(* src == dst: two names of one file, which rename(2) leaves in place.     *)
OneFile(from, to) == entry_id(from) # None /\ entry_id(from) = entry_id(to)

(* rename_like(): the ids are read at entry, then the kernel renames.      *)
RenameBegin(s, from, to, op) ==
  /\ At(s, "idle") /\ kernel[s] = None /\ Meets({from, to})
  /\ entry[from] # None
  /\ ~OneFile(from, to)
  /\ kernel' = [kernel EXCEPT ![s] = [op |-> op, from |-> from, to |-> to,
                                      src |-> entry_id(from), dst |-> entry_id(to),
                                      done |-> FALSE]]
  /\ UNCHANGED <<disk, lock, call, truth, left, hurt, faults>>

Swapped(f, from, to) == [f EXCEPT ![from] = f[to], ![to] = f[from]]

(* A call that touched no emulated link needs no fixup.                    *)
Done(k) == IF {k.src, k.dst} = {None} THEN None ELSE [k EXCEPT !.done = TRUE]

(* The kernel's rename and unlink, and what they do to real hard links: a  *)
(* rename between two names of one file does nothing.                      *)
KernelActs(s) ==
  LET k == kernel[s] IN
  /\ k # None /\ ~k.done
  /\ entry[k.from] # None
  /\ Disturbs({k.from, k.to})
  /\ CASE k.op = "exchange" ->
            /\ entry[k.to] # None
            /\ entry' = Swapped(entry, k.from, k.to)
            /\ truth' = Swapped(truth, k.from, k.to)
       [] k.op = "unlink" ->
            /\ entry' = [entry EXCEPT ![k.from] = None]
            /\ truth' = [truth EXCEPT ![k.from] = None]
       [] OTHER ->
            /\ k.op = "noreplace" => entry[k.to] = None
            /\ entry' = [entry EXCEPT ![k.to] = entry[k.from], ![k.from] = None]
            /\ truth' = IF truth[k.from] = truth[k.to] THEN truth
                        ELSE [truth EXCEPT ![k.to] = truth[k.from], ![k.from] = None]
  /\ kernel' = [kernel EXCEPT ![s] = Done(k)]
  /\ UNCHANGED <<object, record, lock, call, left, hurt, faults>>

KernelRefuses(s) ==
  /\ kernel[s] # None /\ ~kernel[s].done
  /\ kernel' = [kernel EXCEPT ![s] = None]
  /\ UNCHANGED <<disk, lock, call, ghost>>

(* Mutant: a name that was replaced stays counted.                         *)
NothingReplaced(k) == FALSE

(* The rename replaced an emulated link.                                   *)
Replaced(k) == k.op # "exchange" /\ k.dst # None

(* fixup_exit(), rename_links: a name that was replaced is dropped first.  *)
FixupBegin(s) ==
  LET k == kernel[s] IN
  /\ At(s, "idle") /\ k # None /\ k.done
  /\ IF Replaced(k) THEN Begin(s, "release", None, k.to, k.dst, TRUE)
                     ELSE Begin(s, "moved", None, None, None, TRUE)
  /\ UNCHANGED <<disk, lock, kernel, ghost>>

(* name_moved(): the record's list follows; a failed write is ignored.     *)
name_moved(i, from, to) ==
  \/ (i # None => record[i] = None) /\ UNCHANGED <<record, faults>>
  \/ /\ i # None /\ record[i] # None
     /\ \/ /\ record' = [record EXCEPT ![i] =
                           Written(@.count, (@.names \ {from}) \cup {to})]
           /\ UNCHANGED faults
        \/ Fault /\ UNCHANGED record

Moved(s) ==
  LET k == kernel[s] IN
  /\ At(s, "moved") /\ lock = None
  /\ name_moved(k.src, k.from, k.to)
  /\ IF k.op = "exchange"
     THEN Goto(s, "moved_back") /\ UNCHANGED kernel
     ELSE Return(s) /\ kernel' = [kernel EXCEPT ![s] = None]
  /\ UNCHANGED <<entry, object, lock, truth, left, hurt, tangled>>

MovedBack(s) ==
  LET k == kernel[s] IN
  /\ At(s, "moved_back") /\ lock = None
  /\ name_moved(k.dst, k.to, k.from)
  /\ Return(s) /\ kernel' = [kernel EXCEPT ![s] = None]
  /\ UNCHANGED <<entry, object, lock, truth, left, hurt, tangled>>

-----------------------------------------------------------------------------
(* The session's process dies, and its guest with it; its call is cut off. *)
(* The names of that call are what they are now: link(2) is not promised   *)
(* to be atomic across a death.                                            *)
Crash(s) ==
  LET c == call[s]
      k == kernel[s]
      fixing == IF k # None /\ k.done THEN {k.src, k.dst} ELSE {}
  IN
  /\ c # Idle \/ k # None
  /\ Fault
  /\ call' = [call EXCEPT ![s] = Idle]
  /\ kernel' = [kernel EXCEPT ![s] = None]
  /\ Unlock(s)
  /\ left' = left \cup (({c.id} \cup fixing) \cap Id)
  /\ hurt' = IF c.at = "ex_record" THEN hurt \cup ({object[c.id]} \cap File) ELSE hurt
  /\ truth' = [n \in Name |-> IF n \in {c.old, c.new} THEN Resolve(n) ELSE truth[n]]
  /\ UNCHANGED <<disk, tangled>>

SupervisorStep(s) ==
  \/ \E old, new \in Name : old # new /\ LinkBegin(s, old, new)
  \/ NewLink(s) \/ NewRecord(s) \/ NewMove(s) \/ NewOld(s)
  \/ UndoMove(s) \/ UndoRecord(s) \/ UndoNew(s)
  \/ ExLink(s) \/ ExRecord(s)
  \/ \E n \in Name : UnlinkBegin(s, n)
  \/ unlink_name(s) \/ release(s) \/ RelMove(s) \/ RelRecord(s)
  \/ \E from, to \in Name, op \in Op \ {"unlink"} :
       from # to /\ RenameBegin(s, from, to, op)
  \/ FixupBegin(s) \/ Moved(s) \/ MovedBack(s)

Next ==
  \/ \E n \in Name, f \in File : Create(n, f)
  \/ \E s \in Session : SupervisorStep(s)
  \/ \E s \in Session : KernelActs(s) \/ KernelRefuses(s)
  \/ \E s \in Session : Crash(s)

Spec == Init /\ [][Next]_vars

-----------------------------------------------------------------------------
(* Nothing below is promised once two calls at the same time have named    *)
(* one path, or a name has changed between release()'s look at it and its  *)
(* rename: the handlers read an id, the kernel or another session acts,    *)
(* and nothing is read again (syscall_handlers.cpp:1477).  link_store.hpp  *)
(* makes no such exception; a record is then wrong for good.               *)

(* As long as no two calls have met at a path: a name no call is using     *)
(* leads to the file it would have with real hard links, whatever link,    *)
(* unlink, rename, failed step or death came before, unless a dead session *)
(* left one of the file's names uncounted.                                 *)
NamesKept ==
  ~tangled =>
    \A n \in Name \ Busy :
      Resolve(n) = truth[n] \/ {Resolve(n), truth[n]} \cap hurt # {}

(* As long as no two calls have met at a path: some name leads to every    *)
(* file that has one, between any two steps, so a session that dies there  *)
(* loses no file (it may lose a name).                                     *)
FilesReachable ==
  ~tangled =>
    \A n \in Name :
      truth[n] \in File \ hurt => \E m \in Name : Resolve(m) = truth[n]

(* link_store.hpp: the supervisor presents the count as st_nlink and       *)
(* "keeps it current through link, unlink and rename".  That is so as long *)
(* as no two calls have met at a path, and only then: a file that no call  *)
(* works on has as many links as its record says; after an ignored failure *)
(* or a death it never has more, so it is not removed too early.           *)
CountsCurrent ==
  ~tangled =>
    \A i \in Id :
      object[i] \in File \ hurt /\ ~InWork(i) =>
        /\ record[i] # None
        /\ present_stat(i) >= Cardinality(Links(i))
        /\ i \in left \/ present_stat(i) = Cardinality(Links(i))

(* link_store.hpp: "a refused link leaves no trace", and links that are    *)
(* given up "leave nothing behind": as long as no two calls have met at a  *)
(* path, an id without an object has no link and no record.                *)
NoTrace ==
  ~tangled =>
    \A i \in Id \ left :
      object[i] = None /\ ~InWork(i) => record[i] = None /\ Links(i) = {}

(* link_store.hpp: "every step that can fail is undone before the errno is *)
(* reported, so a refused link leaves no trace".  Undoing link_existing()  *)
(* takes away the link it made, never a file; here of calls that never met *)
(* at a path.                                                              *)
UndoRemovesNoFile ==
  [][~tangled =>
       \A s \in Session :
         At(s, "ex_record") /\ At(s, "idle")' =>
           \A n \in Name : entry[n] \in File => entry'[n] = entry[n]]_vars
=============================================================================
