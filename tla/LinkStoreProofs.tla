--------------------------- MODULE LinkStoreProofs ---------------------------
(***************************************************************************)
(* Proofs about LinkStore, for any sessions, files and ids and any finite  *)
(* set of names: NamesKept, FilesReachable, CountsCurrent and NoTrace.     *)
(* They are promised until two calls meet at a path, so the invariant is   *)
(* ~tangled => Inv: what a call read still holds when it acts, because     *)
(* nobody else has named its paths since.                                  *)
(*                                                                         *)
(* The heart is CountInv: the count of a record is the number of names     *)
(* that hold the object (Held), and a name holds it from the moment        *)
(* link(2) counts it until release() has taken it off again, so also while *)
(* it is no link any more.  What release() does at zero and at one name is *)
(* right because of it: nobody else holds the object.                      *)
(***************************************************************************)
EXTENDS LinkStore, FiniteSetTheorems, TLAPS

(* Points of link_new() after its link is made, while no other session can *)
(* know the id; and the ones where the file is in the store.               *)
Named == {"new_record", "undo_new", "new_move", "undo_record"}

Stored == {"new_old", "undo_move"}

Making == {"new_link"} \cup Named \cup Stored

Releasing == {"release", "rel_move"}

Holding == {"new_move", "undo_record", "rel_move", "rel_record"} \cup Stored

(* Session s has a call that names n, in its supervisor or in the kernel.   *)
InCallOf(c, n) == n = c.old \/ n = c.new

InKernelOf(k, n) == k # None /\ (n = k.from \/ n = k.to)

Uses(s, n) == InCallOf(call[s], n) \/ InKernelOf(kernel[s], n)

-----------------------------------------------------------------------------
LockInv == \A s \in Session : call[s].at \in Holding => lock = s

(* Calls in progress name different paths; a rename's fixup only its own.  *)
BusyInv ==
  \A n \in Name, s \in Session :
    /\ \A t \in Session : Uses(s, n) /\ Uses(t, n) => s = t
    /\ ~call[s].fixup => ~(InCallOf(call[s], n) /\ InKernelOf(kernel[s], n))

CallShape(c, k) ==
  /\ c.at = "idle" => c.old = None /\ c.new = None /\ c.id = None /\ ~c.fixup
  /\ c.at \in Making \cup {"ex_link", "ex_record"} =>
       c.old \in Name /\ c.new \in Name /\ c.old # c.new /\ c.id \in Id /\ ~c.fixup
  /\ c.at \in {"unlink", "rel_record", "moved", "moved_back"} \cup Releasing => c.old = None
  /\ c.at \in {"unlink", "rel_record"} \cup Releasing => c.new \in Name /\ c.id \in Id
  /\ c.at = "unlink" => ~c.fixup
  /\ c.at \in {"moved", "moved_back"} => c.fixup
  /\ c.fixup => /\ k # None /\ k.done
                /\ c.new \in {k.to, None} /\ c.id \in {k.dst, None}
                /\ c.at \in Releasing \cup {"rel_record", "moved", "moved_back"}
  /\ c.at \in Releasing \cup {"rel_record"} /\ c.fixup => Replaced(k)

KernelShape(k) ==
  k # None =>
    /\ k.op = "unlink" => k.from = k.to /\ k.src = None /\ k.dst = None /\ ~k.done
    /\ k.op # "unlink" => k.from # k.to
    /\ k.src = k.dst => k.src = None

ShapeInv == \A s \in Session : CallShape(call[s], kernel[s]) /\ KernelShape(kernel[s])

(* A new id is its session's own until link_new() is done.                 *)
OwnInv ==
  \A s, t \in Session : call[s].at \in Making =>
    /\ s # t => call[t].id # call[s].id
    /\ kernel[t] # None => call[s].id \notin {kernel[t].src, kernel[t].dst}

(* link_new(), step by step.                                               *)
NewInv ==
  \A s \in Session :
    LET c == call[s] IN
    /\ c.at = "new_link" => entry[c.new] = None /\ \A n \in Name : entry[n] # c.id
    /\ c.at \in Named \cup Stored => \A n \in Name : entry[n] = c.id <=> n = c.new
    /\ c.at \in {"new_link"} \cup Named => entry[c.old] \in File /\ object[c.id] = None
    /\ c.at \in {"new_link", "new_record", "undo_new"} => record[c.id] = None
    /\ c.at \in {"new_move", "undo_record"} \cup Stored =>
         record[c.id] # None /\ record[c.id].count = 2
    /\ c.at \in Stored => entry[c.old] = None /\ object[c.id] \in File

(* A link that a call read the id of is still there as long as the object  *)
(* is; only release() turns it into the file.                              *)
SeenInv ==
  \A s \in Session :
    LET c == call[s] IN
    /\ c.at = "ex_link" => entry[c.new] = None
    /\ c.at \in {"ex_link", "ex_record"} => entry[c.old] = c.id \/ object[c.id] = None
    /\ c.at = "ex_record" =>
         entry[c.new] = c.id \/ (object[c.id] = None /\ entry[c.new] \in File \cap hurt)
    /\ c.at = "unlink" => entry[c.new] = c.id \/ (object[c.id] = None /\ entry[c.new] \notin Id)
    /\ c.at \in Releasing => entry[c.new] # c.id
    /\ c.at = "rel_move" =>
         c.pick \in Name /\ entry[c.pick] = c.id /\ record[c.id] # None /\ record[c.id].count = 2
    /\ c.at = "rel_record" => object[c.id] = None

KernelInv ==
  \A s \in Session :
    LET k == kernel[s] IN
    k # None =>
      /\ ~k.done /\ entry[k.from] \in Id => entry[k.from] = k.src
      /\ ~k.done /\ entry[k.to] \in Id => entry[k.to] = k.dst
      /\ ~k.done /\ k.src # None => entry[k.from] = k.src \/ object[k.src] = None
      /\ ~k.done /\ k.dst # None => entry[k.to] = k.dst \/ object[k.dst] = None
      /\ k.done /\ Replaced(k) => entry[k.to] # k.dst

(* A file is in one place.                                                 *)
PlaceInv ==
  /\ \A i \in Id : object[i] \notin Id
  /\ \A n, m \in Name : entry[n] \in File /\ entry[n] = entry[m] => n = m
  /\ \A n \in Name, i \in Id : object[i] \in File => entry[n] # object[i]
  /\ \A i, j \in Id : object[i] \in File /\ object[i] = object[j] => i = j

(* Session s still owes the record of i the name n.                        *)
Owes(s, i, n) ==
  \/ call[s].at \in Releasing /\ call[s].id = i /\ call[s].new = n
  \/ call[s].at \in Stored /\ call[s].id = i /\ call[s].old = n
  \/ /\ kernel[s] # None /\ kernel[s].done /\ Replaced(kernel[s]) /\ ~call[s].fixup
     /\ kernel[s].dst = i /\ kernel[s].to = n

(* The name n is counted in the record of i.                               *)
Holds(n, i) ==
  \/ entry[n] = i /\ ~BeingLinked(n)
  \/ \E s \in Session : Owes(s, i, n)

Held(i) == {n \in Name : Holds(n, i)}

Counted(i) ==
  /\ record[i] # None => record[i].count > 0
  /\ object[i] \in File /\ (i \notin left \/ object[i] \notin hurt) =>
       /\ record[i] # None
       /\ record[i].count >= Cardinality(Held(i))
       /\ i \in left \/ record[i].count = Cardinality(Held(i))

CountInv == \A i \in Id : Counted(i)

(* Somebody is at work on what is left of the object i.                    *)
Traced(i) ==
  /\ record[i] # None =>
       \E s \in Session :
         call[s].id = i /\ call[s].at \in {"new_move", "undo_record", "rel_record"}
  /\ \A n \in Name : entry[n] = i =>
       \E s \in Session :
         call[s].id = i /\ call[s].new = n /\ call[s].at \in Named \cup {"ex_record"}

TraceInv == \A i \in Id \ left : object[i] = None => Traced(i)

(* What real hard links would show, also at the names of calls in progress. *)
Unborn(n) ==
  \E s \in Session : call[s].new = n /\ call[s].at \in {"ex_record"} \cup Stored

Away(n) == \E s \in Session : call[s].old = n /\ call[s].at \in Stored

Shown(n) == Resolve(n) = truth[n] \/ truth[n] \in hurt

UnbornInv == \A n \in Name : Unborn(n) => truth[n] \in {None} \cup hurt

StoredInv ==
  \A s \in Session : call[s].at \in Stored =>
    truth[call[s].old] = object[call[s].id] \/ truth[call[s].old] \in hurt

ShownInv == \A n \in Name : ~Unborn(n) /\ ~Away(n) => Shown(n)

TruthInv == UnbornInv /\ StoredInv /\ ShownInv

Inv ==
  /\ TypeOK /\ LockInv /\ BusyInv /\ ShapeInv /\ OwnInv
  /\ NewInv /\ SeenInv /\ KernelInv /\ PlaceInv
  /\ CountInv /\ TraceInv /\ TruthInv

-----------------------------------------------------------------------------
(* The call of s after a step, field by field; nobody else's changes.      *)
CallTo(s, at, old, new, id, pick, fixup) ==
  /\ call' \in [Session -> Call]
  /\ \A t \in Session \ {s} : call'[t] = call[t]
  /\ call'[s].at = at /\ call'[s].old = old /\ call'[s].new = new
  /\ call'[s].id = id /\ call'[s].pick = pick /\ call'[s].fixup = fixup

(* TypeOK, with the fields of calls and records spelled out.               *)
LEMMA Types ==
  ASSUME TypeOK
  PROVE  /\ entry \in [Name -> File \cup Id \cup {None}]
         /\ object \in [Id -> File \cup Id \cup {None}]
         /\ record \in [Id -> Record \cup {None}]
         /\ \A i \in Id : record[i] # None =>
              record[i] \in Record /\ record[i].count \in Nat /\ record[i].names \subseteq Name
         /\ lock \in Session \cup {None}
         /\ call \in [Session -> Call]
         /\ \A s \in Session :
              /\ call[s].at \in Places
              /\ call[s].old \in Name \cup {None} /\ call[s].new \in Name \cup {None}
              /\ call[s].id \in Id \cup {None} /\ call[s].pick \in Name \cup {None}
              /\ call[s].fixup \in BOOLEAN
         /\ kernel \in [Session -> {None} \cup KernelCall]
         /\ \A s \in Session : kernel[s] # None =>
              /\ kernel[s] \in KernelCall
              /\ kernel[s].op \in Op /\ kernel[s].from \in Name /\ kernel[s].to \in Name
              /\ kernel[s].src \in Id \cup {None} /\ kernel[s].dst \in Id \cup {None}
              /\ kernel[s].done \in BOOLEAN
         /\ truth \in [Name -> File \cup {None}]
         /\ left \subseteq Id /\ hurt \subseteq File /\ faults \in 0..kFaults
PROOF
  <1>1. \A i \in Id : record[i] # None =>
          record[i] \in Record /\ record[i].count \in Nat /\ record[i].names \subseteq Name
    BY DEF TypeOK, Record
  <1>2. \A c \in Call : /\ c.at \in Places
                       /\ c.old \in Name \cup {None} /\ c.new \in Name \cup {None}
                       /\ c.id \in Id \cup {None} /\ c.pick \in Name \cup {None}
                       /\ c.fixup \in BOOLEAN
    BY DEF Call
  <1>3. \A k \in KernelCall : /\ k.op \in Op /\ k.from \in Name /\ k.to \in Name
                             /\ k.src \in Id \cup {None} /\ k.dst \in Id \cup {None}
                             /\ k.done \in BOOLEAN
    BY DEF KernelCall
  <1> QED
    BY <1>1, <1>2, <1>3 DEF TypeOK

Goes(s, at) ==
  CallTo(s, at, call[s].old, call[s].new, call[s].id, call[s].pick, call[s].fixup)

Ends(s) == CallTo(s, "idle", None, None, None, None, FALSE)

(* A call set as a whole, or by the model's operators, has these fields.   *)
LEMMA CallSet ==
  ASSUME TypeOK, NEW s \in Session,
         NEW at \in Places, NEW old \in Name \cup {None}, NEW new \in Name \cup {None},
         NEW id \in Id \cup {None}, NEW pick \in Name \cup {None}, NEW fixup \in BOOLEAN,
         call' = [call EXCEPT ![s] = [at |-> at, old |-> old, new |-> new, id |-> id,
                                      pick |-> pick, fixup |-> fixup]]
  PROVE  CallTo(s, at, old, new, id, pick, fixup)
PROOF
  <1> DEFINE c == [at |-> at, old |-> old, new |-> new, id |-> id,
                   pick |-> pick, fixup |-> fixup]
  <1>1. c \in Call /\ call \in [Session -> Call]
    BY DEF Call, TypeOK
  <1>2. call' = [call EXCEPT ![s] = c]
    OBVIOUS
  <1>3. c.at = at /\ c.old = old /\ c.new = new /\ c.id = id /\ c.pick = pick /\ c.fixup = fixup
    OBVIOUS
  <1> HIDE DEF c
  <1> QED
    BY <1>1, <1>2, <1>3 DEF CallTo

LEMMA CallTry ==
  ASSUME TypeOK, NEW s \in Session, NEW n \in Name, Try(s, n)
  PROVE  CallTo(s, "rel_move", call[s].old, call[s].new, call[s].id, n, call[s].fixup)
PROOF
  <1> DEFINE c == call[s]
             d == [c EXCEPT !.at = "rel_move"]
  <1>1. c \in Call /\ call \in [Session -> Call]
    BY DEF TypeOK
  <1>2. /\ c.old \in Name \cup {None} /\ c.new \in Name \cup {None} /\ c.id \in Id \cup {None}
        /\ c.fixup \in BOOLEAN /\ n \in Name \cup {None} /\ "rel_move" \in Places
    BY Types DEF Places
  <1>3. call' = [call EXCEPT ![s] = [d EXCEPT !.pick = n]]
    BY <1>1 DEF Try
  <1>4. d = [at |-> "rel_move", old |-> c.old, new |-> c.new, id |-> c.id,
             pick |-> c.pick, fixup |-> c.fixup]
    BY <1>1 DEF Call
  <1> HIDE DEF d
  <1>5. [d EXCEPT !.pick = n] = [at |-> "rel_move", old |-> c.old, new |-> c.new,
                                 id |-> c.id, pick |-> n, fixup |-> c.fixup]
    BY <1>4
  <1>6. call' = [call EXCEPT ![s] = [at |-> "rel_move", old |-> c.old, new |-> c.new,
                                     id |-> c.id, pick |-> n, fixup |-> c.fixup]]
    BY <1>3, <1>5
  <1> QED
    BY <1>2, <1>6, CallSet, Zenon

LEMMA CallGoto ==
  ASSUME TypeOK, NEW s \in Session, NEW w \in Places, Goto(s, w)
  PROVE  CallTo(s, w, call[s].old, call[s].new, call[s].id, call[s].pick, call[s].fixup)
PROOF
  <1> DEFINE c == call[s]
  <1>1. c \in Call /\ call \in [Session -> Call]
    BY DEF TypeOK
  <1>2. [c EXCEPT !.at = w] = [at |-> w, old |-> c.old, new |-> c.new, id |-> c.id,
                               pick |-> c.pick, fixup |-> c.fixup]
    BY <1>1 DEF Call
  <1>3. call' = [call EXCEPT ![s] = [at |-> w, old |-> c.old, new |-> c.new, id |-> c.id,
                                     pick |-> c.pick, fixup |-> c.fixup]]
    BY <1>1, <1>2 DEF Goto
  <1>4. /\ c.old \in Name \cup {None} /\ c.new \in Name \cup {None} /\ c.id \in Id \cup {None}
        /\ c.pick \in Name \cup {None} /\ c.fixup \in BOOLEAN
    BY Types
  <1> QED
    BY <1>3, <1>4, CallSet, Zenon

LEMMA CallReturn ==
  ASSUME TypeOK, NEW s \in Session, Return(s)
  PROVE  CallTo(s, "idle", None, None, None, None, FALSE)
PROOF
  BY CallSet DEF Return, Idle, Places

LEMMA CallBegin ==
  ASSUME TypeOK, NEW s \in Session, NEW w \in Places,
         NEW old \in Name \cup {None}, NEW new \in Name \cup {None},
         NEW i \in Id \cup {None}, NEW fixup \in BOOLEAN, Begin(s, w, old, new, i, fixup)
  PROVE  CallTo(s, w, old, new, i, None, fixup)
PROOF
  BY CallSet DEF Begin

LEMMA CallMoves ==
  ASSUME TypeOK
  PROVE  /\ \A s \in Session, w \in Places : Goto(s, w) => Goes(s, w)
         /\ \A s \in Session : Return(s) => Ends(s)
PROOF
  BY CallGoto, CallReturn, Zenon DEF Goes, Ends

(* A rename that needs a fixup stays with its session, done.               *)
LEMMA KernelDone ==
  ASSUME NEW k \in KernelCall
  PROVE  /\ k.src = None /\ k.dst = None => Done(k) = None
         /\ ~(k.src = None /\ k.dst = None) =>
              /\ Done(k) # None /\ Done(k) \in KernelCall
              /\ Done(k).op = k.op /\ Done(k).from = k.from /\ Done(k).to = k.to
              /\ Done(k).src = k.src /\ Done(k).dst = k.dst /\ Done(k).done
PROOF
  <1> DEFINE d == [op |-> k.op, from |-> k.from, to |-> k.to,
                   src |-> k.src, dst |-> k.dst, done |-> TRUE]
  <1>2. [k EXCEPT !.done = TRUE] = d
    <2>1. ASSUME NEW b
          PROVE  [k EXCEPT !.done = b] = [op |-> k.op, from |-> k.from, to |-> k.to,
                                          src |-> k.src, dst |-> k.dst, done |-> b]
      BY DEF KernelCall
    <2> QED
      BY <2>1, Zenon
  <1>3. d \in KernelCall
    BY DEF KernelCall
  <1>4. ASSUME k.src = None, k.dst = None PROVE Done(k) = None
    BY <1>4 DEF Done
  <1>5. ASSUME ~(k.src = None /\ k.dst = None) PROVE Done(k) = d
    <2>1. {k.src, k.dst} # {None}
      BY <1>5
    <2> QED
      BY <1>2, <2>1 DEF Done
  <1>6. d.op = k.op /\ d.from = k.from /\ d.to = k.to /\ d.src = k.src /\ d.dst = k.dst /\ d.done
    OBVIOUS
  <1> HIDE DEF d
  <1> QED
    BY <1>3, <1>4, <1>5, <1>6, NoneAssumption

(* What write_record() leaves on disk.                                     *)
LEMMA WrittenIs ==
  ASSUME NEW c \in Nat, NEW N \in SUBSET Name
  PROVE  /\ Written(c, N) \in Record /\ Written(c, N) # None
         /\ Written(c, N).count = c /\ Written(c, N).names = N \ Long
PROOF
  <1>1. Written(c, N) \in Record
    BY DEF Written, Record
  <1> QED
    BY <1>1, NoneAssumption DEF Written


(***************************************************************************)
(* What each step of link_new() finds and changes.                         *)
(***************************************************************************)
Linking(s) ==
  /\ call[s].old \in Name /\ call[s].new \in Name /\ call[s].old # call[s].new
  /\ call[s].id \in Id /\ ~call[s].fixup

OnlyLink(i, new) == \A n \in Name : entry[n] = i <=> n = new

Unknown(i) ==
  \A t \in Session :
    call[t].id # i /\ (kernel[t] # None => i # kernel[t].src /\ i # kernel[t].dst)

(* What Inv says at each point of link_new().                              *)
LEMMA LinkingCalls ==
  ASSUME Inv, NEW s \in Session
  PROVE  /\ call[s].at \in Making \cup {"ex_link", "ex_record"} => Linking(s)
         /\ call[s].at = "new_link" =>
              /\ entry[call[s].new] = None /\ \A n \in Name : entry[n] # call[s].id
         /\ call[s].at \in Named \cup Stored => OnlyLink(call[s].id, call[s].new)
         /\ call[s].at \in {"new_link"} \cup Named =>
              entry[call[s].old] \in File /\ object[call[s].id] = None
         /\ call[s].at \in {"new_link", "new_record", "undo_new"} => record[call[s].id] = None
         /\ call[s].at \in {"new_move", "undo_record"} \cup Stored =>
              record[call[s].id] # None /\ record[call[s].id].count = 2
         /\ call[s].at \in Stored => entry[call[s].old] = None /\ object[call[s].id] \in File
         /\ call[s].at \in Holding => lock = s
PROOF
  BY DEF Inv, ShapeInv, CallShape, NewInv, LockInv, Linking, OnlyLink

(* A call that meets no other begins on names nobody uses.                 *)
LEMMA Apartness ==
  ASSUME ~tangled', NEW N \in SUBSET Name, Meets(N)
  PROVE  \A n \in N, t \in Session : ~Uses(t, n)
PROOF
  <1>1. N \cap Busy = {}
    BY DEF Meets
  <1> QED
    BY <1>1 DEF Busy, InCall, InKernel, Uses, InCallOf, InKernelOf

DoesCreate(n, f) ==
  /\ entry[n] = None /\ f \notin hurt
  /\ \A t \in Session : ~Uses(t, n)
  /\ \A m \in Name : entry[m] # f /\ truth[m] # f
  /\ \A i \in Id : object[i] # f
  /\ entry' = [entry EXCEPT ![n] = f]
  /\ truth' = [truth EXCEPT ![n] = f]
  /\ UNCHANGED <<object, record, lock, call, kernel, left, hurt, faults>>

LEMMA CreateDoes ==
  ASSUME ~tangled', NEW n \in Name, NEW f \in File, Create(n, f)
  PROVE  DoesCreate(n, f)
PROOF
  <1>1. \A t \in Session : ~Uses(t, n)
    BY Apartness DEF Create
  <1> QED
    BY <1>1 DEF DoesCreate, Create

DoesLinkBegin(s, old, new) ==
  /\ call[s].at = "idle" /\ call[s].id = None /\ ~call[s].fixup
  /\ \A t \in Session : ~Uses(t, old) /\ ~Uses(t, new)
  /\ entry[old] # None /\ entry[new] = None
  /\ \E i \in Id :
       \/ entry[old] = i /\ CallTo(s, "ex_link", old, new, i, None, FALSE)
       \/ /\ entry[old] \in File
          /\ object[i] = None /\ record[i] = None /\ i \notin left /\ Unknown(i)
          /\ \A n \in Name : entry[n] # i
          /\ CallTo(s, "new_link", old, new, i, None, FALSE)
  /\ UNCHANGED <<entry, object, record, lock, kernel, truth, left, hurt, faults>>

LEMMA LinkBeginDoes ==
  ASSUME Inv, ~tangled', NEW s \in Session, NEW old \in Name, NEW new \in Name,
         LinkBegin(s, old, new)
  PROVE  DoesLinkBegin(s, old, new)
PROOF
  <1> USE DEF DoesLinkBegin
  <1> USE LinkStoreAssumption
  <1>1. TypeOK
    BY DEF Inv
  <1>2. \A t \in Session : ~Uses(t, old) /\ ~Uses(t, new)
    BY Apartness DEF LinkBegin
  <1>3. call[s].at = "idle" /\ call[s].id = None /\ ~call[s].fixup
    BY DEF LinkBegin, At, Inv, ShapeInv, CallShape
  <1>4. ASSUME NEW i \in Id, NEW w \in {"ex_link", "new_link"}, Begin(s, w, old, new, i, FALSE)
        PROVE  CallTo(s, w, old, new, i, None, FALSE)
    BY <1>1, <1>4, CallBegin DEF Places
  <1>5. entry[old] \in File \cup Id \cup {None}
    BY <1>1, Types
  <1>6. ASSUME NEW i \in Id, random_id(i)
        PROVE  /\ object[i] = None /\ record[i] = None /\ i \notin left /\ Unknown(i)
               /\ \A n \in Name : entry[n] # i
    BY <1>6 DEF random_id, InWork, Links, Unknown
  <1>7. CASE entry[old] \in Id
    BY <1>2, <1>3, <1>4, <1>7 DEF LinkBegin, entry_id, disk, ghost
  <1>8. CASE entry[old] \notin Id
    BY <1>2, <1>3, <1>4, <1>5, <1>6, <1>8 DEF LinkBegin, entry_id, disk, ghost
  <1> QED
    BY <1>7, <1>8

DoesNewLink(s) ==
  LET c == call[s] IN
  /\ c.at = "new_link" /\ Linking(s)
  /\ entry[c.old] \in File /\ entry[c.new] = None /\ \A n \in Name : entry[n] # c.id
  /\ object[c.id] = None /\ record[c.id] = None
  /\ \/ Ends(s) /\ entry' = entry
     \/ /\ entry' = [entry EXCEPT ![c.new] = c.id]
        /\ Goes(s, "new_record") \/ Goes(s, "undo_new")
  /\ UNCHANGED <<object, record, lock, kernel, truth, left, hurt, faults>>

LEMMA NewLinkDoes ==
  ASSUME Inv, NEW s \in Session, NewLink(s)
  PROVE  DoesNewLink(s)
PROOF
  <1> USE DEF DoesNewLink
  <1>1. TypeOK
    BY DEF Inv
  <1> QED
    BY <1>1, CallMoves, LinkingCalls DEF NewLink, At, Places, Making, disk, ghost

DoesNewRecord(s) ==
  LET c == call[s] IN
  /\ c.at = "new_record" /\ Linking(s) /\ OnlyLink(c.id, c.new)
  /\ entry[c.old] \in File /\ object[c.id] = None /\ record[c.id] = None
  /\ lock = None /\ lock' = s
  /\ \/ Goes(s, "undo_new") /\ record' = record
     \/ /\ Goes(s, "new_move")
        /\ \E r \in Record : r # None /\ r.count = 2 /\ record' = [record EXCEPT ![c.id] = r]
  /\ UNCHANGED <<entry, object, kernel, truth, left, hurt, faults>>

LEMMA NewRecordDoes ==
  ASSUME Inv, NEW s \in Session, NewRecord(s)
  PROVE  DoesNewRecord(s)
PROOF
  <1> USE DEF DoesNewRecord
  <1>1. TypeOK
    BY DEF Inv
  <1>2. ASSUME Linking(s)
        PROVE  LET r == Written(2, {call[s].old, call[s].new}) IN
               r \in Record /\ r # None /\ r.count = 2
    BY <1>2, WrittenIs DEF Linking
  <1> QED
    BY <1>1, <1>2, CallMoves, LinkingCalls DEF NewRecord, At, Places, Making, Named, disk, ghost

DoesNewMove(s) ==
  LET c == call[s] IN
  /\ c.at = "new_move" /\ Linking(s) /\ OnlyLink(c.id, c.new)
  /\ entry[c.old] \in File /\ object[c.id] = None
  /\ record[c.id] # None /\ record[c.id].count = 2 /\ lock = s
  /\ \/ Goes(s, "undo_record") /\ entry' = entry /\ object' = object
     \/ /\ Goes(s, "new_old")
        /\ object' = [object EXCEPT ![c.id] = entry[c.old]]
        /\ entry' = [entry EXCEPT ![c.old] = None]
  /\ UNCHANGED <<record, lock, kernel, truth, left, hurt, faults>>

LEMMA NewMoveDoes ==
  ASSUME Inv, NEW s \in Session, NewMove(s)
  PROVE  DoesNewMove(s)
PROOF
  <1> USE DEF DoesNewMove
  <1>1. TypeOK
    BY DEF Inv
  <1> QED
    BY <1>1, CallMoves, LinkingCalls DEF NewMove, At, Places, Making, Named, Holding, disk, ghost

DoesNewOld(s) ==
  LET c == call[s] IN
  /\ c.at = "new_old" /\ Linking(s) /\ OnlyLink(c.id, c.new)
  /\ entry[c.old] = None /\ object[c.id] \in File
  /\ record[c.id] # None /\ record[c.id].count = 2 /\ lock = s
  /\ \/ Goes(s, "undo_move") /\ UNCHANGED <<entry, lock, truth>>
     \/ /\ Ends(s)
        /\ entry' = [entry EXCEPT ![c.old] = c.id]
        /\ truth' = [truth EXCEPT ![c.new] = truth[c.old]]
        /\ lock' = None
  /\ UNCHANGED <<object, record, kernel, left, hurt, faults>>

LEMMA NewOldDoes ==
  ASSUME Inv, NEW s \in Session, NewOld(s)
  PROVE  DoesNewOld(s)
PROOF
  <1> USE DEF DoesNewOld
  <1>1. TypeOK
    BY DEF Inv
  <1> QED
    BY <1>1, CallMoves, LinkingCalls
    DEF NewOld, At, Places, Making, Stored, Holding, Unlock, disk, ghost

DoesUndoMove(s) ==
  LET c == call[s] IN
  /\ c.at = "undo_move" /\ Linking(s) /\ OnlyLink(c.id, c.new)
  /\ entry[c.old] = None /\ object[c.id] \in File
  /\ record[c.id] # None /\ record[c.id].count = 2 /\ lock = s
  /\ Goes(s, "undo_record")
  /\ entry' = [entry EXCEPT ![c.old] = object[c.id]]
  /\ object' = [object EXCEPT ![c.id] = None]
  /\ UNCHANGED <<record, lock, kernel, truth, left, hurt, faults>>

LEMMA UndoMoveDoes ==
  ASSUME Inv, NEW s \in Session, UndoMove(s)
  PROVE  DoesUndoMove(s)
PROOF
  <1> USE DEF DoesUndoMove
  <1>1. TypeOK
    BY DEF Inv
  <1> QED
    BY <1>1, CallMoves, LinkingCalls
    DEF UndoMove, At, Places, Making, Stored, Holding, disk, ghost

DoesUndoRecord(s) ==
  LET c == call[s] IN
  /\ c.at = "undo_record" /\ Linking(s) /\ OnlyLink(c.id, c.new)
  /\ entry[c.old] \in File /\ object[c.id] = None /\ lock = s
  /\ Goes(s, "undo_new")
  /\ record' = [record EXCEPT ![c.id] = None]
  /\ UNCHANGED <<entry, object, lock, kernel, truth, left, hurt, faults>>

LEMMA UndoRecordDoes ==
  ASSUME Inv, NEW s \in Session, UndoRecord(s)
  PROVE  DoesUndoRecord(s)
PROOF
  <1> USE DEF DoesUndoRecord
  <1>1. TypeOK
    BY DEF Inv
  <1> QED
    BY <1>1, CallMoves, LinkingCalls
    DEF UndoRecord, At, Places, Making, Named, Holding, disk, ghost

DoesUndoNew(s) ==
  LET c == call[s] IN
  /\ c.at = "undo_new" /\ Linking(s) /\ OnlyLink(c.id, c.new)
  /\ entry[c.old] \in File /\ object[c.id] = None /\ record[c.id] = None
  /\ Ends(s)
  /\ entry' = [entry EXCEPT ![c.new] = None]
  /\ lock' = (IF lock = s THEN None ELSE lock)
  /\ UNCHANGED <<object, record, kernel, truth, left, hurt, faults>>

LEMMA UndoNewDoes ==
  ASSUME Inv, NEW s \in Session, UndoNew(s)
  PROVE  DoesUndoNew(s)
PROOF
  <1> USE DEF DoesUndoNew
  <1>1. TypeOK
    BY DEF Inv
  <1> QED
    BY <1>1, CallMoves, LinkingCalls
    DEF UndoNew, At, Places, Making, Named, Unlock, disk, ghost


(***************************************************************************)
(* What each step of link_existing(), of unlinking and of release() finds  *)
(* and changes.                                                            *)
(***************************************************************************)
LEMMA SeeingCalls ==
  ASSUME Inv, NEW s \in Session
  PROVE  LET c == call[s] IN
         /\ c.at = "ex_link" => entry[c.new] = None
         /\ c.at \in {"ex_link", "ex_record"} => entry[c.old] = c.id \/ object[c.id] = None
         /\ c.at = "ex_record" =>
              entry[c.new] = c.id \/ (object[c.id] = None /\ entry[c.new] \in File \cap hurt)
         /\ c.at = "unlink" =>
              /\ ~c.fixup
              /\ entry[c.new] = c.id \/ (object[c.id] = None /\ entry[c.new] \notin Id)
         /\ c.at \in Releasing => entry[c.new] # c.id
         /\ c.at = "rel_move" =>
              /\ c.pick \in Name /\ entry[c.pick] = c.id
              /\ record[c.id] # None /\ record[c.id].count = 2
         /\ c.at = "rel_record" => object[c.id] = None
         /\ c.at \in {"unlink", "rel_record"} \cup Releasing =>
              c.old = None /\ c.new \in Name /\ c.id \in Id
         /\ c.at \in Releasing \cup {"rel_record"} /\ c.fixup =>
              /\ kernel[s] # None /\ kernel[s].done /\ Replaced(kernel[s])
              /\ c.new = kernel[s].to /\ c.id = kernel[s].dst
         /\ c.at \in {"rel_move", "rel_record"} => lock = s
PROOF
  BY LinkStoreAssumption DEF Inv, ShapeInv, CallShape, SeenInv, LockInv, Holding

DoesExLink(s) ==
  LET c == call[s] IN
  /\ c.at = "ex_link" /\ Linking(s) /\ entry[c.new] = None
  /\ entry[c.old] = c.id \/ object[c.id] = None
  /\ \/ Ends(s) /\ entry' = entry
     \/ /\ Goes(s, "ex_record") /\ object[c.id] # None
        /\ entry' = [entry EXCEPT ![c.new] = c.id]
  /\ UNCHANGED <<object, record, lock, kernel, truth, left, hurt, faults>>

LEMMA ExLinkDoes ==
  ASSUME Inv, NEW s \in Session, ExLink(s)
  PROVE  DoesExLink(s)
PROOF
  <1> USE DEF DoesExLink
  <1>1. TypeOK
    BY DEF Inv
  <1> QED
    BY <1>1, CallMoves, LinkingCalls, SeeingCalls DEF ExLink, At, Places, disk, ghost

DoesExRecord(s) ==
  LET c == call[s] IN
  /\ c.at = "ex_record" /\ Linking(s) /\ lock = None /\ Ends(s)
  /\ entry[c.new] = c.id \/ (object[c.id] = None /\ entry[c.new] \in File \cap hurt)
  /\ \/ entry' = [entry EXCEPT ![c.new] = None] /\ record' = record /\ truth' = truth
     \/ /\ object[c.id] # None /\ entry[c.new] = c.id /\ entry[c.old] = c.id
        /\ \E r \in Record :
             /\ r # None
             /\ r.count = IF record[c.id] = None THEN 2 ELSE record[c.id].count + 1
             /\ record' = [record EXCEPT ![c.id] = r]
        /\ truth' = [truth EXCEPT ![c.new] = truth[c.old]]
        /\ entry' = entry
  /\ UNCHANGED <<object, lock, kernel, left, hurt, faults>>

LEMMA ExRecordDoes ==
  ASSUME Inv, NEW s \in Session, ExRecord(s)
  PROVE  DoesExRecord(s)
PROOF
  <1> USE DEF DoesExRecord
  <1> DEFINE c == call[s]
             rec == IF record[c.id] = None THEN [count |-> 1, names |-> {}] ELSE record[c.id]
             r == Written(rec.count + 1, rec.names \cup {c.new})
  <1>1. TypeOK
    BY DEF Inv
  <1>2. /\ c.at = "ex_record" /\ Linking(s) /\ lock = None /\ Ends(s)
        /\ entry[c.new] = c.id \/ (object[c.id] = None /\ entry[c.new] \in File \cap hurt)
        /\ entry[c.old] = c.id \/ object[c.id] = None
    BY <1>1, CallMoves, LinkingCalls, SeeingCalls DEF ExRecord, At, Places
  <1>3. rec.count \in Nat /\ rec.names \subseteq Name
    BY <1>1, <1>2, Types DEF Linking
  <1>4. /\ r \in Record /\ r # None
        /\ r.count = IF record[c.id] = None THEN 2 ELSE record[c.id].count + 1
    <2>1. r \in Record /\ r # None /\ r.count = rec.count + 1
      BY <1>2, <1>3, WrittenIs DEF Linking
    <2>2. rec.count + 1 = IF record[c.id] = None THEN 2 ELSE record[c.id].count + 1
      OBVIOUS
    <2> QED
      BY <2>1, <2>2
  <1>5. \/ entry' = [entry EXCEPT ![c.new] = None] /\ record' = record /\ truth' = truth
        \/ /\ object[c.id] # None
           /\ record' = [record EXCEPT ![c.id] = r]
           /\ truth' = [truth EXCEPT ![c.new] = truth[c.old]]
           /\ entry' = entry
    BY DEF ExRecord, read_record
  <1> HIDE DEF r
  <1> QED
    BY <1>2, <1>4, <1>5 DEF ExRecord, disk, ghost

DoesUnlinkName(s) ==
  LET c == call[s] IN
  /\ c.at = "unlink" /\ ~c.fixup /\ c.old = None /\ c.new \in Name /\ c.id \in Id
  /\ entry[c.new] = c.id \/ (object[c.id] = None /\ entry[c.new] \notin Id)
  /\ \/ Ends(s) /\ entry' = entry /\ truth' = truth
     \/ /\ Goes(s, "release")
        /\ \A t \in Session : call[t].at = "rel_move" => call[t].pick # c.new
        /\ entry' = [entry EXCEPT ![c.new] = None]
        /\ truth' = [truth EXCEPT ![c.new] = None]
  /\ UNCHANGED <<object, record, lock, kernel, left, hurt, faults>>

LEMMA UnlinkNameDoes ==
  ASSUME Inv, ~tangled', NEW s \in Session, unlink_name(s)
  PROVE  DoesUnlinkName(s)
PROOF
  <1> USE DEF DoesUnlinkName
  <1>1. TypeOK
    BY DEF Inv
  <1> QED
    BY <1>1, CallMoves, SeeingCalls DEF unlink_name, Disturbs, Pinned, At, Places, disk, ghost

Over(s) == IF call[s].fixup THEN Goes(s, "moved") ELSE Ends(s)

(* One name less in the record of s's object, or a failure to write it.    *)
CountsLess(s) ==
  LET i == call[s].id IN
  \/ /\ \E r \in Record : r # None /\ r.count = record[i].count - 1
                          /\ record' = [record EXCEPT ![i] = r]
     /\ UNCHANGED <<left, faults>>
  \/ record' = record /\ left' = left \cup {i} /\ faults' \in 0..kFaults

Releases(s) ==
  LET c == call[s] IN
  /\ c.old = None /\ c.new \in Name /\ c.id \in Id /\ entry[c.new] # c.id
  /\ c.fixup => /\ kernel[s] # None /\ kernel[s].done /\ Replaced(kernel[s])
                /\ c.new = kernel[s].to /\ c.id = kernel[s].dst

(* The end of release(): one name less, or a failure that is ignored.      *)
LEMMA ReleaseWrites ==
  ASSUME TypeOK, NEW s \in Session, call[s].id \in Id, record[call[s].id] # None,
         record[call[s].id].count > 0,
         ReleaseWrite(s, Less(record[call[s].id], call[s].new))
  PROVE  CountsLess(s) /\ lock' = None /\ Over(s)
PROOF
  <1> DEFINE rec == record[call[s].id]
             r == Less(rec, call[s].new)
  <1>1. TypeOK
    OBVIOUS
  <1>2. rec.count \in Nat /\ rec.count > 0 /\ rec.names \in SUBSET Name
    BY <1>1, Types
  <1>3. r \in Record /\ r # None /\ r.count = rec.count - 1
    <2>1. rec.count - 1 \in Nat /\ rec.names \ {call[s].new} \in SUBSET Name
      BY <1>2
    <2> QED
      BY <2>1, WrittenIs DEF Less
  <1>4. Over(s)
    BY <1>1, CallMoves DEF ReleaseWrite, Released, Over, Places
  <1>5. faults \in 0..kFaults /\ kFaults \in Nat
    BY <1>1, Types, LinkStoreAssumption
  <1> HIDE DEF r
  <1>6. ReleaseWrite(s, r)
    BY DEF r
  <1> QED
    BY <1>3, <1>4, <1>5, <1>6 DEF ReleaseWrite, CountsLess, Fault

DoesRelease(s) ==
  LET c == call[s] IN
  /\ c.at = "release" /\ Releases(s) /\ lock = None
  /\ \/ /\ record[c.id] = None /\ Over(s)
        /\ UNCHANGED <<entry, object, record, lock, left, faults>>
     \/ /\ record[c.id] # None /\ record[c.id].count = 1
        /\ Goes(s, "rel_record") /\ lock' = s
        /\ object' = [object EXCEPT ![c.id] = None]
        /\ UNCHANGED <<entry, record, left, faults>>
     \/ /\ record[c.id] # None /\ record[c.id].count = 2
        /\ \E n \in Name :
             /\ entry[n] = c.id
             /\ CallTo(s, "rel_move", c.old, c.new, c.id, n, c.fixup)
        /\ lock' = s
        /\ UNCHANGED <<entry, object, record, left, faults>>
     \/ /\ record[c.id] # None /\ record[c.id].count > 1
        /\ CountsLess(s) /\ lock' = None /\ Over(s)
        /\ UNCHANGED <<entry, object>>
  /\ UNCHANGED <<kernel, truth, hurt>>

LEMMA ReleaseDoes ==
  ASSUME Inv, NEW s \in Session, release(s)
  PROVE  DoesRelease(s)
PROOF
  <1> USE DEF DoesRelease
  <1> DEFINE c == call[s]
             rec == record[c.id]
             rest == Less(rec, c.new)
             known == {n \in rest.names : entry_id(n) = c.id}
  <1>1. TypeOK
    BY DEF Inv
  <1>2. c.at = "release" /\ Releases(s) /\ lock = None
    BY SeeingCalls DEF release, At, Releasing, Releases
  <1>3. ASSUME rec # None
        PROVE  /\ rec.count \in Nat /\ rec.count > 0
               /\ rest.count = rec.count - 1 /\ rest.names \subseteq Name
    <2>1. rec.count \in Nat /\ rec.count > 0 /\ rec.names \in SUBSET Name
      BY <1>1, <1>2, <1>3, Types DEF Inv, CountInv, Counted, Releases
    <2>2. rec.count - 1 \in Nat /\ rec.names \ {c.new} \in SUBSET Name
      BY <2>1
    <2> QED
      BY <2>1, <2>2, WrittenIs DEF Less
  <1>4. ASSUME rec = None, Released(s)
        PROVE  Over(s)
    BY <1>1, <1>4, CallMoves DEF Released, Over, Places
  <1>5. ASSUME NEW n \in known, rec # None, Try(s, n)
        PROVE  n \in Name /\ entry[n] = c.id /\ CallTo(s, "rel_move", c.old, c.new, c.id, n, c.fixup)
    <2>1. n \in Name /\ entry[n] = c.id
      BY <1>2, <1>3, <1>5, LinkStoreAssumption DEF entry_id, Releases
    <2> QED
      BY <1>1, <1>5, <2>1, CallTry
  <1>6. ASSUME rec # None, ReleaseWrite(s, rest)
        PROVE  CountsLess(s) /\ lock' = None /\ Over(s)
    BY <1>1, <1>2, <1>3, <1>6, ReleaseWrites DEF Releases
  <1>7. ASSUME Goto(s, "rel_record") PROVE Goes(s, "rel_record")
    BY <1>1, <1>7, CallMoves DEF Places
  <1>8. \/ rec = None /\ Released(s) /\ UNCHANGED <<disk, lock, left, faults>>
        \/ /\ rec # None /\ Nameless(rest)
           /\ object' = [object EXCEPT ![c.id] = None]
           /\ lock' = s
           /\ Goto(s, "rel_record")
           /\ UNCHANGED <<entry, record, left, faults>>
        \/ /\ rec # None /\ rest.count = 1
           /\ \E n \in known : Try(s, n)
           /\ lock' = s
           /\ UNCHANGED <<disk, left, faults>>
        \/ /\ rec # None /\ ~Nameless(rest)
           /\ ReleaseWrite(s, rest)
           /\ UNCHANGED <<entry, object>>
    BY DEF release, read_record
  <1>9. UNCHANGED <<kernel, truth, hurt>>
    BY DEF release
  <1> HIDE DEF rest, known
  <1> QED
    BY <1>2, <1>3, <1>4, <1>5, <1>6, <1>7, <1>8, <1>9 DEF Nameless, disk

DoesRelMove(s) ==
  LET c == call[s] IN
  /\ c.at = "rel_move" /\ Releases(s) /\ lock = s
  /\ c.pick \in Name /\ entry[c.pick] = c.id
  /\ record[c.id] # None /\ record[c.id].count = 2
  /\ \/ /\ object[c.id] \in File /\ Goes(s, "rel_record")
        /\ entry' = [entry EXCEPT ![c.pick] = object[c.id]]
        /\ object' = [object EXCEPT ![c.id] = None]
        /\ hurt' = IF BeingLinked(c.pick) THEN hurt \cup {object[c.id]} ELSE hurt
        /\ left' = IF BeingLinked(c.pick) THEN left \cup {c.id} ELSE left
        /\ UNCHANGED <<record, lock, faults>>
     \/ /\ \E n \in Name :
             /\ entry[n] = c.id
             /\ CallTo(s, "rel_move", c.old, c.new, c.id, n, c.fixup)
        /\ UNCHANGED <<entry, object, record, lock, left, hurt, faults>>
     \/ /\ CountsLess(s) /\ lock' = None /\ Over(s)
        /\ UNCHANGED <<entry, object, hurt>>
  /\ UNCHANGED <<kernel, truth>>

LEMMA RelMoveDoes ==
  ASSUME Inv, NEW s \in Session, RelMove(s)
  PROVE  DoesRelMove(s)
PROOF
  <1> USE DEF DoesRelMove
  <1> DEFINE c == call[s]
             rec == record[c.id]
             rest == Less(rec, c.new)
  <1>1. TypeOK
    BY DEF Inv
  <1>2. /\ c.at = "rel_move" /\ Releases(s) /\ lock = s
        /\ c.pick \in Name /\ entry[c.pick] = c.id /\ rec # None /\ rec.count = 2
    BY SeeingCalls DEF RelMove, At, Releasing, Releases
  <1>3. rest.names \subseteq Name
    <2>1. rec.count \in Nat /\ rec.count > 0 /\ rec.names \in SUBSET Name
      BY <1>1, <1>2, Types DEF Releases
    <2>2. rec.count - 1 \in Nat /\ rec.names \ {c.new} \in SUBSET Name
      BY <2>1
    <2> QED
      BY <2>1, <2>2, WrittenIs DEF Less
  <1>4. object[c.id] # None => object[c.id] \in File
    BY <1>1, <1>2, Types DEF Inv, PlaceInv, Releases
  <1>5. ASSUME NEW n \in rest.names, entry_id(n) = c.id, Try(s, n)
        PROVE  n \in Name /\ entry[n] = c.id /\ CallTo(s, "rel_move", c.old, c.new, c.id, n, c.fixup)
    <2>1. n \in Name /\ entry[n] = c.id
      BY <1>2, <1>3, <1>5, LinkStoreAssumption DEF entry_id, Releases
    <2> QED
      BY <1>1, <1>5, <2>1, CallTry
  <1>6. ASSUME ReleaseWrite(s, rest)
        PROVE  CountsLess(s) /\ lock' = None /\ Over(s)
    BY <1>1, <1>2, <1>6, ReleaseWrites DEF Releases
  <1>7. ASSUME Goto(s, "rel_record") PROVE Goes(s, "rel_record")
    BY <1>1, <1>7, CallMoves DEF Places
  <1>8. \/ /\ object[c.id] # None
           /\ entry' = [entry EXCEPT ![c.pick] = object[c.id]]
           /\ object' = [object EXCEPT ![c.id] = None]
           /\ hurt' = IF BeingLinked(c.pick) THEN hurt \cup ({object[c.id]} \cap File)
                      ELSE hurt
           /\ left' = IF BeingLinked(c.pick) THEN left \cup {c.id} ELSE left
           /\ Goto(s, "rel_record")
           /\ UNCHANGED <<record, lock, faults>>
        \/ /\ \E n \in rest.names : entry_id(n) = c.id /\ Try(s, n)
           /\ UNCHANGED <<disk, lock, left, hurt, faults>>
        \/ /\ ReleaseWrite(s, rest)
           /\ UNCHANGED <<entry, object, hurt>>
    BY DEF RelMove
  <1>9. UNCHANGED <<kernel, truth>>
    BY DEF RelMove
  <1> HIDE DEF rest
  <1> QED
    BY <1>2, <1>4, <1>5, <1>6, <1>7, <1>8, <1>9 DEF disk

DoesRelRecord(s) ==
  LET c == call[s] IN
  /\ c.at = "rel_record" /\ lock = s /\ c.old = None /\ c.new \in Name /\ c.id \in Id
  /\ object[c.id] = None
  /\ c.fixup => /\ kernel[s] # None /\ kernel[s].done /\ Replaced(kernel[s])
                /\ c.new = kernel[s].to /\ c.id = kernel[s].dst
  /\ record' = [record EXCEPT ![c.id] = None]
  /\ lock' = None /\ Over(s)
  /\ UNCHANGED <<entry, object, kernel, truth, left, hurt, faults>>

LEMMA RelRecordDoes ==
  ASSUME Inv, NEW s \in Session, RelRecord(s)
  PROVE  DoesRelRecord(s)
PROOF
  <1> USE DEF DoesRelRecord
  <1>1. TypeOK
    BY DEF Inv
  <1>2. Over(s)
    BY <1>1, CallMoves DEF RelRecord, Released, Over, Places
  <1> QED
    BY <1>2, SeeingCalls DEF RelRecord, At, disk, ghost


(***************************************************************************)
(* What the steps of a rename or unlink in the kernel, their fixup and a   *)
(* death find and change.                                                  *)
(***************************************************************************)
KernelIs(s, op, from, to, src, dst, done) ==
  /\ kernel' \in [Session -> {None} \cup KernelCall]
  /\ \A t \in Session \ {s} : kernel'[t] = kernel[t]
  /\ kernel'[s] # None /\ kernel'[s].op = op
  /\ kernel'[s].from = from /\ kernel'[s].to = to
  /\ kernel'[s].src = src /\ kernel'[s].dst = dst /\ kernel'[s].done = done

KernelGone(s) ==
  /\ kernel' \in [Session -> {None} \cup KernelCall]
  /\ \A t \in Session \ {s} : kernel'[t] = kernel[t]
  /\ kernel'[s] = None

(* What kernel[s] holds once a call is entered, and once it is over.       *)
LEMMA KernelSet ==
  ASSUME TypeOK, NEW s \in Session, NEW op \in Op, NEW from \in Name, NEW to \in Name,
         NEW src \in Id \cup {None}, NEW dst \in Id \cup {None}, NEW done \in BOOLEAN,
         kernel' = [kernel EXCEPT ![s] = [op |-> op, from |-> from, to |-> to, src |-> src,
                                          dst |-> dst, done |-> done]]
  PROVE  KernelIs(s, op, from, to, src, dst, done)
PROOF
  <1> DEFINE k == [op |-> op, from |-> from, to |-> to, src |-> src, dst |-> dst, done |-> done]
  <1>1. k \in KernelCall /\ kernel \in [Session -> {None} \cup KernelCall]
    BY DEF KernelCall, TypeOK
  <1>2. k # None
    BY <1>1, NoneAssumption
  <1>3. kernel' = [kernel EXCEPT ![s] = k]
    OBVIOUS
  <1>4. /\ k.op = op /\ k.from = from /\ k.to = to /\ k.src = src /\ k.dst = dst /\ k.done = done
    OBVIOUS
  <1> HIDE DEF k
  <1> QED
    BY <1>1, <1>2, <1>3, <1>4 DEF KernelIs

LEMMA KernelDrop ==
  ASSUME TypeOK, NEW s \in Session, kernel' = [kernel EXCEPT ![s] = None]
  PROVE  KernelGone(s)
PROOF
  BY DEF KernelGone, TypeOK

(* What Inv says about a call in the kernel.                               *)
LEMMA KernelCalls ==
  ASSUME Inv, NEW s \in Session, kernel[s] # None
  PROVE  LET k == kernel[s] IN
         /\ k \in KernelCall /\ k.op \in Op /\ k.from \in Name /\ k.to \in Name
         /\ k.src \in Id \cup {None} /\ k.dst \in Id \cup {None} /\ k.done \in BOOLEAN
         /\ k.op = "unlink" => k.from = k.to /\ k.src = None /\ k.dst = None /\ ~k.done
         /\ k.op # "unlink" => k.from # k.to
         /\ k.src = k.dst => k.src = None
         /\ ~k.done => ~call[s].fixup
         /\ ~k.done /\ entry[k.from] \in Id => entry[k.from] = k.src
         /\ ~k.done /\ entry[k.to] \in Id => entry[k.to] = k.dst
         /\ ~k.done /\ k.src # None => entry[k.from] = k.src \/ object[k.src] = None
         /\ ~k.done /\ k.dst # None => entry[k.to] = k.dst \/ object[k.dst] = None
         /\ k.done /\ Replaced(k) => entry[k.to] # k.dst
PROOF
  <1>1. TypeOK
    BY DEF Inv
  <1>2. /\ kernel[s] \in KernelCall /\ kernel[s].op \in Op
        /\ kernel[s].from \in Name /\ kernel[s].to \in Name
        /\ kernel[s].src \in Id \cup {None} /\ kernel[s].dst \in Id \cup {None}
        /\ kernel[s].done \in BOOLEAN
    BY <1>1, Types
  <1> QED
    BY <1>2 DEF Inv, ShapeInv, CallShape, KernelShape, KernelInv

DoesUnlinkBegin(s, n) ==
  /\ call[s].at = "idle" /\ call[s].id = None /\ ~call[s].fixup
  /\ \A t \in Session : ~Uses(t, n)
  /\ \/ /\ entry[n] \in Id /\ kernel' = kernel
        /\ CallTo(s, "unlink", None, n, entry[n], None, FALSE)
     \/ /\ entry[n] \in File /\ kernel[s] = None /\ call' = call
        /\ KernelIs(s, "unlink", n, n, None, None, FALSE)
  /\ UNCHANGED <<entry, object, record, lock, truth, left, hurt, faults>>

LEMMA UnlinkBeginDoes ==
  ASSUME Inv, ~tangled', NEW s \in Session, NEW n \in Name, UnlinkBegin(s, n)
  PROVE  DoesUnlinkBegin(s, n)
PROOF
  <1> USE DEF DoesUnlinkBegin
  <1> USE LinkStoreAssumption
  <1>1. TypeOK
    BY DEF Inv
  <1>2. \A t \in Session : ~Uses(t, n)
    BY Apartness DEF UnlinkBegin
  <1>3. call[s].at = "idle" /\ call[s].id = None /\ ~call[s].fixup
    BY DEF UnlinkBegin, At, Inv, ShapeInv, CallShape
  <1>4. entry[n] \in File \cup Id \cup {None}
    BY <1>1, Types
  <1>5. UNCHANGED <<entry, object, record, lock, truth, left, hurt, faults>>
    BY DEF UnlinkBegin, disk, ghost
  <1>6. CASE entry[n] \in Id
    <2>1. entry_id(n) = entry[n] /\ entry_id(n) # None
      BY <1>6 DEF entry_id
    <2>2. Begin(s, "unlink", None, n, entry[n], FALSE) /\ kernel' = kernel
      BY <2>1 DEF UnlinkBegin
    <2>3. CallTo(s, "unlink", None, n, entry[n], None, FALSE)
      BY <1>1, <1>6, <2>2, CallBegin DEF Places
    <2> QED
      BY <1>2, <1>3, <1>5, <1>6, <2>2, <2>3
  <1>7. CASE entry[n] \notin Id
    <2>1. entry_id(n) = None
      BY <1>7 DEF entry_id
    <2>2. /\ kernel[s] = None /\ call' = call /\ entry[n] # None
          /\ kernel' = [kernel EXCEPT ![s] = [op |-> "unlink", from |-> n, to |-> n,
                                              src |-> None, dst |-> None, done |-> FALSE]]
      BY <2>1 DEF UnlinkBegin
    <2>3. KernelIs(s, "unlink", n, n, None, None, FALSE)
      BY <1>1, <2>2, KernelSet DEF Op
    <2> QED
      BY <1>2, <1>3, <1>4, <1>5, <1>7, <2>2, <2>3
  <1> QED
    BY <1>6, <1>7

DoesRenameBegin(s, from, to, op) ==
  /\ call[s].at = "idle" /\ call[s].id = None /\ ~call[s].fixup /\ kernel[s] = None
  /\ \A t \in Session : ~Uses(t, from) /\ ~Uses(t, to)
  /\ \E src, dst \in Id \cup {None} :
       /\ src = dst => src = None
       /\ entry[from] \in Id => src = entry[from]
       /\ entry[from] \notin Id => src = None
       /\ entry[to] \in Id => dst = entry[to]
       /\ entry[to] \notin Id => dst = None
       /\ KernelIs(s, op, from, to, src, dst, FALSE)
  /\ UNCHANGED <<entry, object, record, lock, call, truth, left, hurt, faults>>

LEMMA RenameBeginDoes ==
  ASSUME Inv, ~tangled', NEW s \in Session, NEW from \in Name, NEW to \in Name,
         NEW op \in Op \ {"unlink"}, RenameBegin(s, from, to, op)
  PROVE  DoesRenameBegin(s, from, to, op)
PROOF
  <1> USE DEF DoesRenameBegin
  <1> USE LinkStoreAssumption
  <1>1. TypeOK
    BY DEF Inv
  <1>2. \A t \in Session : ~Uses(t, from) /\ ~Uses(t, to)
    BY Apartness DEF RenameBegin
  <1>3. call[s].at = "idle" /\ call[s].id = None /\ ~call[s].fixup /\ kernel[s] = None
    BY DEF RenameBegin, At, Inv, ShapeInv, CallShape
  <1>4. /\ entry_id(from) \in Id \cup {None} /\ entry_id(to) \in Id \cup {None}
        /\ entry_id(from) = entry_id(to) => entry_id(from) = None
        /\ entry[from] \in Id => entry_id(from) = entry[from]
        /\ entry[from] \notin Id => entry_id(from) = None
        /\ entry[to] \in Id => entry_id(to) = entry[to]
        /\ entry[to] \notin Id => entry_id(to) = None
    BY DEF RenameBegin, OneFile, entry_id
  <1>5. KernelIs(s, op, from, to, entry_id(from), entry_id(to), FALSE)
    <2>1. kernel' = [kernel EXCEPT ![s] =
                       [op |-> op, from |-> from, to |-> to, src |-> entry_id(from),
                        dst |-> entry_id(to), done |-> FALSE]]
      BY DEF RenameBegin
    <2> QED
      BY <1>1, <1>4, <2>1, KernelSet
  <1>6. UNCHANGED <<entry, object, record, lock, call, truth, left, hurt, faults>>
    BY DEF RenameBegin, disk, ghost
  <1> QED
    BY <1>2, <1>3, <1>4, <1>5, <1>6

DoesFixupBegin(s) ==
  LET k == kernel[s] IN
  /\ call[s].at = "idle" /\ call[s].id = None /\ ~call[s].fixup
  /\ k # None /\ k.done /\ k.from \in Name /\ k.to \in Name
  /\ k.src \in Id \cup {None} /\ k.dst \in Id \cup {None}
  /\ \/ /\ Replaced(k) /\ k.dst \in Id /\ entry[k.to] # k.dst
        /\ CallTo(s, "release", None, k.to, k.dst, None, TRUE)
     \/ /\ ~Replaced(k)
        /\ CallTo(s, "moved", None, None, None, None, TRUE)
  /\ UNCHANGED <<entry, object, record, lock, kernel, truth, left, hurt, faults>>

LEMMA FixupBeginDoes ==
  ASSUME Inv, NEW s \in Session, FixupBegin(s)
  PROVE  DoesFixupBegin(s)
PROOF
  <1> USE DEF DoesFixupBegin
  <1> USE LinkStoreAssumption
  <1> DEFINE k == kernel[s]
  <1>1. TypeOK
    BY DEF Inv
  <1>2. call[s].at = "idle" /\ call[s].id = None /\ ~call[s].fixup
    BY DEF FixupBegin, At, Inv, ShapeInv, CallShape
  <1>3. /\ k # None /\ k.done /\ k.from \in Name /\ k.to \in Name
        /\ k.src \in Id \cup {None} /\ k.dst \in Id \cup {None}
        /\ Replaced(k) => k.dst \in Id /\ entry[k.to] # k.dst
    BY KernelCalls DEF FixupBegin, Replaced
  <1>4. IF Replaced(k) THEN Begin(s, "release", None, k.to, k.dst, TRUE)
                       ELSE Begin(s, "moved", None, None, None, TRUE)
    BY DEF FixupBegin
  <1>5. ASSUME Replaced(k)
        PROVE  CallTo(s, "release", None, k.to, k.dst, None, TRUE)
    BY <1>1, <1>3, <1>4, <1>5, CallBegin DEF Places
  <1>6. ASSUME ~Replaced(k)
        PROVE  CallTo(s, "moved", None, None, None, None, TRUE)
    BY <1>1, <1>3, <1>4, <1>6, CallBegin DEF Places
  <1>7. UNCHANGED <<entry, object, record, lock, kernel, truth, left, hurt, faults>>
    BY DEF FixupBegin, disk, ghost
  <1> HIDE DEF k
  <1> QED
    BY <1>2, <1>3, <1>5, <1>6, <1>7 DEF k

(* name_moved() changes which names a record lists, never how many it      *)
(* counts.                                                                 *)
CountsSame ==
  /\ record' \in [Id -> Record \cup {None}]
  /\ \A i \in Id : /\ record'[i] = None <=> record[i] = None
                   /\ record[i] # None => record'[i].count = record[i].count
  /\ faults' \in 0..kFaults

(* name_moved() changes which names a record lists, not how many it counts.*)
LEMMA NameMoved ==
  ASSUME TypeOK, NEW i \in Id \cup {None}, NEW from \in Name, NEW to \in Name,
         name_moved(i, from, to)
  PROVE  CountsSame
PROOF
  <1> USE LinkStoreAssumption
  <1>1. /\ record \in [Id -> Record \cup {None}]
        /\ faults \in 0..kFaults /\ kFaults \in Nat
    BY Types
  <1>2. CASE record' = record
    BY <1>1, <1>2 DEF name_moved, CountsSame, Fault
  <1>3. CASE record' # record
    <2> DEFINE r == Written(record[i].count, (record[i].names \ {from}) \cup {to})
    <2>1. /\ i \in Id /\ record[i] # None /\ faults' = faults
          /\ record' = [record EXCEPT ![i] = r]
      BY <1>1, <1>3 DEF name_moved
    <2>2. record[i].count \in Nat /\ (record[i].names \ {from}) \cup {to} \in SUBSET Name
      BY <2>1, Types
    <2>3. r \in Record /\ r # None /\ r.count = record[i].count
      BY <2>2, WrittenIs
    <2> HIDE DEF r
    <2> QED
      BY <1>1, <2>1, <2>3 DEF CountsSame
  <1> QED
    BY <1>2, <1>3

(* What Inv says while the fixup of a rename is at work.                   *)
LEMMA FixingCalls ==
  ASSUME Inv, NEW s \in Session, call[s].at \in {"moved", "moved_back"}
  PROVE  LET k == kernel[s] IN
         /\ call[s].old = None /\ call[s].fixup
         /\ k # None /\ k.done /\ k.from \in Name /\ k.to \in Name
         /\ k.src \in Id \cup {None} /\ k.dst \in Id \cup {None}
         /\ call[s].new \in {k.to, None} /\ call[s].id \in {k.dst, None}
PROOF
  <1>1. kernel[s] # None
    BY DEF Inv, ShapeInv, CallShape
  <1> QED
    BY <1>1, KernelCalls DEF Inv, ShapeInv, CallShape

DoesMoved(s) ==
  LET k == kernel[s] IN
  /\ call[s].at \in {"moved", "moved_back"} /\ lock = None /\ CountsSame
  /\ call[s].old = None /\ call[s].fixup
  /\ k # None /\ k.done /\ k.from \in Name /\ k.to \in Name
  /\ k.src \in Id \cup {None} /\ k.dst \in Id \cup {None}
  /\ call[s].new \in {k.to, None} /\ call[s].id \in {k.dst, None}
  /\ \/ k.op = "exchange" /\ Goes(s, "moved_back") /\ kernel' = kernel
     \/ Ends(s) /\ KernelGone(s)
  /\ UNCHANGED <<entry, object, lock, truth, left, hurt>>

LEMMA MovedDoes ==
  ASSUME Inv, NEW s \in Session, Moved(s) \/ MovedBack(s)
  PROVE  DoesMoved(s)
PROOF
  <1> USE DEF DoesMoved
  <1> DEFINE k == kernel[s]
  <1>1. TypeOK
    BY DEF Inv
  <1>2. call[s].at \in {"moved", "moved_back"} /\ lock = None
    BY DEF Moved, MovedBack, At
  <1>3. CountsSame
    <2>1. k.from \in Name /\ k.to \in Name /\ k.src \in Id \cup {None} /\ k.dst \in Id \cup {None}
      BY <1>2, FixingCalls
    <2>2. CASE Moved(s)
      BY <1>1, <2>1, <2>2, NameMoved DEF Moved
    <2>3. CASE MovedBack(s)
      BY <1>1, <2>1, <2>3, NameMoved DEF MovedBack
    <2> QED
      BY <2>2, <2>3
  <1>4. \/ k.op = "exchange" /\ Goes(s, "moved_back") /\ kernel' = kernel
        \/ Ends(s) /\ KernelGone(s)
    BY <1>1, CallMoves, KernelDrop DEF Moved, MovedBack, Places
  <1>5. UNCHANGED <<entry, object, lock, truth, left, hurt>>
    BY DEF Moved, MovedBack
  <1>6. /\ call[s].old = None /\ call[s].fixup
        /\ k # None /\ k.done /\ k.from \in Name /\ k.to \in Name
        /\ k.src \in Id \cup {None} /\ k.dst \in Id \cup {None}
        /\ call[s].new \in {k.to, None} /\ call[s].id \in {k.dst, None}
    BY <1>2, FixingCalls
  <1> QED
    BY <1>2, <1>3, <1>4, <1>5, <1>6


LEMMA SwappedIs ==
  ASSUME NEW S, NEW f \in [Name -> S], NEW from \in Name, NEW to \in Name, from # to
  PROVE  /\ Swapped(f, from, to) \in [Name -> S]
         /\ Swapped(f, from, to)[from] = f[to] /\ Swapped(f, from, to)[to] = f[from]
         /\ \A n \in Name \ {from, to} : Swapped(f, from, to)[n] = f[n]
PROOF
  BY DEF Swapped

Exchanged(f, g, from, to) ==
  g[from] = f[to] /\ g[to] = f[from] /\ \A n \in Name \ {from, to} : g[n] = f[n]

Renamed(f, g, from, to) ==
  g[from] = None /\ g[to] = f[from] /\ \A n \in Name \ {from, to} : g[n] = f[n]

DoesKernelActs(s) ==
  LET k == kernel[s] IN
  /\ k # None /\ ~k.done /\ ~call[s].fixup /\ entry[k.from] # None
  /\ k.from \in Name /\ k.to \in Name
  /\ k.src \in Id \cup {None} /\ k.dst \in Id \cup {None}
  /\ k.src = k.dst => k.src = None
  /\ \A t \in Session : call[t].at = "rel_move" =>
       call[t].pick # k.from /\ call[t].pick # k.to
  /\ entry[k.from] \in Id => entry[k.from] = k.src
  /\ entry[k.to] \in Id => entry[k.to] = k.dst
  /\ k.src # None => entry[k.from] = k.src \/ object[k.src] = None
  /\ k.dst # None => entry[k.to] = k.dst \/ object[k.dst] = None
  /\ entry' \in [Name -> File \cup Id \cup {None}]
  /\ truth' \in [Name -> File \cup {None}]
  /\ \/ /\ k.op = "exchange" /\ k.from # k.to /\ entry[k.to] # None
        /\ Exchanged(entry, entry', k.from, k.to)
        /\ Exchanged(truth, truth', k.from, k.to)
     \/ /\ k.op = "unlink" /\ k.from = k.to /\ k.src = None /\ k.dst = None
        /\ entry'[k.from] = None /\ truth'[k.from] = None
        /\ \A n \in Name \ {k.from} : entry'[n] = entry[n] /\ truth'[n] = truth[n]
     \/ /\ k.op \notin {"exchange", "unlink"} /\ k.from # k.to
        /\ Renamed(entry, entry', k.from, k.to)
        /\ IF truth[k.from] = truth[k.to] THEN truth' = truth
           ELSE Renamed(truth, truth', k.from, k.to)
  /\ \/ k.src = None /\ k.dst = None /\ KernelGone(s)
     \/ /\ ~(k.src = None /\ k.dst = None)
        /\ KernelIs(s, k.op, k.from, k.to, k.src, k.dst, TRUE)
  /\ UNCHANGED <<object, record, lock, call, left, hurt, faults>>

LEMMA KernelActsDoes ==
  ASSUME Inv, ~tangled', NEW s \in Session, KernelActs(s)
  PROVE  DoesKernelActs(s)
PROOF
  <1> USE DEF DoesKernelActs
  <1> DEFINE k == kernel[s]
  <1>1. TypeOK
    BY DEF Inv
  <1>2. k # None /\ ~k.done /\ entry[k.from] # None
    BY DEF KernelActs
  <1>3. /\ ~call[s].fixup /\ k \in KernelCall
        /\ k.from \in Name /\ k.to \in Name
        /\ k.src \in Id \cup {None} /\ k.dst \in Id \cup {None}
        /\ k.src = k.dst => k.src = None
        /\ k.op = "unlink" => k.from = k.to /\ k.src = None /\ k.dst = None
        /\ k.op # "unlink" => k.from # k.to
        /\ entry[k.from] \in Id => entry[k.from] = k.src
        /\ entry[k.to] \in Id => entry[k.to] = k.dst
        /\ k.src # None => entry[k.from] = k.src \/ object[k.src] = None
        /\ k.dst # None => entry[k.to] = k.dst \/ object[k.dst] = None
    BY <1>2, KernelCalls
  <1>4. \A t \in Session : call[t].at = "rel_move" =>
              call[t].pick # k.from /\ call[t].pick # k.to
    BY DEF KernelActs, Disturbs, Pinned
  <1>5. /\ entry \in [Name -> File \cup Id \cup {None}]
        /\ truth \in [Name -> File \cup {None}]
    BY <1>1, Types
  <1>6. /\ entry' \in [Name -> File \cup Id \cup {None}]
        /\ truth' \in [Name -> File \cup {None}]
        /\ \/ /\ k.op = "exchange" /\ k.from # k.to /\ entry[k.to] # None
              /\ Exchanged(entry, entry', k.from, k.to)
              /\ Exchanged(truth, truth', k.from, k.to)
           \/ /\ k.op = "unlink" /\ k.from = k.to /\ k.src = None /\ k.dst = None
              /\ entry'[k.from] = None /\ truth'[k.from] = None
              /\ \A n \in Name \ {k.from} : entry'[n] = entry[n] /\ truth'[n] = truth[n]
           \/ /\ k.op \notin {"exchange", "unlink"} /\ k.from # k.to
              /\ Renamed(entry, entry', k.from, k.to)
              /\ IF truth[k.from] = truth[k.to] THEN truth' = truth
                 ELSE Renamed(truth, truth', k.from, k.to)
    <2>1. CASE k.op = "exchange"
      <3>1. /\ entry[k.to] # None
            /\ entry' = Swapped(entry, k.from, k.to) /\ truth' = Swapped(truth, k.from, k.to)
        BY <2>1 DEF KernelActs
      <3>2. k.from # k.to
        BY <1>3, <2>1
      <3>3. entry' \in [Name -> File \cup Id \cup {None}] /\ Exchanged(entry, entry', k.from, k.to)
        BY <1>3, <1>5, <3>1, <3>2 DEF Exchanged, Swapped
      <3>4. truth' \in [Name -> File \cup {None}] /\ Exchanged(truth, truth', k.from, k.to)
        BY <1>3, <1>5, <3>1, <3>2 DEF Exchanged, Swapped
      <3> QED
        BY <2>1, <3>1, <3>2, <3>3, <3>4
    <2>2. CASE k.op = "unlink"
      <3>1. /\ entry' = [entry EXCEPT ![k.from] = None]
            /\ truth' = [truth EXCEPT ![k.from] = None]
        BY <2>2 DEF KernelActs
      <3> QED
        BY <1>3, <1>5, <2>2, <3>1
    <2>3. CASE k.op \notin {"exchange", "unlink"}
      <3>1. /\ entry' = [entry EXCEPT ![k.to] = entry[k.from], ![k.from] = None]
            /\ truth' = IF truth[k.from] = truth[k.to] THEN truth
                        ELSE [truth EXCEPT ![k.to] = truth[k.from], ![k.from] = None]
        BY <2>3 DEF KernelActs
      <3>2. k.from # k.to
        BY <1>3, <2>3
      <3>3. entry' \in [Name -> File \cup Id \cup {None}] /\ Renamed(entry, entry', k.from, k.to)
        BY <1>3, <1>5, <3>1, <3>2 DEF Renamed
      <3>4. /\ truth' \in [Name -> File \cup {None}]
            /\ IF truth[k.from] = truth[k.to] THEN truth' = truth
               ELSE Renamed(truth, truth', k.from, k.to)
        BY <1>3, <1>5, <3>1, <3>2 DEF Renamed
      <3> QED
        BY <2>3, <3>2, <3>3, <3>4
    <2> QED
      BY <2>1, <2>2, <2>3
  <1>7. \/ k.src = None /\ k.dst = None /\ KernelGone(s)
        \/ /\ ~(k.src = None /\ k.dst = None)
           /\ KernelIs(s, k.op, k.from, k.to, k.src, k.dst, TRUE)
    <2> DEFINE d == Done(k)
    <2>1. kernel' = [kernel EXCEPT ![s] = d]
      BY DEF KernelActs
    <2>2. kernel \in [Session -> {None} \cup KernelCall]
      BY <1>1, Types
    <2>3. /\ k.src = None /\ k.dst = None => d = None
          /\ ~(k.src = None /\ k.dst = None) =>
              /\ d # None /\ d \in KernelCall
              /\ d.op = k.op /\ d.from = k.from /\ d.to = k.to
              /\ d.src = k.src /\ d.dst = k.dst /\ d.done = TRUE
      BY <1>3, KernelDone
    <2> HIDE DEF d, k
    <2>4. CASE k.src = None /\ k.dst = None
      BY <1>1, <2>1, <2>3, <2>4, KernelDrop
    <2>5. CASE ~(k.src = None /\ k.dst = None)
      BY <2>1, <2>2, <2>3, <2>5 DEF KernelIs
    <2> QED
      BY <2>4, <2>5
  <1>8. UNCHANGED <<object, record, lock, call, left, hurt, faults>>
    BY DEF KernelActs
  <1> HIDE DEF k
  <1> QED
    BY <1>2, <1>3, <1>4, <1>6, <1>7, <1>8 DEF k

DoesKernelRefuses(s) ==
  /\ kernel[s] # None /\ ~kernel[s].done /\ KernelGone(s)
  /\ UNCHANGED <<entry, object, record, lock, call, truth, left, hurt, faults>>

LEMMA KernelRefusesDoes ==
  ASSUME Inv, NEW s \in Session, KernelRefuses(s)
  PROVE  DoesKernelRefuses(s)
PROOF
  BY KernelDrop DEF DoesKernelRefuses, KernelRefuses, Inv, disk, ghost

DoesCrash(s) ==
  LET c == call[s]
      k == kernel[s] IN
  /\ Ends(s) /\ KernelGone(s)
  /\ lock' = (IF lock = s THEN None ELSE lock)
  /\ left \subseteq left' /\ left' \subseteq Id
  /\ \A i \in Id : i \in left' <=> \/ i \in left \/ i = c.id
                                   \/ k # None /\ k.done /\ (i = k.src \/ i = k.dst)
  /\ hurt \subseteq hurt' /\ hurt' \subseteq File
  /\ c.at # "ex_record" => hurt' = hurt
  /\ c.at = "ex_record" /\ object[c.id] \in File => hurt' = hurt \cup {object[c.id]}
  /\ truth' \in [Name -> File \cup {None}]
  /\ \A n \in Name : truth'[n] = IF n = c.old \/ n = c.new THEN Resolve(n) ELSE truth[n]
  /\ faults' \in 0..kFaults
  /\ UNCHANGED <<entry, object, record>>

LEMMA CrashDoes ==
  ASSUME Inv, NEW s \in Session, Crash(s)
  PROVE  DoesCrash(s)
PROOF
  <1> USE DEF DoesCrash
  <1> USE LinkStoreAssumption
  <1> DEFINE c == call[s]
             k == kernel[s]
  <1>1. TypeOK
    BY DEF Inv
  <1>2. Ends(s) /\ KernelGone(s)
    BY <1>1, CallReturn, KernelDrop DEF Crash, Return, Ends
  <1>3. lock' = (IF lock = s THEN None ELSE lock)
    BY DEF Crash, Unlock
  <1>4. /\ left' \subseteq Id
        /\ \A i \in Id : i \in left' <=> \/ i \in left \/ i = c.id
                                         \/ k # None /\ k.done /\ (i = k.src \/ i = k.dst)
    <2> DEFINE fixing == IF k # None /\ k.done THEN {k.src, k.dst} ELSE {}
    <2>1. left' = left \cup (({c.id} \cup fixing) \cap Id)
      BY DEF Crash
    <2>2. \A i : i \in fixing <=> k # None /\ k.done /\ (i = k.src \/ i = k.dst)
      OBVIOUS
    <2>3. left \subseteq Id
      BY <1>1, Types
    <2> HIDE DEF fixing, c, k
    <2> QED
      BY <2>1, <2>2, <2>3
  <1>5. /\ hurt \subseteq hurt' /\ hurt' \subseteq File
        /\ c.at # "ex_record" => hurt' = hurt
        /\ c.at = "ex_record" /\ object[c.id] \in File => hurt' = hurt \cup {object[c.id]}
    BY <1>1, Types DEF Crash
  <1>6. \A n \in Name : Resolve(n) \in File \cup {None}
    BY DEF Resolve
  <1>7. /\ truth' \in [Name -> File \cup {None}]
        /\ \A n \in Name : truth'[n] = IF n = c.old \/ n = c.new THEN Resolve(n) ELSE truth[n]
    BY <1>1, <1>6, Types DEF Crash
  <1>8. faults' \in 0..kFaults
    BY <1>1, Types DEF Crash, Fault
  <1>9. UNCHANGED <<entry, object, record>>
    BY DEF Crash, disk
  <1>10. left \subseteq left'
    BY DEF Crash
  <1> HIDE DEF c, k
  <1> QED
    BY <1>2, <1>3, <1>4, <1>5, <1>7, <1>8, <1>9, <1>10, Zenon DEF c, k

(* A step, by what it finds and changes.                                   *)
Effect ==
  \/ \E n \in Name, f \in File : DoesCreate(n, f)
  \/ \E s \in Session, old \in Name, new \in Name : old # new /\ DoesLinkBegin(s, old, new)
  \/ \E s \in Session : DoesNewLink(s)
  \/ \E s \in Session : DoesNewRecord(s)
  \/ \E s \in Session : DoesNewMove(s)
  \/ \E s \in Session : DoesNewOld(s)
  \/ \E s \in Session : DoesUndoMove(s)
  \/ \E s \in Session : DoesUndoRecord(s)
  \/ \E s \in Session : DoesUndoNew(s)
  \/ \E s \in Session : DoesExLink(s)
  \/ \E s \in Session : DoesExRecord(s)
  \/ \E s \in Session, n \in Name : DoesUnlinkBegin(s, n)
  \/ \E s \in Session : DoesUnlinkName(s)
  \/ \E s \in Session : DoesRelease(s)
  \/ \E s \in Session : DoesRelMove(s)
  \/ \E s \in Session : DoesRelRecord(s)
  \/ \E s \in Session, from \in Name, to \in Name, op \in Op \ {"unlink"} :
       from # to /\ DoesRenameBegin(s, from, to, op)
  \/ \E s \in Session : DoesFixupBegin(s)
  \/ \E s \in Session : DoesMoved(s)
  \/ \E s \in Session : DoesKernelActs(s)
  \/ \E s \in Session : DoesKernelRefuses(s)
  \/ \E s \in Session : DoesCrash(s)

(* Under the invariant every step has one of the effects above.            *)
LEMMA StepDoes ==
  ASSUME Inv, ~tangled', Next
  PROVE  Effect
PROOF
  <1>1. ASSUME NEW n \in Name, NEW f \in File, Create(n, f)
       PROVE  Effect
    BY <1>1, CreateDoes DEF Effect
  <1>2. ASSUME NEW s \in Session, NEW old \in Name, NEW new \in Name, old # new,
               LinkBegin(s, old, new)
       PROVE  Effect
    BY <1>2, LinkBeginDoes DEF Effect
  <1>3. ASSUME NEW s \in Session, NewLink(s)
       PROVE  Effect
    BY <1>3, NewLinkDoes DEF Effect
  <1>4. ASSUME NEW s \in Session, NewRecord(s)
       PROVE  Effect
    BY <1>4, NewRecordDoes DEF Effect
  <1>5. ASSUME NEW s \in Session, NewMove(s)
       PROVE  Effect
    BY <1>5, NewMoveDoes DEF Effect
  <1>6. ASSUME NEW s \in Session, NewOld(s)
       PROVE  Effect
    BY <1>6, NewOldDoes DEF Effect
  <1>7. ASSUME NEW s \in Session, UndoMove(s)
       PROVE  Effect
    BY <1>7, UndoMoveDoes DEF Effect
  <1>8. ASSUME NEW s \in Session, UndoRecord(s)
       PROVE  Effect
    BY <1>8, UndoRecordDoes DEF Effect
  <1>9. ASSUME NEW s \in Session, UndoNew(s)
       PROVE  Effect
    BY <1>9, UndoNewDoes DEF Effect
  <1>10. ASSUME NEW s \in Session, ExLink(s)
       PROVE  Effect
    BY <1>10, ExLinkDoes DEF Effect
  <1>11. ASSUME NEW s \in Session, ExRecord(s)
       PROVE  Effect
    BY <1>11, ExRecordDoes DEF Effect
  <1>12. ASSUME NEW s \in Session, NEW n \in Name, UnlinkBegin(s, n)
       PROVE  Effect
    BY <1>12, UnlinkBeginDoes DEF Effect
  <1>13. ASSUME NEW s \in Session, unlink_name(s)
       PROVE  Effect
    BY <1>13, UnlinkNameDoes DEF Effect
  <1>14. ASSUME NEW s \in Session, release(s)
       PROVE  Effect
    BY <1>14, ReleaseDoes DEF Effect
  <1>15. ASSUME NEW s \in Session, RelMove(s)
       PROVE  Effect
    BY <1>15, RelMoveDoes DEF Effect
  <1>16. ASSUME NEW s \in Session, RelRecord(s)
       PROVE  Effect
    BY <1>16, RelRecordDoes DEF Effect
  <1>17. ASSUME NEW s \in Session, NEW from \in Name, NEW to \in Name,
              NEW op \in Op \ {"unlink"}, from # to, RenameBegin(s, from, to, op)
       PROVE  Effect
    BY <1>17, RenameBeginDoes DEF Effect
  <1>18. ASSUME NEW s \in Session, FixupBegin(s)
       PROVE  Effect
    BY <1>18, FixupBeginDoes DEF Effect
  <1>19. ASSUME NEW s \in Session, Moved(s)
       PROVE  Effect
    BY <1>19, MovedDoes DEF Effect
  <1>20. ASSUME NEW s \in Session, MovedBack(s)
       PROVE  Effect
    BY <1>20, MovedDoes DEF Effect
  <1>21. ASSUME NEW s \in Session, KernelActs(s)
       PROVE  Effect
    BY <1>21, KernelActsDoes DEF Effect
  <1>22. ASSUME NEW s \in Session, KernelRefuses(s)
       PROVE  Effect
    BY <1>22, KernelRefusesDoes DEF Effect
  <1>23. ASSUME NEW s \in Session, Crash(s)
       PROVE  Effect
    BY <1>23, CrashDoes DEF Effect
  <1> QED
    BY <1>1, <1>2, <1>3, <1>4, <1>5, <1>6, <1>7, <1>8, <1>9, <1>10, <1>11, <1>12, <1>13, <1>14,
           <1>15, <1>16, <1>17, <1>18, <1>19, <1>20, <1>21, <1>22, <1>23 DEF Next, SupervisorStep

(* Type correctness.                                                       *)
LEMMA TypeStep ==
  ASSUME TypeOK, Effect, tangled' \in BOOLEAN
  PROVE  TypeOK'
PROOF
  <1> USE LinkStoreAssumption
  <1>1. ASSUME NEW n \in Name, NEW f \in File, DoesCreate(n, f)
       PROVE  TypeOK'
    BY <1>1 DEF DoesCreate, TypeOK
  <1>2. ASSUME NEW s \in Session, NEW old \in Name, NEW new \in Name, old # new,
               DoesLinkBegin(s, old, new)
       PROVE  TypeOK'
    BY <1>2 DEF DoesLinkBegin, CallTo, Unknown, TypeOK
  <1>3. ASSUME NEW s \in Session, DoesNewLink(s)
       PROVE  TypeOK'
    BY <1>3 DEF DoesNewLink, CallTo, Goes, Ends, Linking, TypeOK
  <1>4. ASSUME NEW s \in Session, DoesNewRecord(s)
       PROVE  TypeOK'
    BY <1>4 DEF DoesNewRecord, CallTo, Goes, Linking, OnlyLink, TypeOK
  <1>5. ASSUME NEW s \in Session, DoesNewMove(s)
       PROVE  TypeOK'
    BY <1>5 DEF DoesNewMove, CallTo, Goes, Linking, OnlyLink, TypeOK
  <1>6. ASSUME NEW s \in Session, DoesNewOld(s)
       PROVE  TypeOK'
    BY <1>6 DEF DoesNewOld, CallTo, Goes, Ends, Linking, OnlyLink, TypeOK
  <1>7. ASSUME NEW s \in Session, DoesUndoMove(s)
       PROVE  TypeOK'
    BY <1>7 DEF DoesUndoMove, CallTo, Goes, Linking, OnlyLink, TypeOK
  <1>8. ASSUME NEW s \in Session, DoesUndoRecord(s)
       PROVE  TypeOK'
    BY <1>8 DEF DoesUndoRecord, CallTo, Goes, Linking, OnlyLink, TypeOK
  <1>9. ASSUME NEW s \in Session, DoesUndoNew(s)
       PROVE  TypeOK'
    BY <1>9 DEF DoesUndoNew, CallTo, Ends, Linking, OnlyLink, TypeOK
  <1>10. ASSUME NEW s \in Session, DoesExLink(s)
       PROVE  TypeOK'
    BY <1>10 DEF DoesExLink, CallTo, Goes, Ends, Linking, TypeOK
  <1>11. ASSUME NEW s \in Session, DoesExRecord(s)
       PROVE  TypeOK'
    BY <1>11 DEF DoesExRecord, CallTo, Ends, Linking, TypeOK
  <1>12. ASSUME NEW s \in Session, NEW n \in Name, DoesUnlinkBegin(s, n)
       PROVE  TypeOK'
    BY <1>12 DEF DoesUnlinkBegin, CallTo, KernelIs, TypeOK
  <1>13. ASSUME NEW s \in Session, DoesUnlinkName(s)
       PROVE  TypeOK'
    BY <1>13 DEF DoesUnlinkName, CallTo, Goes, Ends, TypeOK
  <1>14. ASSUME NEW s \in Session, DoesRelease(s)
       PROVE  TypeOK'
    BY <1>14 DEF DoesRelease, CallTo, Goes, Ends, Over, Releases, CountsLess, TypeOK
  <1>15. ASSUME NEW s \in Session, DoesRelMove(s)
       PROVE  TypeOK'
    BY <1>15 DEF DoesRelMove, CallTo, Goes, Ends, Over, Releases, CountsLess, TypeOK
  <1>16. ASSUME NEW s \in Session, DoesRelRecord(s)
       PROVE  TypeOK'
    BY <1>16 DEF DoesRelRecord, CallTo, Goes, Ends, Over, TypeOK
  <1>17. ASSUME NEW s \in Session, NEW from \in Name, NEW to \in Name,
              NEW op \in Op \ {"unlink"}, from # to, DoesRenameBegin(s, from, to, op)
       PROVE  TypeOK'
    BY <1>17 DEF DoesRenameBegin, KernelIs, TypeOK
  <1>18. ASSUME NEW s \in Session, DoesFixupBegin(s)
       PROVE  TypeOK'
    BY <1>18 DEF DoesFixupBegin, CallTo, TypeOK
  <1>19. ASSUME NEW s \in Session, DoesMoved(s)
       PROVE  TypeOK'
    BY <1>19 DEF DoesMoved, CallTo, Goes, Ends, KernelGone, CountsSame, TypeOK
  <1>20. ASSUME NEW s \in Session, DoesKernelActs(s)
       PROVE  TypeOK'
    BY <1>20 DEF DoesKernelActs, KernelIs, KernelGone, Exchanged, Renamed, TypeOK
  <1>21. ASSUME NEW s \in Session, DoesKernelRefuses(s)
       PROVE  TypeOK'
    BY <1>21 DEF DoesKernelRefuses, KernelGone, TypeOK
  <1>22. ASSUME NEW s \in Session, DoesCrash(s)
       PROVE  TypeOK'
    BY <1>22 DEF DoesCrash, CallTo, Ends, KernelGone, TypeOK
  <1> QED
    BY <1>1, <1>2, <1>3, <1>4, <1>5, <1>6, <1>7, <1>8, <1>9, <1>10, <1>11, <1>12, <1>13, <1>14,
           <1>15, <1>16, <1>17, <1>18, <1>19, <1>20, <1>21, <1>22 DEF Effect

(* Only the session at work under the lock holds it.                       *)
LEMMA LockStep ==
  ASSUME TypeOK, LockInv, Effect
  PROVE  LockInv'
PROOF
  <1> USE LinkStoreAssumption
  <1>1. ASSUME NEW n \in Name, NEW f \in File, DoesCreate(n, f)
       PROVE  LockInv'
    BY <1>1 DEF DoesCreate, LockInv, Holding, Stored
  <1>2. ASSUME NEW s \in Session, NEW old \in Name, NEW new \in Name, old # new,
               DoesLinkBegin(s, old, new)
       PROVE  LockInv'
    BY <1>2 DEF DoesLinkBegin, CallTo, Unknown, LockInv, Holding, Stored
  <1>3. ASSUME NEW s \in Session, DoesNewLink(s)
       PROVE  LockInv'
    BY <1>3 DEF DoesNewLink, CallTo, Goes, Ends, Linking, LockInv, Holding, Stored
  <1>4. ASSUME NEW s \in Session, DoesNewRecord(s)
       PROVE  LockInv'
    BY <1>4 DEF DoesNewRecord, CallTo, Goes, Linking, OnlyLink, LockInv, Holding, Stored
  <1>5. ASSUME NEW s \in Session, DoesNewMove(s)
       PROVE  LockInv'
    BY <1>5 DEF DoesNewMove, CallTo, Goes, Linking, OnlyLink, LockInv, Holding, Stored
  <1>6. ASSUME NEW s \in Session, DoesNewOld(s)
       PROVE  LockInv'
    BY <1>6 DEF DoesNewOld, CallTo, Goes, Ends, Linking, OnlyLink, LockInv, Holding, Stored
  <1>7. ASSUME NEW s \in Session, DoesUndoMove(s)
       PROVE  LockInv'
    BY <1>7 DEF DoesUndoMove, CallTo, Goes, Linking, OnlyLink, LockInv, Holding, Stored
  <1>8. ASSUME NEW s \in Session, DoesUndoRecord(s)
       PROVE  LockInv'
    BY <1>8 DEF DoesUndoRecord, CallTo, Goes, Linking, OnlyLink, LockInv, Holding, Stored
  <1>9. ASSUME NEW s \in Session, DoesUndoNew(s)
       PROVE  LockInv'
    BY <1>9 DEF DoesUndoNew, CallTo, Ends, Linking, OnlyLink, LockInv, Holding, Stored
  <1>10. ASSUME NEW s \in Session, DoesExLink(s)
       PROVE  LockInv'
    BY <1>10 DEF DoesExLink, CallTo, Goes, Ends, Linking, LockInv, Holding, Stored
  <1>11. ASSUME NEW s \in Session, DoesExRecord(s)
       PROVE  LockInv'
    BY <1>11 DEF DoesExRecord, CallTo, Ends, Linking, LockInv, Holding, Stored
  <1>12. ASSUME NEW s \in Session, NEW n \in Name, DoesUnlinkBegin(s, n)
       PROVE  LockInv'
    BY <1>12 DEF DoesUnlinkBegin, CallTo, KernelIs, LockInv, Holding, Stored
  <1>13. ASSUME NEW s \in Session, DoesUnlinkName(s)
       PROVE  LockInv'
    BY <1>13 DEF DoesUnlinkName, CallTo, Goes, Ends, LockInv, Holding, Stored
  <1>14. ASSUME NEW s \in Session, DoesRelease(s)
       PROVE  LockInv'
    BY <1>14 DEF DoesRelease, CallTo, Goes, Ends, Over, Releases, CountsLess, LockInv, Holding,
           Stored
  <1>15. ASSUME NEW s \in Session, DoesRelMove(s)
       PROVE  LockInv'
    BY <1>15 DEF DoesRelMove, CallTo, Goes, Ends, Over, Releases, CountsLess, LockInv, Holding,
           Stored
  <1>16. ASSUME NEW s \in Session, DoesRelRecord(s)
       PROVE  LockInv'
    BY <1>16 DEF DoesRelRecord, CallTo, Goes, Ends, Over, LockInv, Holding, Stored
  <1>17. ASSUME NEW s \in Session, NEW from \in Name, NEW to \in Name,
              NEW op \in Op \ {"unlink"}, from # to, DoesRenameBegin(s, from, to, op)
       PROVE  LockInv'
    BY <1>17 DEF DoesRenameBegin, KernelIs, LockInv, Holding, Stored
  <1>18. ASSUME NEW s \in Session, DoesFixupBegin(s)
       PROVE  LockInv'
    BY <1>18 DEF DoesFixupBegin, CallTo, LockInv, Holding, Stored
  <1>19. ASSUME NEW s \in Session, DoesMoved(s)
       PROVE  LockInv'
    BY <1>19 DEF DoesMoved, CallTo, Goes, Ends, KernelGone, LockInv, Holding, Stored
  <1>20. ASSUME NEW s \in Session, DoesKernelActs(s)
       PROVE  LockInv'
    BY <1>20 DEF DoesKernelActs, KernelIs, KernelGone, Exchanged, Renamed, LockInv, Holding,
           Stored
  <1>21. ASSUME NEW s \in Session, DoesKernelRefuses(s)
       PROVE  LockInv'
    BY <1>21 DEF DoesKernelRefuses, KernelGone, LockInv, Holding, Stored
  <1>22. ASSUME NEW s \in Session, DoesCrash(s)
       PROVE  LockInv'
    BY <1>22 DEF DoesCrash, CallTo, Ends, KernelGone, LockInv, Holding, Stored
  <1> QED
    BY <1>1, <1>2, <1>3, <1>4, <1>5, <1>6, <1>7, <1>8, <1>9, <1>10, <1>11, <1>12, <1>13, <1>14,
           <1>15, <1>16, <1>17, <1>18, <1>19, <1>20, <1>21, <1>22 DEF Effect

(* No call begins on a name another one uses.                              *)
LEMMA BusyStep ==
  ASSUME TypeOK, BusyInv, Effect
  PROVE  BusyInv'
PROOF
  <1> USE LinkStoreAssumption
  <1>1. ASSUME NEW n \in Name, NEW f \in File, DoesCreate(n, f)
       PROVE  BusyInv'
    BY <1>1 DEF DoesCreate, BusyInv, Uses, InCallOf, InKernelOf
  <1>2. ASSUME NEW s \in Session, NEW old \in Name, NEW new \in Name, old # new,
               DoesLinkBegin(s, old, new)
       PROVE  BusyInv'
    BY <1>2 DEF DoesLinkBegin, CallTo, Unknown, BusyInv, Uses, InCallOf, InKernelOf
  <1>3. ASSUME NEW s \in Session, DoesNewLink(s)
       PROVE  BusyInv'
    BY <1>3 DEF DoesNewLink, CallTo, Goes, Ends, Linking, BusyInv, Uses, InCallOf, InKernelOf
  <1>4. ASSUME NEW s \in Session, DoesNewRecord(s)
       PROVE  BusyInv'
    BY <1>4 DEF DoesNewRecord, CallTo, Goes, Linking, OnlyLink, BusyInv, Uses, InCallOf,
           InKernelOf
  <1>5. ASSUME NEW s \in Session, DoesNewMove(s)
       PROVE  BusyInv'
    BY <1>5 DEF DoesNewMove, CallTo, Goes, Linking, OnlyLink, BusyInv, Uses, InCallOf, InKernelOf
  <1>6. ASSUME NEW s \in Session, DoesNewOld(s)
       PROVE  BusyInv'
    BY <1>6 DEF DoesNewOld, CallTo, Goes, Ends, Linking, OnlyLink, BusyInv, Uses, InCallOf,
           InKernelOf
  <1>7. ASSUME NEW s \in Session, DoesUndoMove(s)
       PROVE  BusyInv'
    BY <1>7 DEF DoesUndoMove, CallTo, Goes, Linking, OnlyLink, BusyInv, Uses, InCallOf, InKernelOf
  <1>8. ASSUME NEW s \in Session, DoesUndoRecord(s)
       PROVE  BusyInv'
    BY <1>8 DEF DoesUndoRecord, CallTo, Goes, Linking, OnlyLink, BusyInv, Uses, InCallOf,
           InKernelOf
  <1>9. ASSUME NEW s \in Session, DoesUndoNew(s)
       PROVE  BusyInv'
    BY <1>9 DEF DoesUndoNew, CallTo, Ends, Linking, OnlyLink, BusyInv, Uses, InCallOf, InKernelOf
  <1>10. ASSUME NEW s \in Session, DoesExLink(s)
       PROVE  BusyInv'
    BY <1>10 DEF DoesExLink, CallTo, Goes, Ends, Linking, BusyInv, Uses, InCallOf, InKernelOf
  <1>11. ASSUME NEW s \in Session, DoesExRecord(s)
       PROVE  BusyInv'
    BY <1>11 DEF DoesExRecord, CallTo, Ends, Linking, BusyInv, Uses, InCallOf, InKernelOf
  <1>12. ASSUME NEW s \in Session, NEW n \in Name, DoesUnlinkBegin(s, n)
       PROVE  BusyInv'
    BY <1>12 DEF DoesUnlinkBegin, CallTo, KernelIs, BusyInv, Uses, InCallOf, InKernelOf
  <1>13. ASSUME NEW s \in Session, DoesUnlinkName(s)
       PROVE  BusyInv'
    BY <1>13 DEF DoesUnlinkName, CallTo, Goes, Ends, BusyInv, Uses, InCallOf, InKernelOf
  <1>14. ASSUME NEW s \in Session, DoesRelease(s)
       PROVE  BusyInv'
    BY <1>14 DEF DoesRelease, CallTo, Goes, Ends, Over, Releases, CountsLess, BusyInv, Uses,
           InCallOf, InKernelOf
  <1>15. ASSUME NEW s \in Session, DoesRelMove(s)
       PROVE  BusyInv'
    BY <1>15 DEF DoesRelMove, CallTo, Goes, Ends, Over, Releases, CountsLess, BusyInv, Uses,
           InCallOf, InKernelOf
  <1>16. ASSUME NEW s \in Session, DoesRelRecord(s)
       PROVE  BusyInv'
    BY <1>16 DEF DoesRelRecord, CallTo, Goes, Ends, Over, BusyInv, Uses, InCallOf, InKernelOf
  <1>17. ASSUME NEW s \in Session, NEW from \in Name, NEW to \in Name,
              NEW op \in Op \ {"unlink"}, from # to, DoesRenameBegin(s, from, to, op)
       PROVE  BusyInv'
    BY <1>17 DEF DoesRenameBegin, KernelIs, BusyInv, Uses, InCallOf, InKernelOf
  <1>18. ASSUME NEW s \in Session, DoesFixupBegin(s)
       PROVE  BusyInv'
    BY <1>18 DEF DoesFixupBegin, CallTo, BusyInv, Uses, InCallOf, InKernelOf
  <1>19. ASSUME NEW s \in Session, DoesMoved(s)
       PROVE  BusyInv'
    <2>1. CASE Goes(s, "moved_back") /\ kernel' = kernel
      <3>1. call[s].at \in {"moved", "moved_back"}
        BY <1>19 DEF DoesMoved
      <3> QED
        BY <2>1, <3>1 DEF CallTo, Goes, BusyInv, Uses, InCallOf, InKernelOf
    <2>2. CASE Ends(s) /\ KernelGone(s)
      BY <2>2 DEF CallTo, Ends, KernelGone, BusyInv, Uses, InCallOf, InKernelOf
    <2> QED
      BY <1>19, <2>1, <2>2 DEF DoesMoved
  <1>20. ASSUME NEW s \in Session, DoesKernelActs(s)
       PROVE  BusyInv'
    BY <1>20 DEF DoesKernelActs, KernelIs, KernelGone, Exchanged, Renamed, BusyInv, Uses,
           InCallOf, InKernelOf
  <1>21. ASSUME NEW s \in Session, DoesKernelRefuses(s)
       PROVE  BusyInv'
    BY <1>21 DEF DoesKernelRefuses, KernelGone, BusyInv, Uses, InCallOf, InKernelOf
  <1>22. ASSUME NEW s \in Session, DoesCrash(s)
       PROVE  BusyInv'
    BY <1>22 DEF DoesCrash, CallTo, Ends, KernelGone, BusyInv, Uses, InCallOf, InKernelOf
  <1> QED
    BY <1>1, <1>2, <1>3, <1>4, <1>5, <1>6, <1>7, <1>8, <1>9, <1>10, <1>11, <1>12, <1>13, <1>14,
           <1>15, <1>16, <1>17, <1>18, <1>19, <1>20, <1>21, <1>22 DEF Effect

(* The fields of a call fit the point it has reached.                      *)
LEMMA ShapeStep ==
  ASSUME TypeOK, ShapeInv, Effect
  PROVE  ShapeInv'
PROOF
  <1> USE LinkStoreAssumption
  <1>1. ASSUME NEW n \in Name, NEW f \in File, DoesCreate(n, f)
       PROVE  ShapeInv'
    BY <1>1 DEF DoesCreate, ShapeInv, CallShape, KernelShape, Making, Named, Stored, Releasing,
           Replaced
  <1>2. ASSUME NEW s \in Session, NEW old \in Name, NEW new \in Name, old # new,
               DoesLinkBegin(s, old, new)
       PROVE  ShapeInv'
    BY <1>2 DEF DoesLinkBegin, CallTo, Unknown, ShapeInv, CallShape, KernelShape, Making, Named,
           Stored, Releasing, Replaced
  <1>3. ASSUME NEW s \in Session, DoesNewLink(s)
       PROVE  ShapeInv'
    BY <1>3 DEF DoesNewLink, CallTo, Goes, Ends, Linking, ShapeInv, CallShape, KernelShape,
           Making, Named, Stored, Releasing, Replaced
  <1>4. ASSUME NEW s \in Session, DoesNewRecord(s)
       PROVE  ShapeInv'
    BY <1>4 DEF DoesNewRecord, CallTo, Goes, Linking, OnlyLink, ShapeInv, CallShape, KernelShape,
           Making, Named, Stored, Releasing, Replaced
  <1>5. ASSUME NEW s \in Session, DoesNewMove(s)
       PROVE  ShapeInv'
    BY <1>5 DEF DoesNewMove, CallTo, Goes, Linking, OnlyLink, ShapeInv, CallShape, KernelShape,
           Making, Named, Stored, Releasing, Replaced
  <1>6. ASSUME NEW s \in Session, DoesNewOld(s)
       PROVE  ShapeInv'
    BY <1>6 DEF DoesNewOld, CallTo, Goes, Ends, Linking, OnlyLink, ShapeInv, CallShape,
           KernelShape, Making, Named, Stored, Releasing, Replaced
  <1>7. ASSUME NEW s \in Session, DoesUndoMove(s)
       PROVE  ShapeInv'
    BY <1>7 DEF DoesUndoMove, CallTo, Goes, Linking, OnlyLink, ShapeInv, CallShape, KernelShape,
           Making, Named, Stored, Releasing, Replaced
  <1>8. ASSUME NEW s \in Session, DoesUndoRecord(s)
       PROVE  ShapeInv'
    BY <1>8 DEF DoesUndoRecord, CallTo, Goes, Linking, OnlyLink, ShapeInv, CallShape, KernelShape,
           Making, Named, Stored, Releasing, Replaced
  <1>9. ASSUME NEW s \in Session, DoesUndoNew(s)
       PROVE  ShapeInv'
    BY <1>9 DEF DoesUndoNew, CallTo, Ends, Linking, OnlyLink, ShapeInv, CallShape, KernelShape,
           Making, Named, Stored, Releasing, Replaced
  <1>10. ASSUME NEW s \in Session, DoesExLink(s)
       PROVE  ShapeInv'
    BY <1>10 DEF DoesExLink, CallTo, Goes, Ends, Linking, ShapeInv, CallShape, KernelShape,
           Making, Named, Stored, Releasing, Replaced
  <1>11. ASSUME NEW s \in Session, DoesExRecord(s)
       PROVE  ShapeInv'
    BY <1>11 DEF DoesExRecord, CallTo, Ends, Linking, ShapeInv, CallShape, KernelShape, Making,
           Named, Stored, Releasing, Replaced
  <1>12. ASSUME NEW s \in Session, NEW n \in Name, DoesUnlinkBegin(s, n)
       PROVE  ShapeInv'
    BY <1>12 DEF DoesUnlinkBegin, CallTo, KernelIs, ShapeInv, CallShape, KernelShape, Making,
           Named, Stored, Releasing, Replaced
  <1>13. ASSUME NEW s \in Session, DoesUnlinkName(s)
       PROVE  ShapeInv'
    BY <1>13 DEF DoesUnlinkName, CallTo, Goes, Ends, ShapeInv, CallShape, KernelShape, Making,
           Named, Stored, Releasing, Replaced
  <1>14. ASSUME NEW s \in Session, DoesRelease(s)
       PROVE  ShapeInv'
    BY <1>14 DEF DoesRelease, CallTo, Goes, Ends, Over, Releases, CountsLess, ShapeInv, CallShape,
           KernelShape, Making, Named, Stored, Releasing, Replaced
  <1>15. ASSUME NEW s \in Session, DoesRelMove(s)
       PROVE  ShapeInv'
    BY <1>15 DEF DoesRelMove, CallTo, Goes, Ends, Over, Releases, CountsLess, ShapeInv, CallShape,
           KernelShape, Making, Named, Stored, Releasing, Replaced
  <1>16. ASSUME NEW s \in Session, DoesRelRecord(s)
       PROVE  ShapeInv'
    BY <1>16 DEF DoesRelRecord, CallTo, Goes, Ends, Over, ShapeInv, CallShape, KernelShape,
           Making, Named, Stored, Releasing, Replaced
  <1>17. ASSUME NEW s \in Session, NEW from \in Name, NEW to \in Name,
              NEW op \in Op \ {"unlink"}, from # to, DoesRenameBegin(s, from, to, op)
       PROVE  ShapeInv'
    BY <1>17 DEF DoesRenameBegin, KernelIs, ShapeInv, CallShape, KernelShape, Making, Named,
           Stored, Releasing, Replaced
  <1>18. ASSUME NEW s \in Session, DoesFixupBegin(s)
       PROVE  ShapeInv'
    BY <1>18 DEF DoesFixupBegin, CallTo, ShapeInv, CallShape, KernelShape, Making, Named, Stored,
           Releasing, Replaced
  <1>19. ASSUME NEW s \in Session, DoesMoved(s)
       PROVE  ShapeInv'
    <2>1. CASE Goes(s, "moved_back") /\ kernel' = kernel
      <3>1. call[s].at \in {"moved", "moved_back"}
        BY <1>19 DEF DoesMoved
      <3> QED
        BY <2>1, <3>1 DEF CallTo, Goes, ShapeInv, CallShape, KernelShape, Making, Named, Stored,
               Releasing, Replaced
    <2>2. CASE Ends(s) /\ KernelGone(s)
      BY <2>2 DEF CallTo, Ends, KernelGone, ShapeInv, CallShape, KernelShape, Making, Named,
             Stored, Releasing, Replaced
    <2> QED
      BY <1>19, <2>1, <2>2 DEF DoesMoved
  <1>20. ASSUME NEW s \in Session, DoesKernelActs(s)
       PROVE  ShapeInv'
    BY <1>20 DEF DoesKernelActs, KernelIs, KernelGone, Exchanged, Renamed, ShapeInv, CallShape,
           KernelShape, Making, Named, Stored, Releasing, Replaced
  <1>21. ASSUME NEW s \in Session, DoesKernelRefuses(s)
       PROVE  ShapeInv'
    BY <1>21 DEF DoesKernelRefuses, KernelGone, ShapeInv, CallShape, KernelShape, Making, Named,
           Stored, Releasing, Replaced
  <1>22. ASSUME NEW s \in Session, DoesCrash(s)
       PROVE  ShapeInv'
    BY <1>22 DEF DoesCrash, CallTo, Ends, KernelGone, ShapeInv, CallShape, KernelShape, Making,
           Named, Stored, Releasing, Replaced
  <1> QED
    BY <1>1, <1>2, <1>3, <1>4, <1>5, <1>6, <1>7, <1>8, <1>9, <1>10, <1>11, <1>12, <1>13, <1>14,
           <1>15, <1>16, <1>17, <1>18, <1>19, <1>20, <1>21, <1>22 DEF Effect

(* An id that link_new() drew is in nobody else's hands.                   *)
LEMMA OwnStep ==
  ASSUME TypeOK, ShapeInv, OwnInv, NewInv, Effect
  PROVE  OwnInv'
PROOF
  <1> USE LinkStoreAssumption
  <1>a. \A t \in Session : call[t].at \in Making => call[t].id \in Id
    BY DEF ShapeInv, CallShape
  <1>1. ASSUME NEW n \in Name, NEW f \in File, DoesCreate(n, f)
       PROVE  OwnInv'
    BY <1>1, <1>a DEF DoesCreate, OwnInv, Making, Named, Stored
  <1>2. ASSUME NEW s \in Session, NEW old \in Name, NEW new \in Name, old # new,
               DoesLinkBegin(s, old, new)
       PROVE  OwnInv'
    BY <1>2, <1>a DEF DoesLinkBegin, CallTo, Unknown, OwnInv, NewInv, Making, Named, Stored, Uses,
           InCallOf, InKernelOf
  <1>3. ASSUME NEW s \in Session, DoesNewLink(s)
       PROVE  OwnInv'
    BY <1>3, <1>a DEF DoesNewLink, CallTo, Goes, Ends, Linking, OwnInv, Making, Named, Stored
  <1>4. ASSUME NEW s \in Session, DoesNewRecord(s)
       PROVE  OwnInv'
    BY <1>4, <1>a DEF DoesNewRecord, CallTo, Goes, Linking, OnlyLink, OwnInv, Making, Named,
           Stored
  <1>5. ASSUME NEW s \in Session, DoesNewMove(s)
       PROVE  OwnInv'
    BY <1>5, <1>a DEF DoesNewMove, CallTo, Goes, Linking, OnlyLink, OwnInv, Making, Named, Stored
  <1>6. ASSUME NEW s \in Session, DoesNewOld(s)
       PROVE  OwnInv'
    BY <1>6, <1>a DEF DoesNewOld, CallTo, Goes, Ends, Linking, OnlyLink, OwnInv, Making, Named,
           Stored
  <1>7. ASSUME NEW s \in Session, DoesUndoMove(s)
       PROVE  OwnInv'
    BY <1>7, <1>a DEF DoesUndoMove, CallTo, Goes, Linking, OnlyLink, OwnInv, Making, Named, Stored
  <1>8. ASSUME NEW s \in Session, DoesUndoRecord(s)
       PROVE  OwnInv'
    BY <1>8, <1>a DEF DoesUndoRecord, CallTo, Goes, Linking, OnlyLink, OwnInv, Making, Named,
           Stored
  <1>9. ASSUME NEW s \in Session, DoesUndoNew(s)
       PROVE  OwnInv'
    BY <1>9, <1>a DEF DoesUndoNew, CallTo, Ends, Linking, OnlyLink, OwnInv, Making, Named, Stored
  <1>10. ASSUME NEW s \in Session, DoesExLink(s)
       PROVE  OwnInv'
    BY <1>10, <1>a DEF DoesExLink, CallTo, Goes, Ends, Linking, OwnInv, Making, Named, Stored
  <1>11. ASSUME NEW s \in Session, DoesExRecord(s)
       PROVE  OwnInv'
    BY <1>11, <1>a DEF DoesExRecord, CallTo, Ends, Linking, OwnInv, Making, Named, Stored
  <1>12. ASSUME NEW s \in Session, NEW n \in Name, DoesUnlinkBegin(s, n)
       PROVE  OwnInv'
    BY <1>12, <1>a DEF DoesUnlinkBegin, CallTo, KernelIs, OwnInv, NewInv, Making, Named, Stored,
           Uses, InCallOf, InKernelOf
  <1>13. ASSUME NEW s \in Session, DoesUnlinkName(s)
       PROVE  OwnInv'
    BY <1>13, <1>a DEF DoesUnlinkName, CallTo, Goes, Ends, OwnInv, Making, Named, Stored
  <1>14. ASSUME NEW s \in Session, DoesRelease(s)
       PROVE  OwnInv'
    BY <1>14, <1>a DEF DoesRelease, CallTo, Goes, Ends, Over, Releases, CountsLess, OwnInv,
           Making, Named, Stored
  <1>15. ASSUME NEW s \in Session, DoesRelMove(s)
       PROVE  OwnInv'
    BY <1>15, <1>a DEF DoesRelMove, CallTo, Goes, Ends, Over, Releases, CountsLess, OwnInv,
           Making, Named, Stored
  <1>16. ASSUME NEW s \in Session, DoesRelRecord(s)
       PROVE  OwnInv'
    BY <1>16, <1>a DEF DoesRelRecord, CallTo, Goes, Ends, Over, OwnInv, Making, Named, Stored
  <1>17. ASSUME NEW s \in Session, NEW from \in Name, NEW to \in Name,
              NEW op \in Op \ {"unlink"}, from # to, DoesRenameBegin(s, from, to, op)
       PROVE  OwnInv'
    BY <1>17, <1>a DEF DoesRenameBegin, KernelIs, OwnInv, NewInv, Making, Named, Stored, Uses,
           InCallOf, InKernelOf
  <1>18. ASSUME NEW s \in Session, DoesFixupBegin(s)
       PROVE  OwnInv'
    BY <1>18, <1>a DEF DoesFixupBegin, CallTo, OwnInv, Making, Named, Stored
  <1>19. ASSUME NEW s \in Session, DoesMoved(s)
       PROVE  OwnInv'
    <2>1. CASE Goes(s, "moved_back") /\ kernel' = kernel
      <3>1. call[s].at \in {"moved", "moved_back"}
        BY <1>19 DEF DoesMoved
      <3> QED
        BY <2>1, <3>1, <1>a DEF CallTo, Goes, OwnInv, Making, Named, Stored
    <2>2. CASE Ends(s) /\ KernelGone(s)
      BY <2>2, <1>a DEF CallTo, Ends, KernelGone, OwnInv, Making, Named, Stored
    <2> QED
      BY <1>19, <2>1, <2>2 DEF DoesMoved
  <1>20. ASSUME NEW s \in Session, DoesKernelActs(s)
       PROVE  OwnInv'
    BY <1>20, <1>a DEF DoesKernelActs, KernelIs, KernelGone, Exchanged, Renamed, OwnInv, Making,
           Named, Stored
  <1>21. ASSUME NEW s \in Session, DoesKernelRefuses(s)
       PROVE  OwnInv'
    BY <1>21, <1>a DEF DoesKernelRefuses, KernelGone, OwnInv, Making, Named, Stored
  <1>22. ASSUME NEW s \in Session, DoesCrash(s)
       PROVE  OwnInv'
    BY <1>22, <1>a DEF DoesCrash, CallTo, Ends, KernelGone, OwnInv, Making, Named, Stored
  <1> QED
    BY <1>1, <1>2, <1>3, <1>4, <1>5, <1>6, <1>7, <1>8, <1>9, <1>10, <1>11, <1>12, <1>13, <1>14,
           <1>15, <1>16, <1>17, <1>18, <1>19, <1>20, <1>21, <1>22 DEF Effect

(* link_new() finds the names, the record and the object as it left them.  *)
LEMMA NewStep ==
  ASSUME TypeOK, BusyInv, ShapeInv, OwnInv, NewInv, Effect
  PROVE  NewInv'
PROOF
  <1> USE LinkStoreAssumption
  <1>a. \A t \in Session : call[t].at \in Making =>
          call[t].old \in Name /\ call[t].new \in Name /\ call[t].id \in Id
    BY DEF ShapeInv, CallShape
  <1> USE DEF TypeOK
  <1>1. ASSUME NEW n \in Name, NEW f \in File, DoesCreate(n, f)
       PROVE  NewInv'
    BY <1>1, <1>a DEF DoesCreate, NewInv, OwnInv, BusyInv, Uses, InCallOf, InKernelOf, Making,
           Named, Stored
  <1>2. ASSUME NEW s \in Session, NEW old \in Name, NEW new \in Name, old # new,
               DoesLinkBegin(s, old, new)
       PROVE  NewInv'
    BY <1>2, <1>a DEF DoesLinkBegin, CallTo, Unknown, NewInv, OwnInv, BusyInv, Uses, InCallOf,
           InKernelOf, Making, Named, Stored
  <1>3. ASSUME NEW s \in Session, DoesNewLink(s)
       PROVE  NewInv'
    BY <1>3, <1>a DEF DoesNewLink, CallTo, Goes, Ends, Linking, NewInv, OwnInv, BusyInv, Uses,
           InCallOf, InKernelOf, Making, Named, Stored
  <1>4. ASSUME NEW s \in Session, DoesNewRecord(s)
       PROVE  NewInv'
    BY <1>4, <1>a DEF DoesNewRecord, CallTo, Goes, Linking, OnlyLink, NewInv, OwnInv, BusyInv,
           Uses, InCallOf, InKernelOf, Making, Named, Stored
  <1>5. ASSUME NEW s \in Session, DoesNewMove(s)
       PROVE  NewInv'
    BY <1>5, <1>a DEF DoesNewMove, CallTo, Goes, Linking, OnlyLink, NewInv, OwnInv, BusyInv, Uses,
           InCallOf, InKernelOf, Making, Named, Stored
  <1>6. ASSUME NEW s \in Session, DoesNewOld(s)
       PROVE  NewInv'
    BY <1>6, <1>a DEF DoesNewOld, CallTo, Goes, Ends, Linking, OnlyLink, NewInv, OwnInv, BusyInv,
           Uses, InCallOf, InKernelOf, Making, Named, Stored
  <1>7. ASSUME NEW s \in Session, DoesUndoMove(s)
       PROVE  NewInv'
    BY <1>7, <1>a DEF DoesUndoMove, CallTo, Goes, Linking, OnlyLink, NewInv, OwnInv, BusyInv,
           Uses, InCallOf, InKernelOf, Making, Named, Stored
  <1>8. ASSUME NEW s \in Session, DoesUndoRecord(s)
       PROVE  NewInv'
    BY <1>8, <1>a DEF DoesUndoRecord, CallTo, Goes, Linking, OnlyLink, NewInv, OwnInv, BusyInv,
           Uses, InCallOf, InKernelOf, Making, Named, Stored
  <1>9. ASSUME NEW s \in Session, DoesUndoNew(s)
       PROVE  NewInv'
    BY <1>9, <1>a DEF DoesUndoNew, CallTo, Ends, Linking, OnlyLink, NewInv, OwnInv, BusyInv, Uses,
           InCallOf, InKernelOf, Making, Named, Stored
  <1>10. ASSUME NEW s \in Session, DoesExLink(s)
       PROVE  NewInv'
    BY <1>10, <1>a DEF DoesExLink, CallTo, Goes, Ends, Linking, NewInv, OwnInv, BusyInv, Uses,
           InCallOf, InKernelOf, Making, Named, Stored
  <1>11. ASSUME NEW s \in Session, DoesExRecord(s)
       PROVE  NewInv'
    BY <1>11, <1>a DEF DoesExRecord, CallTo, Ends, Linking, NewInv, OwnInv, BusyInv, Uses,
           InCallOf, InKernelOf, Making, Named, Stored
  <1>12. ASSUME NEW s \in Session, NEW n \in Name, DoesUnlinkBegin(s, n)
       PROVE  NewInv'
    BY <1>12, <1>a DEF DoesUnlinkBegin, CallTo, KernelIs, NewInv, OwnInv, BusyInv, Uses, InCallOf,
           InKernelOf, Making, Named, Stored
  <1>13. ASSUME NEW s \in Session, DoesUnlinkName(s)
       PROVE  NewInv'
    BY <1>13, <1>a DEF DoesUnlinkName, CallTo, Goes, Ends, NewInv, OwnInv, BusyInv, Uses,
           InCallOf, InKernelOf, Making, Named, Stored
  <1>14. ASSUME NEW s \in Session, DoesRelease(s)
       PROVE  NewInv'
    BY <1>14, <1>a DEF DoesRelease, CallTo, Goes, Ends, Over, Releases, CountsLess, NewInv,
           OwnInv, BusyInv, Uses, InCallOf, InKernelOf, Making, Named, Stored
  <1>15. ASSUME NEW s \in Session, DoesRelMove(s)
       PROVE  NewInv'
    BY <1>15, <1>a DEF DoesRelMove, CallTo, Goes, Ends, Over, Releases, CountsLess, NewInv,
           OwnInv, BusyInv, Uses, InCallOf, InKernelOf, Making, Named, Stored
  <1>16. ASSUME NEW s \in Session, DoesRelRecord(s)
       PROVE  NewInv'
    BY <1>16, <1>a DEF DoesRelRecord, CallTo, Goes, Ends, Over, NewInv, OwnInv, BusyInv, Uses,
           InCallOf, InKernelOf, Making, Named, Stored
  <1>17. ASSUME NEW s \in Session, NEW from \in Name, NEW to \in Name,
              NEW op \in Op \ {"unlink"}, from # to, DoesRenameBegin(s, from, to, op)
       PROVE  NewInv'
    BY <1>17, <1>a DEF DoesRenameBegin, KernelIs, NewInv, OwnInv, BusyInv, Uses, InCallOf,
           InKernelOf, Making, Named, Stored
  <1>18. ASSUME NEW s \in Session, DoesFixupBegin(s)
       PROVE  NewInv'
    BY <1>18, <1>a DEF DoesFixupBegin, CallTo, NewInv, OwnInv, BusyInv, Uses, InCallOf,
           InKernelOf, Making, Named, Stored
  <1>19. ASSUME NEW s \in Session, DoesMoved(s)
       PROVE  NewInv'
    <2>0. CountsSame /\ entry' = entry /\ object' = object
      BY <1>19 DEF DoesMoved
    <2>1. CASE Goes(s, "moved_back") /\ kernel' = kernel
      <3>1. call[s].at \in {"moved", "moved_back"}
        BY <1>19 DEF DoesMoved
      <3> QED
        BY <2>1, <3>1, <1>a, <2>0 DEF CallTo, Goes, CountsSame, NewInv, Making, Named, Stored
    <2>2. CASE Ends(s) /\ KernelGone(s)
      BY <2>2, <1>a, <2>0 DEF CallTo, Ends, KernelGone, CountsSame, NewInv, Making, Named, Stored
    <2> QED
      BY <1>19, <2>1, <2>2 DEF DoesMoved
  <1>20. ASSUME NEW s \in Session, DoesKernelActs(s)
       PROVE  NewInv'
    BY <1>20, <1>a DEF DoesKernelActs, KernelIs, KernelGone, Exchanged, Renamed, NewInv, OwnInv,
           BusyInv, Uses, InCallOf, InKernelOf, Making, Named, Stored
  <1>21. ASSUME NEW s \in Session, DoesKernelRefuses(s)
       PROVE  NewInv'
    BY <1>21, <1>a DEF DoesKernelRefuses, KernelGone, NewInv, OwnInv, BusyInv, Uses, InCallOf,
           InKernelOf, Making, Named, Stored
  <1>22. ASSUME NEW s \in Session, DoesCrash(s)
       PROVE  NewInv'
    BY <1>22, <1>a DEF DoesCrash, CallTo, Ends, KernelGone, NewInv, OwnInv, BusyInv, Uses,
           InCallOf, InKernelOf, Making, Named, Stored
  <1> QED
    BY <1>1, <1>2, <1>3, <1>4, <1>5, <1>6, <1>7, <1>8, <1>9, <1>10, <1>11, <1>12, <1>13, <1>14,
           <1>15, <1>16, <1>17, <1>18, <1>19, <1>20, <1>21, <1>22 DEF Effect

(* What other calls do to a link that a call has read the id of.           *)
LEMMA SeenStep ==
  ASSUME TypeOK, LockInv, BusyInv, ShapeInv, OwnInv, SeenInv, Effect
  PROVE  SeenInv'
PROOF
  <1> USE LinkStoreAssumption
  <1>a. \A t \in Session :
          /\ call[t].at \in Making \cup {"ex_link", "ex_record"} =>
               call[t].old \in Name /\ call[t].new \in Name /\ call[t].id \in Id
          /\ call[t].at \in {"unlink", "rel_record"} \cup Releasing =>
               call[t].new \in Name /\ call[t].id \in Id
    BY DEF ShapeInv, CallShape
  <1> USE DEF TypeOK
  <1>1. ASSUME NEW n \in Name, NEW f \in File, DoesCreate(n, f)
       PROVE  SeenInv'
    BY <1>1, <1>a DEF DoesCreate, SeenInv, OwnInv, BusyInv, LockInv, Uses, InCallOf, InKernelOf,
           Making, Named, Stored, Holding, Releasing
  <1>2. ASSUME NEW s \in Session, NEW old \in Name, NEW new \in Name, old # new,
               DoesLinkBegin(s, old, new)
       PROVE  SeenInv'
    BY <1>2, <1>a DEF DoesLinkBegin, CallTo, Unknown, SeenInv, OwnInv, BusyInv, LockInv, Uses,
           InCallOf, InKernelOf, Making, Named, Stored, Holding, Releasing
  <1>3. ASSUME NEW s \in Session, DoesNewLink(s)
       PROVE  SeenInv'
    BY <1>3, <1>a DEF DoesNewLink, CallTo, Goes, Ends, Linking, SeenInv, OwnInv, BusyInv, LockInv,
           Uses, InCallOf, InKernelOf, Making, Named, Stored, Holding, Releasing
  <1>4. ASSUME NEW s \in Session, DoesNewRecord(s)
       PROVE  SeenInv'
    BY <1>4, <1>a DEF DoesNewRecord, CallTo, Goes, Linking, OnlyLink, SeenInv, OwnInv, BusyInv,
           LockInv, Uses, InCallOf, InKernelOf, Making, Named, Stored, Holding, Releasing
  <1>5. ASSUME NEW s \in Session, DoesNewMove(s)
       PROVE  SeenInv'
    BY <1>5, <1>a DEF DoesNewMove, CallTo, Goes, Linking, OnlyLink, SeenInv, OwnInv, BusyInv,
           LockInv, Uses, InCallOf, InKernelOf, Making, Named, Stored, Holding, Releasing
  <1>6. ASSUME NEW s \in Session, DoesNewOld(s)
       PROVE  SeenInv'
    BY <1>6, <1>a DEF DoesNewOld, CallTo, Goes, Ends, Linking, OnlyLink, SeenInv, OwnInv, BusyInv,
           LockInv, Uses, InCallOf, InKernelOf, Making, Named, Stored, Holding, Releasing
  <1>7. ASSUME NEW s \in Session, DoesUndoMove(s)
       PROVE  SeenInv'
    BY <1>7, <1>a DEF DoesUndoMove, CallTo, Goes, Linking, OnlyLink, SeenInv, OwnInv, BusyInv,
           LockInv, Uses, InCallOf, InKernelOf, Making, Named, Stored, Holding, Releasing
  <1>8. ASSUME NEW s \in Session, DoesUndoRecord(s)
       PROVE  SeenInv'
    BY <1>8, <1>a DEF DoesUndoRecord, CallTo, Goes, Linking, OnlyLink, SeenInv, OwnInv, BusyInv,
           LockInv, Uses, InCallOf, InKernelOf, Making, Named, Stored, Holding, Releasing
  <1>9. ASSUME NEW s \in Session, DoesUndoNew(s)
       PROVE  SeenInv'
    BY <1>9, <1>a DEF DoesUndoNew, CallTo, Ends, Linking, OnlyLink, SeenInv, OwnInv, BusyInv,
           LockInv, Uses, InCallOf, InKernelOf, Making, Named, Stored, Holding, Releasing
  <1>10. ASSUME NEW s \in Session, DoesExLink(s)
       PROVE  SeenInv'
    BY <1>10, <1>a DEF DoesExLink, CallTo, Goes, Ends, Linking, SeenInv, OwnInv, BusyInv, LockInv,
           Uses, InCallOf, InKernelOf, Making, Named, Stored, Holding, Releasing
  <1>11. ASSUME NEW s \in Session, DoesExRecord(s)
       PROVE  SeenInv'
    BY <1>11, <1>a DEF DoesExRecord, CallTo, Ends, Linking, SeenInv, OwnInv, BusyInv, LockInv,
           Uses, InCallOf, InKernelOf, Making, Named, Stored, Holding, Releasing
  <1>12. ASSUME NEW s \in Session, NEW n \in Name, DoesUnlinkBegin(s, n)
       PROVE  SeenInv'
    BY <1>12, <1>a DEF DoesUnlinkBegin, CallTo, KernelIs, SeenInv, OwnInv, BusyInv, LockInv, Uses,
           InCallOf, InKernelOf, Making, Named, Stored, Holding, Releasing
  <1>13. ASSUME NEW s \in Session, DoesUnlinkName(s)
       PROVE  SeenInv'
    BY <1>13, <1>a DEF DoesUnlinkName, CallTo, Goes, Ends, SeenInv, OwnInv, BusyInv, LockInv,
           Uses, InCallOf, InKernelOf, Making, Named, Stored, Holding, Releasing
  <1>14. ASSUME NEW s \in Session, DoesRelease(s)
       PROVE  SeenInv'
    BY <1>14, <1>a DEF DoesRelease, CallTo, Goes, Ends, Over, Releases, CountsLess, SeenInv,
           OwnInv, BusyInv, LockInv, Uses, InCallOf, InKernelOf, Making, Named, Stored, Holding,
           Releasing
  <1>15. ASSUME NEW s \in Session, DoesRelMove(s)
       PROVE  SeenInv'
    BY <1>15, <1>a DEF DoesRelMove, CallTo, Goes, Ends, Over, Releases, CountsLess, BeingLinked,
           At, SeenInv, OwnInv, BusyInv, LockInv, Uses, InCallOf, InKernelOf, Making, Named,
           Stored, Holding, Releasing
  <1>16. ASSUME NEW s \in Session, DoesRelRecord(s)
       PROVE  SeenInv'
    BY <1>16, <1>a DEF DoesRelRecord, CallTo, Goes, Ends, Over, SeenInv, OwnInv, BusyInv, LockInv,
           Uses, InCallOf, InKernelOf, Making, Named, Stored, Holding, Releasing
  <1>17. ASSUME NEW s \in Session, NEW from \in Name, NEW to \in Name,
              NEW op \in Op \ {"unlink"}, from # to, DoesRenameBegin(s, from, to, op)
       PROVE  SeenInv'
    BY <1>17, <1>a DEF DoesRenameBegin, KernelIs, SeenInv, OwnInv, BusyInv, LockInv, Uses,
           InCallOf, InKernelOf, Making, Named, Stored, Holding, Releasing
  <1>18. ASSUME NEW s \in Session, DoesFixupBegin(s)
       PROVE  SeenInv'
    BY <1>18, <1>a DEF DoesFixupBegin, CallTo, SeenInv, OwnInv, BusyInv, LockInv, Uses, InCallOf,
           InKernelOf, Making, Named, Stored, Holding, Releasing
  <1>19. ASSUME NEW s \in Session, DoesMoved(s)
       PROVE  SeenInv'
    <2>0. CountsSame /\ entry' = entry /\ object' = object /\ hurt' = hurt
      BY <1>19 DEF DoesMoved
    <2>1. CASE Goes(s, "moved_back") /\ kernel' = kernel
      <3>1. call[s].at \in {"moved", "moved_back"}
        BY <1>19 DEF DoesMoved
      <3> QED
        BY <2>1, <3>1, <1>a, <2>0 DEF CallTo, Goes, CountsSame, SeenInv, Releasing
    <2>2. CASE Ends(s) /\ KernelGone(s)
      BY <2>2, <1>a, <2>0 DEF CallTo, Ends, KernelGone, CountsSame, SeenInv, Releasing
    <2> QED
      BY <1>19, <2>1, <2>2 DEF DoesMoved
  <1>20. ASSUME NEW s \in Session, DoesKernelActs(s)
       PROVE  SeenInv'
    BY <1>20, <1>a DEF DoesKernelActs, KernelIs, KernelGone, Exchanged, Renamed, SeenInv, OwnInv,
           BusyInv, LockInv, Uses, InCallOf, InKernelOf, Making, Named, Stored, Holding, Releasing
  <1>21. ASSUME NEW s \in Session, DoesKernelRefuses(s)
       PROVE  SeenInv'
    BY <1>21, <1>a DEF DoesKernelRefuses, KernelGone, SeenInv, OwnInv, BusyInv, LockInv, Uses,
           InCallOf, InKernelOf, Making, Named, Stored, Holding, Releasing
  <1>22. ASSUME NEW s \in Session, DoesCrash(s)
       PROVE  SeenInv'
    BY <1>22, <1>a DEF DoesCrash, CallTo, Ends, KernelGone, SeenInv, OwnInv, BusyInv, LockInv,
           Uses, InCallOf, InKernelOf, Making, Named, Stored, Holding, Releasing
  <1> QED
    BY <1>1, <1>2, <1>3, <1>4, <1>5, <1>6, <1>7, <1>8, <1>9, <1>10, <1>11, <1>12, <1>13, <1>14,
           <1>15, <1>16, <1>17, <1>18, <1>19, <1>20, <1>21, <1>22 DEF Effect

(* The ids read when a rename was entered still fit when the kernel acts.  *)
LEMMA KernelStep ==
  ASSUME TypeOK, BusyInv, ShapeInv, OwnInv, KernelInv, Effect
  PROVE  KernelInv'
PROOF
  <1> USE LinkStoreAssumption
  <1>a. \A t \in Session :
          /\ call[t].at \in Making \cup {"ex_link", "ex_record"} =>
               call[t].old \in Name /\ call[t].new \in Name /\ call[t].id \in Id
          /\ call[t].at \in {"unlink", "rel_record"} \cup Releasing =>
               call[t].new \in Name /\ call[t].id \in Id
    BY DEF ShapeInv, CallShape
  <1>b. \A t \in Session : kernel[t] # None =>
          /\ kernel[t].from \in Name /\ kernel[t].to \in Name
          /\ kernel[t].src \in Id \cup {None} /\ kernel[t].dst \in Id \cup {None}
    BY Types
  <1> USE DEF TypeOK
  <1>1. ASSUME NEW n \in Name, NEW f \in File, DoesCreate(n, f)
       PROVE  KernelInv'
    BY <1>1, <1>a, <1>b DEF DoesCreate, KernelInv, OwnInv, BusyInv, Uses, InCallOf, InKernelOf,
           Making, Named, Stored, Replaced
  <1>2. ASSUME NEW s \in Session, NEW old \in Name, NEW new \in Name, old # new,
               DoesLinkBegin(s, old, new)
       PROVE  KernelInv'
    BY <1>2, <1>a, <1>b DEF DoesLinkBegin, CallTo, Unknown, KernelInv, OwnInv, BusyInv, Uses,
           InCallOf, InKernelOf, Making, Named, Stored, Replaced
  <1>3. ASSUME NEW s \in Session, DoesNewLink(s)
       PROVE  KernelInv'
    BY <1>3, <1>a, <1>b DEF DoesNewLink, CallTo, Goes, Ends, Linking, KernelInv, OwnInv, BusyInv,
           Uses, InCallOf, InKernelOf, Making, Named, Stored, Replaced
  <1>4. ASSUME NEW s \in Session, DoesNewRecord(s)
       PROVE  KernelInv'
    BY <1>4, <1>a, <1>b DEF DoesNewRecord, CallTo, Goes, Linking, OnlyLink, KernelInv, OwnInv,
           BusyInv, Uses, InCallOf, InKernelOf, Making, Named, Stored, Replaced
  <1>5. ASSUME NEW s \in Session, DoesNewMove(s)
       PROVE  KernelInv'
    BY <1>5, <1>a, <1>b DEF DoesNewMove, CallTo, Goes, Linking, OnlyLink, KernelInv, OwnInv,
           BusyInv, Uses, InCallOf, InKernelOf, Making, Named, Stored, Replaced
  <1>6. ASSUME NEW s \in Session, DoesNewOld(s)
       PROVE  KernelInv'
    BY <1>6, <1>a, <1>b DEF DoesNewOld, CallTo, Goes, Ends, Linking, OnlyLink, KernelInv, OwnInv,
           BusyInv, Uses, InCallOf, InKernelOf, Making, Named, Stored, Replaced
  <1>7. ASSUME NEW s \in Session, DoesUndoMove(s)
       PROVE  KernelInv'
    BY <1>7, <1>a, <1>b DEF DoesUndoMove, CallTo, Goes, Linking, OnlyLink, KernelInv, OwnInv,
           BusyInv, Uses, InCallOf, InKernelOf, Making, Named, Stored, Replaced
  <1>8. ASSUME NEW s \in Session, DoesUndoRecord(s)
       PROVE  KernelInv'
    BY <1>8, <1>a, <1>b DEF DoesUndoRecord, CallTo, Goes, Linking, OnlyLink, KernelInv, OwnInv,
           BusyInv, Uses, InCallOf, InKernelOf, Making, Named, Stored, Replaced
  <1>9. ASSUME NEW s \in Session, DoesUndoNew(s)
       PROVE  KernelInv'
    BY <1>9, <1>a, <1>b DEF DoesUndoNew, CallTo, Ends, Linking, OnlyLink, KernelInv, OwnInv,
           BusyInv, Uses, InCallOf, InKernelOf, Making, Named, Stored, Replaced
  <1>10. ASSUME NEW s \in Session, DoesExLink(s)
       PROVE  KernelInv'
    BY <1>10, <1>a, <1>b DEF DoesExLink, CallTo, Goes, Ends, Linking, KernelInv, OwnInv, BusyInv,
           Uses, InCallOf, InKernelOf, Making, Named, Stored, Replaced
  <1>11. ASSUME NEW s \in Session, DoesExRecord(s)
       PROVE  KernelInv'
    BY <1>11, <1>a, <1>b DEF DoesExRecord, CallTo, Ends, Linking, KernelInv, OwnInv, BusyInv,
           Uses, InCallOf, InKernelOf, Making, Named, Stored, Replaced
  <1>12. ASSUME NEW s \in Session, NEW n \in Name, DoesUnlinkBegin(s, n)
       PROVE  KernelInv'
    BY <1>12, <1>a, <1>b DEF DoesUnlinkBegin, CallTo, KernelIs, KernelInv, OwnInv, BusyInv, Uses,
           InCallOf, InKernelOf, Making, Named, Stored, Replaced
  <1>13. ASSUME NEW s \in Session, DoesUnlinkName(s)
       PROVE  KernelInv'
    BY <1>13, <1>a, <1>b DEF DoesUnlinkName, CallTo, Goes, Ends, KernelInv, OwnInv, BusyInv, Uses,
           InCallOf, InKernelOf, Making, Named, Stored, Replaced
  <1>14. ASSUME NEW s \in Session, DoesRelease(s)
       PROVE  KernelInv'
    BY <1>14, <1>a, <1>b DEF DoesRelease, CallTo, Goes, Ends, Over, Releases, CountsLess,
           KernelInv, OwnInv, BusyInv, Uses, InCallOf, InKernelOf, Making, Named, Stored, Replaced
  <1>15. ASSUME NEW s \in Session, DoesRelMove(s)
       PROVE  KernelInv'
    BY <1>15, <1>a, <1>b DEF DoesRelMove, CallTo, Goes, Ends, Over, Releases, CountsLess,
           KernelInv, OwnInv, BusyInv, Uses, InCallOf, InKernelOf, Making, Named, Stored, Replaced
  <1>16. ASSUME NEW s \in Session, DoesRelRecord(s)
       PROVE  KernelInv'
    BY <1>16, <1>a, <1>b DEF DoesRelRecord, CallTo, Goes, Ends, Over, KernelInv, OwnInv, BusyInv,
           Uses, InCallOf, InKernelOf, Making, Named, Stored, Replaced
  <1>17. ASSUME NEW s \in Session, NEW from \in Name, NEW to \in Name,
              NEW op \in Op \ {"unlink"}, from # to, DoesRenameBegin(s, from, to, op)
       PROVE  KernelInv'
    BY <1>17, <1>a, <1>b DEF DoesRenameBegin, KernelIs, KernelInv, OwnInv, BusyInv, Uses,
           InCallOf, InKernelOf, Making, Named, Stored, Replaced
  <1>18. ASSUME NEW s \in Session, DoesFixupBegin(s)
       PROVE  KernelInv'
    BY <1>18, <1>a, <1>b DEF DoesFixupBegin, CallTo, KernelInv, OwnInv, BusyInv, Uses, InCallOf,
           InKernelOf, Making, Named, Stored, Replaced
  <1>19. ASSUME NEW s \in Session, DoesMoved(s)
       PROVE  KernelInv'
    <2>0. entry' = entry /\ object' = object
      BY <1>19 DEF DoesMoved
    <2>1. CASE Goes(s, "moved_back") /\ kernel' = kernel
      <3>1. call[s].at \in {"moved", "moved_back"}
        BY <1>19 DEF DoesMoved
      <3> QED
        BY <2>1, <3>1, <2>0 DEF CallTo, Goes, KernelInv, Replaced
    <2>2. CASE Ends(s) /\ KernelGone(s)
      BY <2>2, <2>0 DEF CallTo, Ends, KernelGone, KernelInv, Replaced
    <2> QED
      BY <1>19, <2>1, <2>2 DEF DoesMoved
  <1>20. ASSUME NEW s \in Session, DoesKernelActs(s)
       PROVE  KernelInv'
    BY <1>20, <1>a, <1>b DEF DoesKernelActs, KernelIs, KernelGone, Exchanged, Renamed, KernelInv,
           OwnInv, BusyInv, Uses, InCallOf, InKernelOf, Making, Named, Stored, Replaced
  <1>21. ASSUME NEW s \in Session, DoesKernelRefuses(s)
       PROVE  KernelInv'
    BY <1>21, <1>a, <1>b DEF DoesKernelRefuses, KernelGone, KernelInv, OwnInv, BusyInv, Uses,
           InCallOf, InKernelOf, Making, Named, Stored, Replaced
  <1>22. ASSUME NEW s \in Session, DoesCrash(s)
       PROVE  KernelInv'
    BY <1>22, <1>a, <1>b DEF DoesCrash, CallTo, Ends, KernelGone, KernelInv, OwnInv, BusyInv,
           Uses, InCallOf, InKernelOf, Making, Named, Stored, Replaced
  <1> QED
    BY <1>1, <1>2, <1>3, <1>4, <1>5, <1>6, <1>7, <1>8, <1>9, <1>10, <1>11, <1>12, <1>13, <1>14,
           <1>15, <1>16, <1>17, <1>18, <1>19, <1>20, <1>21, <1>22 DEF Effect

(* No step puts a file in two places.                                      *)
LEMMA PlaceStep ==
  ASSUME TypeOK, PlaceInv, Effect
  PROVE  PlaceInv'
PROOF
  <1> USE LinkStoreAssumption DEF TypeOK
  <1>1. ASSUME NEW n \in Name, NEW f \in File, DoesCreate(n, f)
       PROVE  PlaceInv'
    BY <1>1 DEF DoesCreate, PlaceInv
  <1>2. ASSUME NEW s \in Session, NEW old \in Name, NEW new \in Name, old # new,
               DoesLinkBegin(s, old, new)
       PROVE  PlaceInv'
    BY <1>2 DEF DoesLinkBegin, CallTo, Unknown, PlaceInv
  <1>3. ASSUME NEW s \in Session, DoesNewLink(s)
       PROVE  PlaceInv'
    BY <1>3 DEF DoesNewLink, CallTo, Goes, Ends, Linking, PlaceInv
  <1>4. ASSUME NEW s \in Session, DoesNewRecord(s)
       PROVE  PlaceInv'
    BY <1>4 DEF DoesNewRecord, CallTo, Goes, Linking, OnlyLink, PlaceInv
  <1>5. ASSUME NEW s \in Session, DoesNewMove(s)
       PROVE  PlaceInv'
    BY <1>5 DEF DoesNewMove, CallTo, Goes, Linking, OnlyLink, PlaceInv
  <1>6. ASSUME NEW s \in Session, DoesNewOld(s)
       PROVE  PlaceInv'
    BY <1>6 DEF DoesNewOld, CallTo, Goes, Ends, Linking, OnlyLink, PlaceInv
  <1>7. ASSUME NEW s \in Session, DoesUndoMove(s)
       PROVE  PlaceInv'
    BY <1>7 DEF DoesUndoMove, CallTo, Goes, Linking, OnlyLink, PlaceInv
  <1>8. ASSUME NEW s \in Session, DoesUndoRecord(s)
       PROVE  PlaceInv'
    BY <1>8 DEF DoesUndoRecord, CallTo, Goes, Linking, OnlyLink, PlaceInv
  <1>9. ASSUME NEW s \in Session, DoesUndoNew(s)
       PROVE  PlaceInv'
    BY <1>9 DEF DoesUndoNew, CallTo, Ends, Linking, OnlyLink, PlaceInv
  <1>10. ASSUME NEW s \in Session, DoesExLink(s)
       PROVE  PlaceInv'
    BY <1>10 DEF DoesExLink, CallTo, Goes, Ends, Linking, PlaceInv
  <1>11. ASSUME NEW s \in Session, DoesExRecord(s)
       PROVE  PlaceInv'
    BY <1>11 DEF DoesExRecord, CallTo, Ends, Linking, PlaceInv
  <1>12. ASSUME NEW s \in Session, NEW n \in Name, DoesUnlinkBegin(s, n)
       PROVE  PlaceInv'
    BY <1>12 DEF DoesUnlinkBegin, CallTo, KernelIs, PlaceInv
  <1>13. ASSUME NEW s \in Session, DoesUnlinkName(s)
       PROVE  PlaceInv'
    BY <1>13 DEF DoesUnlinkName, CallTo, Goes, Ends, PlaceInv
  <1>14. ASSUME NEW s \in Session, DoesRelease(s)
       PROVE  PlaceInv'
    BY <1>14 DEF DoesRelease, CallTo, Goes, Ends, Over, Releases, CountsLess, PlaceInv
  <1>15. ASSUME NEW s \in Session, DoesRelMove(s)
       PROVE  PlaceInv'
    BY <1>15 DEF DoesRelMove, CallTo, Goes, Ends, Over, Releases, CountsLess, PlaceInv
  <1>16. ASSUME NEW s \in Session, DoesRelRecord(s)
       PROVE  PlaceInv'
    BY <1>16 DEF DoesRelRecord, CallTo, Goes, Ends, Over, PlaceInv
  <1>17. ASSUME NEW s \in Session, NEW from \in Name, NEW to \in Name,
              NEW op \in Op \ {"unlink"}, from # to, DoesRenameBegin(s, from, to, op)
       PROVE  PlaceInv'
    BY <1>17 DEF DoesRenameBegin, KernelIs, PlaceInv
  <1>18. ASSUME NEW s \in Session, DoesFixupBegin(s)
       PROVE  PlaceInv'
    BY <1>18 DEF DoesFixupBegin, CallTo, PlaceInv
  <1>19. ASSUME NEW s \in Session, DoesMoved(s)
       PROVE  PlaceInv'
    <2>0. entry' = entry /\ object' = object
      BY <1>19 DEF DoesMoved
    <2>1. CASE Goes(s, "moved_back") /\ kernel' = kernel
      <3>1. call[s].at \in {"moved", "moved_back"}
        BY <1>19 DEF DoesMoved
      <3> QED
        BY <2>1, <3>1, <2>0 DEF CallTo, Goes, PlaceInv
    <2>2. CASE Ends(s) /\ KernelGone(s)
      BY <2>2, <2>0 DEF CallTo, Ends, KernelGone, PlaceInv
    <2> QED
      BY <1>19, <2>1, <2>2 DEF DoesMoved
  <1>20. ASSUME NEW s \in Session, DoesKernelActs(s)
       PROVE  PlaceInv'
    BY <1>20 DEF DoesKernelActs, KernelIs, KernelGone, Exchanged, Renamed, PlaceInv
  <1>21. ASSUME NEW s \in Session, DoesKernelRefuses(s)
       PROVE  PlaceInv'
    BY <1>21 DEF DoesKernelRefuses, KernelGone, PlaceInv
  <1>22. ASSUME NEW s \in Session, DoesCrash(s)
       PROVE  PlaceInv'
    BY <1>22 DEF DoesCrash, CallTo, Ends, KernelGone, PlaceInv
  <1> QED
    BY <1>1, <1>2, <1>3, <1>4, <1>5, <1>6, <1>7, <1>8, <1>9, <1>10, <1>11, <1>12, <1>13, <1>14,
           <1>15, <1>16, <1>17, <1>18, <1>19, <1>20, <1>21, <1>22 DEF Effect

HeldSame == \A i \in Id : object'[i] \in File => \A n \in Name : Holds(n, i)' <=> Holds(n, i)

(* The names and ids of calls at work, from ShapeInv.                      *)
LEMMA Shapes ==
  ASSUME TypeOK, ShapeInv, NEW t \in Session
  PROVE  /\ call[t].at \in Making \cup {"ex_link", "ex_record"} =>
               call[t].old \in Name /\ call[t].new \in Name /\ call[t].id \in Id
         /\ call[t].at \in {"unlink", "rel_record"} \cup Releasing =>
               call[t].new \in Name /\ call[t].id \in Id
         /\ kernel[t] # None =>
               /\ kernel[t].from \in Name /\ kernel[t].to \in Name
               /\ kernel[t].src \in Id \cup {None} /\ kernel[t].dst \in Id \cup {None}
PROOF
  BY Types DEF ShapeInv, CallShape

(* Steps that change nobody's claim on a stored object.                    *)
LEMMA HeldCreate ==
  ASSUME TypeOK, BusyInv, ShapeInv, OwnInv, SeenInv, NEW n \in Name, NEW f \in File,
         DoesCreate(n, f)
  PROVE  HeldSame
PROOF
  BY LinkStoreAssumption, Shapes DEF DoesCreate, HeldSame, Holds, Owes, BeingLinked, At, TypeOK,
         BusyInv, Uses, InCallOf, InKernelOf, OwnInv, SeenInv, Making, Named, Stored, Releasing,
         Replaced

LEMMA HeldLinkBegin ==
  ASSUME TypeOK, BusyInv, ShapeInv, OwnInv, SeenInv, NEW s \in Session, NEW old \in Name,
         NEW new \in Name, old # new, DoesLinkBegin(s, old, new)
  PROVE  HeldSame
PROOF
  <1> USE LinkStoreAssumption
  <1>1. \A t \in Session, i \in Id, n \in Name : object'[i] \in File => (Owes(t, i, n)' <=> Owes(t, i, n))
    BY Shapes DEF DoesLinkBegin, CallTo, Unknown, Owes, TypeOK, OwnInv, Making, Named, Stored,
           Releasing, Replaced
  <1>2. \A n \in Name : BeingLinked(n)' <=> BeingLinked(n)
    BY DEF DoesLinkBegin, CallTo, Unknown, BeingLinked, At
  <1> QED
    BY <1>1, <1>2 DEF DoesLinkBegin, CallTo, Unknown, HeldSame, Holds, TypeOK

LEMMA HeldNewLink ==
  ASSUME TypeOK, BusyInv, ShapeInv, OwnInv, SeenInv, NEW s \in Session, DoesNewLink(s)
  PROVE  HeldSame
PROOF
  BY LinkStoreAssumption, Shapes DEF DoesNewLink, CallTo, Goes, Ends, Linking, HeldSame, Holds,
         Owes, BeingLinked, At, TypeOK, BusyInv, Uses, InCallOf, InKernelOf, OwnInv, SeenInv,
         Making, Named, Stored, Releasing, Replaced

LEMMA HeldNewRecord ==
  ASSUME TypeOK, BusyInv, ShapeInv, OwnInv, SeenInv, NEW s \in Session, DoesNewRecord(s)
  PROVE  HeldSame
PROOF
  BY LinkStoreAssumption, Shapes DEF DoesNewRecord, CallTo, Goes, Linking, OnlyLink, HeldSame,
         Holds, Owes, BeingLinked, At, TypeOK, BusyInv, Uses, InCallOf, InKernelOf, OwnInv,
         SeenInv, Making, Named, Stored, Releasing, Replaced

LEMMA HeldNewOld ==
  ASSUME TypeOK, BusyInv, ShapeInv, OwnInv, SeenInv, NEW s \in Session, DoesNewOld(s)
  PROVE  HeldSame
PROOF
  <1> USE LinkStoreAssumption
  <1>1. CASE Goes(s, "undo_move") /\ entry' = entry
    <2>1. \A t \in Session, i \in Id, n \in Name : Owes(t, i, n)' <=> Owes(t, i, n)
      BY <1>1 DEF DoesNewOld, CallTo, Goes, Owes, Stored, Releasing
    <2>2. \A n \in Name : BeingLinked(n)' <=> BeingLinked(n)
      BY <1>1 DEF DoesNewOld, CallTo, Goes, BeingLinked, At
    <2> QED
      BY <1>1, <2>1, <2>2 DEF HeldSame, Holds
  <1>2. CASE Ends(s) /\ entry' = [entry EXCEPT ![call[s].old] = call[s].id]
    <2>1. \A t \in Session \ {s}, i \in Id, n \in Name : Owes(t, i, n)' <=> Owes(t, i, n)
      BY <1>2 DEF DoesNewOld, CallTo, Ends, Owes
    <2>2. \A i \in Id, n \in Name :
            Owes(s, i, n) <=> Owes(s, i, n)' \/ (i = call[s].id /\ n = call[s].old)
      BY <1>2, Shapes DEF DoesNewOld, CallTo, Ends, Linking, Owes, Stored, Releasing
    <2>3. \A n \in Name : BeingLinked(n)' <=> BeingLinked(n)
      BY <1>2 DEF DoesNewOld, CallTo, Ends, BeingLinked, At
    <2>4. ~BeingLinked(call[s].old)
      BY DEF DoesNewOld, Linking, BeingLinked, At, BusyInv, Uses, InCallOf
    <2> QED
      BY <1>2, <2>1, <2>2, <2>3, <2>4 DEF DoesNewOld, Linking, HeldSame, Holds, TypeOK
  <1> QED
    BY <1>1, <1>2 DEF DoesNewOld

LEMMA HeldUndoMove ==
  ASSUME TypeOK, BusyInv, ShapeInv, OwnInv, SeenInv, NEW s \in Session, DoesUndoMove(s)
  PROVE  HeldSame
PROOF
  <1> USE LinkStoreAssumption
  <1>1. \A t \in Session, i \in Id, n \in Name : object'[i] \in File => (Owes(t, i, n)' <=> Owes(t, i, n))
    BY Shapes DEF DoesUndoMove, CallTo, Goes, Linking, OnlyLink, Owes, TypeOK, OwnInv, Making,
           Named, Stored, Releasing, Replaced
  <1>2. \A n \in Name : BeingLinked(n)' <=> BeingLinked(n)
    BY DEF DoesUndoMove, CallTo, Goes, Linking, OnlyLink, BeingLinked, At
  <1> QED
    BY <1>1, <1>2 DEF DoesUndoMove, CallTo, Goes, Linking, OnlyLink, HeldSame, Holds, TypeOK

LEMMA HeldUndoRecord ==
  ASSUME TypeOK, BusyInv, ShapeInv, OwnInv, SeenInv, NEW s \in Session, DoesUndoRecord(s)
  PROVE  HeldSame
PROOF
  BY LinkStoreAssumption, Shapes DEF DoesUndoRecord, CallTo, Goes, Linking, OnlyLink, HeldSame,
         Holds, Owes, BeingLinked, At, TypeOK, BusyInv, Uses, InCallOf, InKernelOf, OwnInv,
         SeenInv, Making, Named, Stored, Releasing, Replaced

LEMMA HeldUndoNew ==
  ASSUME TypeOK, BusyInv, ShapeInv, OwnInv, SeenInv, NEW s \in Session, DoesUndoNew(s)
  PROVE  HeldSame
PROOF
  BY LinkStoreAssumption, Shapes DEF DoesUndoNew, CallTo, Ends, Linking, OnlyLink, HeldSame,
         Holds, Owes, BeingLinked, At, TypeOK, BusyInv, Uses, InCallOf, InKernelOf, OwnInv,
         SeenInv, Making, Named, Stored, Releasing, Replaced

LEMMA HeldExLink ==
  ASSUME TypeOK, BusyInv, ShapeInv, OwnInv, SeenInv, NEW s \in Session, DoesExLink(s)
  PROVE  HeldSame
PROOF
  BY LinkStoreAssumption, Shapes DEF DoesExLink, CallTo, Goes, Ends, Linking, HeldSame, Holds,
         Owes, BeingLinked, At, TypeOK, BusyInv, Uses, InCallOf, InKernelOf, OwnInv, SeenInv,
         Making, Named, Stored, Releasing, Replaced

LEMMA HeldUnlinkBegin ==
  ASSUME TypeOK, BusyInv, ShapeInv, OwnInv, SeenInv, NEW s \in Session, NEW n \in Name,
         DoesUnlinkBegin(s, n)
  PROVE  HeldSame
PROOF
  BY LinkStoreAssumption, Shapes DEF DoesUnlinkBegin, CallTo, KernelIs, HeldSame, Holds, Owes,
         BeingLinked, At, TypeOK, BusyInv, Uses, InCallOf, InKernelOf, OwnInv, SeenInv, Making,
         Named, Stored, Releasing, Replaced

LEMMA HeldUnlinkName ==
  ASSUME TypeOK, BusyInv, ShapeInv, OwnInv, SeenInv, NEW s \in Session, DoesUnlinkName(s)
  PROVE  HeldSame
PROOF
  BY LinkStoreAssumption, Shapes DEF DoesUnlinkName, CallTo, Goes, Ends, HeldSame, Holds, Owes,
         BeingLinked, At, TypeOK, BusyInv, Uses, InCallOf, InKernelOf, OwnInv, SeenInv, Making,
         Named, Stored, Releasing, Replaced

LEMMA HeldRelRecord ==
  ASSUME TypeOK, BusyInv, ShapeInv, OwnInv, SeenInv, NEW s \in Session, DoesRelRecord(s)
  PROVE  HeldSame
PROOF
  BY LinkStoreAssumption, Shapes DEF DoesRelRecord, CallTo, Goes, Ends, Over, HeldSame, Holds,
         Owes, BeingLinked, At, TypeOK, BusyInv, Uses, InCallOf, InKernelOf, OwnInv, SeenInv,
         Making, Named, Stored, Releasing, Replaced

LEMMA HeldRenameBegin ==
  ASSUME TypeOK, BusyInv, ShapeInv, OwnInv, SeenInv, NEW s \in Session, NEW from \in Name,
         NEW to \in Name, 
              NEW op \in Op \ {"unlink"}, from # to, DoesRenameBegin(s, from, to, op)
  PROVE  HeldSame
PROOF
  BY LinkStoreAssumption, Shapes DEF DoesRenameBegin, KernelIs, HeldSame, Holds, Owes,
         BeingLinked, At, TypeOK, BusyInv, Uses, InCallOf, InKernelOf, OwnInv, SeenInv, Making,
         Named, Stored, Releasing, Replaced

LEMMA HeldFixupBegin ==
  ASSUME TypeOK, BusyInv, ShapeInv, OwnInv, SeenInv, NEW s \in Session, DoesFixupBegin(s)
  PROVE  HeldSame
PROOF
  BY LinkStoreAssumption, Shapes DEF DoesFixupBegin, CallTo, HeldSame, Holds, Owes, BeingLinked,
         At, TypeOK, BusyInv, Uses, InCallOf, InKernelOf, OwnInv, SeenInv, Making, Named, Stored,
         Releasing, Replaced

LEMMA HeldMoved ==
  ASSUME TypeOK, BusyInv, ShapeInv, OwnInv, SeenInv, NEW s \in Session, DoesMoved(s)
  PROVE  HeldSame
PROOF
  <1>1. CASE Goes(s, "moved_back") /\ kernel' = kernel
    <2>1. call[s].at \in {"moved", "moved_back"} /\ entry' = entry /\ object' = object
      BY DEF DoesMoved
    <2> QED
      BY <1>1, <2>1 DEF CallTo, Goes, HeldSame, Holds, Owes, BeingLinked, At, Stored, Releasing
  <1>2. CASE Ends(s) /\ KernelGone(s)
    <2>1. /\ call[s].at \in {"moved", "moved_back"} /\ call[s].fixup
          /\ entry' = entry /\ object' = object
      BY DEF DoesMoved
    <2> QED
      BY <1>2, <2>1 DEF CallTo, Ends, KernelGone, HeldSame, Holds, Owes, BeingLinked, At,
                        Stored, Releasing
  <1> QED
    BY <1>1, <1>2 DEF DoesMoved

LEMMA HeldKernelRefuses ==
  ASSUME TypeOK, BusyInv, ShapeInv, OwnInv, SeenInv, NEW s \in Session, DoesKernelRefuses(s)
  PROVE  HeldSame
PROOF
  BY LinkStoreAssumption, Shapes DEF DoesKernelRefuses, KernelGone, HeldSame, Holds, Owes,
         BeingLinked, At, TypeOK, BusyInv, Uses, InCallOf, InKernelOf, OwnInv, SeenInv, Making,
         Named, Stored, Releasing, Replaced


(* The steps that change who holds an object.                              *)
LEMMA HeldNewMove ==
  ASSUME TypeOK, BusyInv, ShapeInv, OwnInv, SeenInv, NEW s \in Session, DoesNewMove(s)
  PROVE  \A i \in Id : object'[i] \in File =>
           \/ /\ i # call[s].id \/ object' = object
              /\ \A n \in Name : Holds(n, i)' <=> Holds(n, i)
           \/ /\ i = call[s].id /\ object' # object
              /\ \A n \in Name : Holds(n, i)' <=> n \in {call[s].old, call[s].new}
PROOF
  <1> USE LinkStoreAssumption
  <1>1. CASE Goes(s, "undo_record") /\ entry' = entry /\ object' = object
    <2>1. \A t \in Session, i \in Id, n \in Name : Owes(t, i, n)' <=> Owes(t, i, n)
      BY <1>1 DEF DoesNewMove, CallTo, Goes, Owes, Stored, Releasing
    <2>2. \A n \in Name : BeingLinked(n)' <=> BeingLinked(n)
      BY <1>1 DEF DoesNewMove, CallTo, Goes, BeingLinked, At
    <2> QED
      BY <1>1, <2>1, <2>2 DEF Holds
  <1>2. CASE /\ Goes(s, "new_old")
             /\ object' = [object EXCEPT ![call[s].id] = entry[call[s].old]]
             /\ entry' = [entry EXCEPT ![call[s].old] = None]
    <2>1. \A t \in Session \ {s}, i \in Id, n \in Name : Owes(t, i, n)' <=> Owes(t, i, n)
      BY <1>2 DEF DoesNewMove, CallTo, Goes, Owes
    <2>2. \A i \in Id, n \in Name :
            Owes(s, i, n)' <=> Owes(s, i, n) \/ (i = call[s].id /\ n = call[s].old)
      BY <1>2, Shapes DEF DoesNewMove, CallTo, Goes, Linking, Owes, Stored, Releasing
    <2>3. \A n \in Name : BeingLinked(n)' <=> BeingLinked(n)
      BY <1>2 DEF DoesNewMove, CallTo, Goes, BeingLinked, At
    <2>4. \A t \in Session, n \in Name : ~Owes(t, call[s].id, n)
      BY DEF DoesNewMove, Linking, Owes, OwnInv, Making, Named, Stored, Releasing
    <2>5. ~BeingLinked(call[s].new)
      BY DEF DoesNewMove, Linking, BeingLinked, At, BusyInv, Uses, InCallOf
    <2>6. \A i \in Id, n \in Name : i = call[s].id =>
            (Holds(n, i)' <=> n \in {call[s].old, call[s].new})
      BY <1>2, <2>1, <2>2, <2>3, <2>4, <2>5 DEF DoesNewMove, Linking, OnlyLink, Holds, TypeOK
    <2>7. \A i \in Id \ {call[s].id}, n \in Name : Holds(n, i)' <=> Holds(n, i)
      BY <1>2, <2>1, <2>2, <2>3 DEF DoesNewMove, Linking, Holds, TypeOK
    <2>8. object' # object
      BY <1>2 DEF DoesNewMove, Linking, TypeOK
    <2> QED
      BY <2>6, <2>7, <2>8
  <1> QED
    BY <1>1, <1>2 DEF DoesNewMove

(* link_existing() counts its new name, which then holds the object.       *)
LEMMA HeldExRecord ==
  ASSUME TypeOK, BusyInv, ShapeInv, OwnInv, SeenInv, NEW s \in Session, DoesExRecord(s)
  PROVE  \A i \in Id : object'[i] \in File =>
           \/ (i # call[s].id \/ record' = record) /\ \A n \in Name : Holds(n, i)' <=> Holds(n, i)
           \/ /\ i = call[s].id /\ record' # record
              /\ ~Holds(call[s].new, i)
              /\ \A n \in Name : Holds(n, i)' <=> Holds(n, i) \/ n = call[s].new
PROOF
  <1> USE LinkStoreAssumption
  <1>1. \A t \in Session, i \in Id, n \in Name : Owes(t, i, n)' <=> Owes(t, i, n)
    BY Shapes DEF DoesExRecord, CallTo, Ends, Linking, Owes, Stored, Releasing
  <1>2. \A n \in Name : BeingLinked(n) <=> BeingLinked(n)' \/ n = call[s].new
    BY DEF DoesExRecord, CallTo, Ends, Linking, BeingLinked, At
  <1>3. \A n \in Name : n = call[s].new => ~BeingLinked(n)'
    BY DEF DoesExRecord, CallTo, Ends, Linking, BeingLinked, At, BusyInv, Uses, InCallOf
  <1>4. \A t \in Session, i \in Id : ~Owes(t, i, call[s].new)
    BY DEF DoesExRecord, Linking, Owes, BusyInv, Uses, InCallOf, InKernelOf, Stored, Releasing
  <1>5. CASE entry' = [entry EXCEPT ![call[s].new] = None] /\ record' = record
    BY <1>1, <1>2, <1>3, <1>4, <1>5 DEF DoesExRecord, Linking, Holds, TypeOK
  <1>6. CASE entry' = entry /\ entry[call[s].new] = call[s].id
    <2>1. \A i \in Id \ {call[s].id}, n \in Name : Holds(n, i)' <=> Holds(n, i)
      BY <1>1, <1>2, <1>3, <1>4, <1>6 DEF DoesExRecord, Linking, Holds, TypeOK
    <2>2. ~Holds(call[s].new, call[s].id)
      BY <1>2, <1>4, <1>6 DEF DoesExRecord, Linking, Holds
    <2>3. \A i \in Id, n \in Name : i = call[s].id =>
            (Holds(n, i)' <=> Holds(n, i) \/ n = call[s].new)
      BY <1>1, <1>2, <1>3, <1>4, <1>6 DEF DoesExRecord, Linking, Holds, TypeOK
    <2>4. CASE entry' = [entry EXCEPT ![call[s].new] = None]
      BY <1>5, <1>6, <2>4 DEF DoesExRecord, Linking, TypeOK
    <2>5. CASE \E r \in Record :
                    /\ r # None
                    /\ r.count = IF record[call[s].id] = None THEN 2
                                 ELSE record[call[s].id].count + 1
                    /\ record' = [record EXCEPT ![call[s].id] = r]
      <3>1. record' # record
        BY <2>5, Types DEF DoesExRecord, Linking
      <3> QED
        BY <2>1, <2>2, <2>3, <3>1
    <2> QED
      BY <2>4, <2>5 DEF DoesExRecord
  <1> QED
    BY <1>5, <1>6 DEF DoesExRecord

(* release() takes off the name it was called for, and only that one.      *)
LEMMA HeldOver ==
  ASSUME TypeOK, BusyInv, ShapeInv, NEW s \in Session, call[s].at \in Releasing, Releases(s),
         Over(s), entry' = entry, kernel' = kernel
  PROVE  /\ Holds(call[s].new, call[s].id)
         /\ \A i \in Id, n \in Name :
              Holds(n, i)' <=> Holds(n, i) /\ ~(i = call[s].id /\ n = call[s].new)
PROOF
  <1> USE LinkStoreAssumption
  <1>1. \A n \in Name : BeingLinked(n)' <=> BeingLinked(n)
    BY DEF Over, CallTo, Goes, Ends, BeingLinked, At, Releasing
  <1>2. \A t \in Session \ {s}, i \in Id, n \in Name : Owes(t, i, n)' <=> Owes(t, i, n)
    BY DEF Over, CallTo, Goes, Ends, Owes
  <1>3. \A i \in Id, n \in Name :
          Owes(s, i, n) <=> Owes(s, i, n)' \/ (i = call[s].id /\ n = call[s].new)
    BY DEF Over, CallTo, Goes, Ends, Owes, Releases, Stored, Releasing
  <1>4. \A t \in Session, i \in Id, n \in Name :
          i = call[s].id /\ n = call[s].new => ~Owes(t, i, n)'
    BY <1>2 DEF Over, CallTo, Goes, Ends, Owes, Releases, Stored, Releasing,
                BusyInv, Uses, InCallOf, InKernelOf
  <1>5. Holds(call[s].new, call[s].id)
    BY <1>3 DEF Holds, Releases
  <1> QED
    BY <1>1, <1>2, <1>3, <1>4, <1>5 DEF Holds, Releases, TypeOK


(* A rename takes the link it moves along; the one it replaces is owed.    *)
LEMMA HeldKernelActs ==
  ASSUME TypeOK, BusyInv, ShapeInv, NEW s \in Session, DoesKernelActs(s),
         NEW i \in Id, object[i] \in File
  PROVE  \/ \A n \in Name : Holds(n, i)' <=> Holds(n, i)
         \/ \E x, y \in Name :
              /\ Holds(x, i) /\ ~Holds(y, i)
              /\ \A n \in Name : Holds(n, i)' <=> (Holds(n, i) /\ n # x) \/ n = y
PROOF
  <1> USE LinkStoreAssumption
  <1> DEFINE k == kernel[s]
  <1>1. /\ k # None /\ ~k.done /\ ~call[s].fixup /\ k.from \in Name /\ k.to \in Name
        /\ k.src \in Id \cup {None} /\ k.dst \in Id \cup {None}
        /\ k.src = k.dst => k.src = None
        /\ entry[k.from] = i <=> k.src = i
        /\ entry[k.to] = i <=> k.dst = i
    BY DEF DoesKernelActs
  <1>2. \A n \in Name : BeingLinked(n)' <=> BeingLinked(n)
    BY DEF DoesKernelActs, BeingLinked, At
  <1>3. ~BeingLinked(k.from) /\ ~BeingLinked(k.to)
    BY <1>1 DEF BeingLinked, At, BusyInv, Uses, InCallOf, InKernelOf
  <1>4. \A t \in Session : ~Owes(t, i, k.from) /\ ~Owes(t, i, k.to)
    BY <1>1 DEF Owes, BusyInv, Uses, InCallOf, InKernelOf
  <1>5. \A t \in Session \ {s}, n \in Name : Owes(t, i, n)' <=> Owes(t, i, n)
    BY DEF DoesKernelActs, KernelIs, KernelGone, Owes
  <1>6. \A n \in Name : Owes(s, i, n)' <=> \/ Owes(s, i, n)
                                           \/ k.op # "exchange" /\ k.dst = i /\ n = k.to
    BY <1>1 DEF DoesKernelActs, KernelIs, KernelGone, Owes, Replaced
  <1>7. (Holds(k.from, i) <=> k.src = i) /\ (Holds(k.to, i) <=> k.dst = i)
    BY <1>1, <1>3, <1>4 DEF Holds
  <1>8. ASSUME NEW n \in Name \ {k.from, k.to}
        PROVE  Holds(n, i)' <=> Holds(n, i)
    <2>1. entry'[n] = entry[n]
      BY <1>1 DEF DoesKernelActs, Exchanged, Renamed
    <2> QED
      BY <1>1, <1>2, <1>5, <1>6, <2>1 DEF Holds
  <1>9. \A n \in Name : n \in {k.from, k.to} =>
          (Holds(n, i)' <=> entry'[n] = i \/ (k.op # "exchange" /\ k.dst = i /\ n = k.to))
    BY <1>1, <1>2, <1>3, <1>4, <1>5, <1>6 DEF Holds
  <1>10. CASE k.op = "exchange"
    <2>1. k.from # k.to /\ entry'[k.from] = entry[k.to] /\ entry'[k.to] = entry[k.from]
      BY <1>10 DEF DoesKernelActs, Exchanged
    <2>2. \A n \in Name : /\ n = k.from => (Holds(n, i)' <=> k.dst = i)
                          /\ n = k.to => (Holds(n, i)' <=> k.src = i)
      BY <1>1, <1>9, <1>10, <2>1
    <2> HIDE DEF k
    <2>3. CASE k.src = i
      <3>1. /\ Holds(k.from, i) /\ ~Holds(k.to, i)
            /\ \A n \in Name : Holds(n, i)' <=> (Holds(n, i) /\ n # k.from) \/ n = k.to
        BY <1>1, <1>7, <1>8, <2>1, <2>2, <2>3
      <3> QED
        BY <1>1, <3>1
    <2>4. CASE k.dst = i
      <3>1. /\ Holds(k.to, i) /\ ~Holds(k.from, i)
            /\ \A n \in Name : Holds(n, i)' <=> (Holds(n, i) /\ n # k.to) \/ n = k.from
        BY <1>1, <1>7, <1>8, <2>1, <2>2, <2>4
      <3> QED
        BY <1>1, <3>1
    <2>5. CASE k.src # i /\ k.dst # i
      BY <1>1, <1>7, <1>8, <2>2, <2>5
    <2> QED
      BY <2>3, <2>4, <2>5
  <1>11. CASE k.op = "unlink"
    <2>1. k.from = k.to /\ entry'[k.from] = None /\ k.src = None /\ k.dst = None
      BY <1>11 DEF DoesKernelActs
    <2> HIDE DEF k
    <2> QED
      BY <1>1, <1>7, <1>8, <1>9, <2>1
  <1>12. CASE k.op \notin {"exchange", "unlink"}
    <2>1. k.from # k.to /\ entry'[k.from] = None /\ entry'[k.to] = entry[k.from]
      BY <1>12 DEF DoesKernelActs, Renamed
    <2>2. \A n \in Name : /\ n = k.from => ~Holds(n, i)'
                          /\ n = k.to => (Holds(n, i)' <=> k.src = i \/ k.dst = i)
      BY <1>1, <1>9, <1>12, <2>1
    <2> HIDE DEF k
    <2>3. CASE k.src = i
      <3>1. /\ Holds(k.from, i) /\ ~Holds(k.to, i)
            /\ \A n \in Name : Holds(n, i)' <=> (Holds(n, i) /\ n # k.from) \/ n = k.to
        BY <1>1, <1>7, <1>8, <2>1, <2>2, <2>3
      <3> QED
        BY <1>1, <3>1
    <2>4. CASE k.src # i
      BY <1>1, <1>7, <1>8, <2>2, <2>4
    <2> QED
      BY <2>3, <2>4
  <1> QED
    BY <1>10, <1>11, <1>12

(* A death may leave a name of the call it cuts off uncounted or counted   *)
(* for nothing; every other object is held as before.                      *)
LEMMA HeldCrash ==
  ASSUME TypeOK, BusyInv, ShapeInv, SeenInv, NEW s \in Session, DoesCrash(s),
         NEW i \in Id, object[i] \in File
  PROVE  /\ i \notin left' => \A n \in Name : Holds(n, i)' <=> Holds(n, i)
         /\ object[i] \notin hurt' => \A n \in Name : Holds(n, i)' => Holds(n, i)
PROOF
  <1> USE LinkStoreAssumption
  <1>1. \A t \in Session \ {s}, n \in Name : Owes(t, i, n)' <=> Owes(t, i, n)
    BY DEF DoesCrash, CallTo, Ends, KernelGone, Owes
  <1>2. \A n \in Name : ~Owes(s, i, n)'
    BY DEF DoesCrash, CallTo, Ends, KernelGone, Owes, Stored, Releasing
  <1>3. i \notin left' => \A n \in Name : ~Owes(s, i, n)
    BY Shapes DEF DoesCrash, Owes
  <1>4. \A n \in Name : BeingLinked(n) <=>
          BeingLinked(n)' \/ (call[s].at = "ex_record" /\ n = call[s].new)
    BY DEF DoesCrash, CallTo, Ends, BeingLinked, At
  <1>5. ASSUME NEW n \in Name, call[s].at = "ex_record", n = call[s].new, entry[n] = i
        PROVE  i = call[s].id /\ i \in left' /\ object[i] \in hurt'
    BY <1>5, Shapes DEF DoesCrash, SeenInv
  <1>6. entry' = entry
    BY DEF DoesCrash
  <1>7. ASSUME i \notin left', NEW n \in Name
        PROVE  Holds(n, i)' <=> Holds(n, i)
    BY <1>1, <1>2, <1>3, <1>4, <1>5, <1>6, <1>7 DEF Holds
  <1>8. ASSUME object[i] \notin hurt', NEW n \in Name, Holds(n, i)'
        PROVE  Holds(n, i)
    BY <1>1, <1>2, <1>4, <1>5, <1>6, <1>8 DEF Holds
  <1> QED
    BY <1>7, <1>8

(* release() before it has counted: the name it was called for is owed.    *)
LEMMA HeldWorking ==
  ASSUME TypeOK, BusyInv, ShapeInv, NEW s \in Session, DoesRelease(s) \/ DoesRelMove(s),
         NEW i \in Id, object'[i] \in File, ~Over(s)
  PROVE  \A n \in Name : Holds(n, i)' <=> Holds(n, i)
PROOF
  <1> USE LinkStoreAssumption
  <1>1. /\ call[s].at \in Releasing /\ Releases(s) /\ kernel' = kernel
        /\ \/ /\ Goes(s, "rel_record") /\ object'[call[s].id] = None
              /\ entry' = entry \/ /\ call[s].pick \in Name /\ entry[call[s].pick] = call[s].id
                                   /\ entry' = [entry EXCEPT ![call[s].pick] = object[call[s].id]]
                                   /\ object[call[s].id] \in File
           \/ /\ entry' = entry
              /\ \E n \in Name :
                   CallTo(s, "rel_move", call[s].old, call[s].new, call[s].id, n, call[s].fixup)
    BY DEF DoesRelease, DoesRelMove, Releases, Releasing, TypeOK
  <1>2. \A n \in Name : BeingLinked(n)' <=> BeingLinked(n)
    BY <1>1 DEF CallTo, Goes, BeingLinked, At, Releasing
  <1>3. \A t \in Session \ {s}, n \in Name : Owes(t, i, n)' <=> Owes(t, i, n)
    BY <1>1 DEF CallTo, Goes, Owes
  <1>4. CASE Goes(s, "rel_record") /\ object'[call[s].id] = None
    <2>1. i # call[s].id
      BY <1>4
    <2>2. \A n \in Name : Owes(s, i, n)' <=> Owes(s, i, n)
      BY <1>1, <1>4, <2>1 DEF CallTo, Goes, Owes, Stored, Releasing, Releases
    <2>3. \A n \in Name : entry'[n] = i <=> entry[n] = i
      BY <1>1, <1>4, <2>1 DEF Releases, TypeOK, CallTo, Goes
    <2> QED
      BY <1>2, <1>3, <2>2, <2>3 DEF Holds
  <1>5. CASE /\ entry' = entry
             /\ \E n \in Name :
                  CallTo(s, "rel_move", call[s].old, call[s].new, call[s].id, n, call[s].fixup)
    <2>1. \A n \in Name : Owes(s, i, n)' <=> Owes(s, i, n)
      BY <1>1, <1>5 DEF CallTo, Owes, Stored, Releasing
    <2> QED
      BY <1>2, <1>3, <1>5, <2>1 DEF Holds
  <1> QED
    BY <1>1, <1>4, <1>5


(***************************************************************************)
(* Counting names.                                                         *)
(***************************************************************************)
LEMMA NameSets ==
  ASSUME IsFiniteSet(Name), NEW S \in SUBSET Name
  PROVE  /\ IsFiniteSet(S) /\ Cardinality(S) \in Nat
         /\ \A T \in SUBSET S : Cardinality(T) \in Nat /\ Cardinality(T) <= Cardinality(S)
         /\ \A n \in Name \ S : Cardinality(S \cup {n}) = Cardinality(S) + 1
         /\ \A n \in S : Cardinality(S \ {n}) = Cardinality(S) - 1
PROOF
  <1>1. IsFiniteSet(S)
    BY FS_Subset
  <1>2. Cardinality(S) \in Nat
    BY <1>1, FS_CardinalityType
  <1>3. \A T \in SUBSET S : Cardinality(T) \in Nat /\ Cardinality(T) <= Cardinality(S)
    BY <1>1, FS_Subset, FS_CardinalityType
  <1>4. \A n \in Name \ S : Cardinality(S \cup {n}) = Cardinality(S) + 1
    BY <1>1, FS_AddElement
  <1>5. \A n \in S : Cardinality(S \ {n}) = Cardinality(S) - 1
    BY <1>1, FS_RemoveElement
  <1> QED
    BY <1>1, <1>2, <1>3, <1>4, <1>5

(* Cardinalities of the sets of names that hold an object.                 *)
LEMMA Exchange ==
  ASSUME IsFiniteSet(Name), NEW S \in SUBSET Name, NEW x \in S, NEW y \in Name \ S
  PROVE  Cardinality((S \ {x}) \cup {y}) = Cardinality(S)
PROOF
  <1>1. Cardinality(S \ {x}) = Cardinality(S) - 1 /\ Cardinality(S) \in Nat
    BY NameSets
  <1>2. Cardinality((S \ {x}) \cup {y}) = Cardinality(S \ {x}) + 1
    <2>1. S \ {x} \in SUBSET Name /\ y \in Name \ (S \ {x})
      OBVIOUS
    <2> QED
      BY <2>1, NameSets
  <1> QED
    BY <1>1, <1>2

LEMMA Pair ==
  ASSUME NEW x \in Name, NEW y \in Name, x # y
  PROVE  Cardinality({x, y}) = 2
PROOF
  <1>1. IsFiniteSet({x}) /\ Cardinality({x}) = 1
    BY FS_Singleton
  <1>2. Cardinality({x} \cup {y}) = Cardinality({x}) + 1
    BY <1>1, FS_AddElement
  <1>3. {x} \cup {y} = {x, y}
    OBVIOUS
  <1> QED
    BY <1>1, <1>2, <1>3

(* At most one name, and at most two.                                      *)
LEMMA Few ==
  ASSUME IsFiniteSet(Name), NEW S \in SUBSET Name
  PROVE  /\ Cardinality(S) <= 1 => \A x, y \in S : x = y
         /\ Cardinality(S) <= 2 => \A x, y, z \in S : x = y \/ y = z \/ x = z
PROOF
  <1>1. Cardinality(S) \in Nat
    BY NameSets
  <1>2. ASSUME NEW x \in S, NEW y \in S, x # y
        PROVE  Cardinality(S) >= 2
    <2>1. {x, y} \in SUBSET S
      OBVIOUS
    <2>2. Cardinality({x, y}) = 2
      BY <1>2, Pair
    <2> QED
      BY <1>1, <2>1, <2>2, NameSets
  <1>3. ASSUME NEW x \in S, NEW y \in S, NEW z \in S, x # y, y # z, x # z
        PROVE  Cardinality(S) >= 3
    <2> DEFINE T == {x, y}
    <2>1. T \cup {z} \in SUBSET S /\ T \in SUBSET Name /\ z \in Name \ T
      BY <1>3
    <2>2. Cardinality(T) = 2
      BY <1>3, Pair
    <2> HIDE DEF T
    <2>3. Cardinality(T \cup {z}) = 3
      BY <2>1, <2>2, NameSets
    <2> QED
      BY <1>1, <2>1, <2>3, NameSets
  <1> QED
    BY <1>1, <1>2, <1>3


(* Nothing about the object i and its record changes but the known names.  *)
Kept(i) ==
  /\ object'[i] \in File =>
       /\ object'[i] = object[i]
       /\ record'[i] = None <=> record[i] = None
  /\ record'[i] # None /\ record[i] # None => record'[i].count = record[i].count
  /\ record'[i] # None /\ record[i] = None => record'[i].count = 2
  /\ left \subseteq left' /\ hurt \subseteq hurt'
  /\ i \in left' => i \in left \/ object'[i] \notin File

(* Where the holders of an object and its count stay, so does Counted.     *)
LEMMA CountKept ==
  ASSUME CountInv, NEW i \in Id, Kept(i), object'[i] \in File => Held(i)' = Held(i)
  PROVE  Counted(i)'
PROOF
  BY DEF CountInv, Counted, Kept

(* release() takes one name off the count and off the holders.             *)
LEMMA CountLess ==
  ASSUME IsFiniteSet(Name), TypeOK, BusyInv, ShapeInv, CountInv, NEW s \in Session,
         DoesRelease(s) \/ DoesRelMove(s), Over(s), record[call[s].id] # None, NEW i \in Id
  PROVE  Counted(i)'
PROOF
  <1> USE LinkStoreAssumption
  <1>1. /\ call[s].at \in Releasing /\ Releases(s) /\ CountsLess(s) /\ record[call[s].id].count > 1
        /\ entry' = entry /\ kernel' = kernel /\ object' = object /\ hurt' = hurt
    BY DEF DoesRelease, DoesRelMove, Releases, Releasing, Over, Goes, Ends, CallTo
  <1>2. CASE i # call[s].id
    <2>1. Kept(i)
      BY <1>1, <1>2 DEF Kept, CountsLess, Releases, TypeOK
    <2>2. Held(i)' = Held(i)
      BY <1>1, <1>2, HeldOver DEF Held
    <2> QED
      BY <2>1, <2>2, CountKept
  <1>3. CASE i = call[s].id
    <2>1. call[s].new \in Held(i) /\ Held(i)' = Held(i) \ {call[s].new}
      BY <1>1, <1>3, HeldOver DEF Held, Releases
    <2>2. Held(i) \in SUBSET Name
      BY DEF Held
    <2>3. Cardinality(Held(i)) \in Nat /\ Cardinality(Held(i)') = Cardinality(Held(i)) - 1
      BY <2>1, <2>2, NameSets
    <2>4. record[i].count \in Nat /\ record[i].count > 1 /\ record[i] # None
      BY <1>1, <1>3, Types
    <2>5. /\ record'[i] # None /\ left \subseteq left'
          /\ \/ record'[i].count = record[i].count - 1 /\ left' = left
             \/ record'[i].count = record[i].count /\ i \in left'
      BY <1>1, <1>3, <2>4 DEF CountsLess, Releases, TypeOK
    <2>6. Counted(i)
      BY DEF CountInv
    <2> QED
      BY <1>1, <2>3, <2>4, <2>5, <2>6 DEF Counted
  <1> QED
    BY <1>2, <1>3

(* Without an object there is nothing to count.                            *)
LEMMA CountNone ==
  ASSUME TypeOK, BusyInv, ShapeInv, CountInv, NEW s \in Session,
         DoesRelease(s) \/ DoesRelMove(s), Over(s), record[call[s].id] = None, NEW i \in Id
  PROVE  Counted(i)'
PROOF
  <1>1. /\ call[s].at \in Releasing /\ Releases(s)
        /\ entry' = entry /\ kernel' = kernel /\ object' = object /\ hurt' = hurt
        /\ record' = record /\ left' = left
    BY DEF DoesRelease, DoesRelMove, Releases, Releasing
  <1>2. CASE i # call[s].id
    <2>1. Kept(i)
      BY <1>1, <1>2 DEF Kept
    <2>2. Held(i)' = Held(i)
      BY <1>1, <1>2, HeldOver DEF Held
    <2> QED
      BY <2>1, <2>2, CountKept
  <1>3. CASE i = call[s].id
    BY <1>1, <1>3 DEF CountInv, Counted
  <1> QED
    BY <1>2, <1>3

(* The count follows the names that hold the object.                       *)
LEMMA CountStep ==
  ASSUME IsFiniteSet(Name), TypeOK, BusyInv, ShapeInv, OwnInv, SeenInv, CountInv, Effect
  PROVE  CountInv'
PROOF
  <1> USE LinkStoreAssumption
  <1> SUFFICES ASSUME NEW i \in Id PROVE Counted(i)'
    BY DEF CountInv
  <1>1. ASSUME NEW n \in Name, NEW f \in File, DoesCreate(n, f)
       PROVE  Counted(i)'
    <2>1. object'[i] \in File => Held(i)' = Held(i)
      BY <1>1, HeldCreate DEF HeldSame, Held
    <2>2. Kept(i)
      BY <1>1 DEF DoesCreate, Kept, TypeOK
    <2> QED
      BY <2>1, <2>2, CountKept
  <1>2. ASSUME NEW s \in Session, NEW old \in Name, NEW new \in Name, old # new,
               DoesLinkBegin(s, old, new)
       PROVE  Counted(i)'
    <2>1. object'[i] \in File => Held(i)' = Held(i)
      BY <1>2, HeldLinkBegin DEF HeldSame, Held
    <2>2. Kept(i)
      BY <1>2 DEF DoesLinkBegin, CallTo, Unknown, Kept, TypeOK
    <2> QED
      BY <2>1, <2>2, CountKept
  <1>3. ASSUME NEW s \in Session, DoesNewLink(s)
       PROVE  Counted(i)'
    <2>1. object'[i] \in File => Held(i)' = Held(i)
      BY <1>3, HeldNewLink DEF HeldSame, Held
    <2>2. Kept(i)
      BY <1>3 DEF DoesNewLink, CallTo, Goes, Ends, Linking, Kept, TypeOK
    <2> QED
      BY <2>1, <2>2, CountKept
  <1>4. ASSUME NEW s \in Session, DoesNewRecord(s)
       PROVE  Counted(i)'
    <2>1. object'[i] \in File => Held(i)' = Held(i)
      BY <1>4, HeldNewRecord DEF HeldSame, Held
    <2>2. Kept(i)
      BY <1>4 DEF DoesNewRecord, CallTo, Goes, Linking, OnlyLink, Kept, TypeOK
    <2> QED
      BY <2>1, <2>2, CountKept
  <1>5. ASSUME NEW s \in Session, DoesNewMove(s)
       PROVE  Counted(i)'
    <2>1. CASE i = call[s].id /\ object' # object
      <3>1. object'[i] \in File
        BY <1>5, <2>1 DEF DoesNewMove, CallTo, Goes, Linking, OnlyLink, TypeOK
      <3>2. Held(i)' = {call[s].old, call[s].new}
        <4>1. \A n \in Name : Holds(n, i)' <=> n \in {call[s].old, call[s].new}
          BY <1>5, <2>1, <3>1, HeldNewMove
        <4> QED
          BY <1>5, <4>1 DEF Held, DoesNewMove, CallTo, Goes, Linking, OnlyLink
      <3>3. Cardinality({call[s].old, call[s].new}) = 2
        BY <1>5, Pair DEF DoesNewMove, CallTo, Goes, Linking, OnlyLink
      <3>4. record'[i] # None /\ record'[i].count = 2
        BY <1>5, <2>1 DEF DoesNewMove, CallTo, Goes, Linking, OnlyLink
      <3> QED
        BY <3>2, <3>3, <3>4 DEF Counted
    <2>2. CASE i # call[s].id \/ object' = object
      <3>1. object'[i] \in File => Held(i)' = Held(i)
        BY <1>5, <2>2, HeldNewMove DEF Held
      <3>2. Kept(i)
        BY <1>5, <2>2 DEF DoesNewMove, CallTo, Goes, Linking, OnlyLink, Kept, TypeOK
      <3> QED
        BY <3>1, <3>2, CountKept
    <2> QED
      BY <2>1, <2>2
  <1>6. ASSUME NEW s \in Session, DoesNewOld(s)
       PROVE  Counted(i)'
    <2>1. object'[i] \in File => Held(i)' = Held(i)
      BY <1>6, HeldNewOld DEF HeldSame, Held
    <2>2. Kept(i)
      BY <1>6 DEF DoesNewOld, CallTo, Goes, Ends, Linking, OnlyLink, Kept, TypeOK
    <2> QED
      BY <2>1, <2>2, CountKept
  <1>7. ASSUME NEW s \in Session, DoesUndoMove(s)
       PROVE  Counted(i)'
    <2>1. object'[i] \in File => Held(i)' = Held(i)
      BY <1>7, HeldUndoMove DEF HeldSame, Held
    <2>2. Kept(i)
      BY <1>7 DEF DoesUndoMove, CallTo, Goes, Linking, OnlyLink, Kept, TypeOK
    <2> QED
      BY <2>1, <2>2, CountKept
  <1>8. ASSUME NEW s \in Session, DoesUndoRecord(s)
       PROVE  Counted(i)'
    <2>1. object'[i] \in File => Held(i)' = Held(i)
      BY <1>8, HeldUndoRecord DEF HeldSame, Held
    <2>2. Kept(i)
      BY <1>8 DEF DoesUndoRecord, CallTo, Goes, Linking, OnlyLink, Kept, TypeOK
    <2> QED
      BY <2>1, <2>2, CountKept
  <1>9. ASSUME NEW s \in Session, DoesUndoNew(s)
       PROVE  Counted(i)'
    <2>1. object'[i] \in File => Held(i)' = Held(i)
      BY <1>9, HeldUndoNew DEF HeldSame, Held
    <2>2. Kept(i)
      BY <1>9 DEF DoesUndoNew, CallTo, Ends, Linking, OnlyLink, Kept, TypeOK
    <2> QED
      BY <2>1, <2>2, CountKept
  <1>10. ASSUME NEW s \in Session, DoesExLink(s)
       PROVE  Counted(i)'
    <2>1. object'[i] \in File => Held(i)' = Held(i)
      BY <1>10, HeldExLink DEF HeldSame, Held
    <2>2. Kept(i)
      BY <1>10 DEF DoesExLink, CallTo, Goes, Ends, Linking, Kept, TypeOK
    <2> QED
      BY <2>1, <2>2, CountKept
  <1>11. ASSUME NEW s \in Session, DoesExRecord(s)
       PROVE  Counted(i)'
    <2>1. CASE i # call[s].id \/ record' = record
      <3>1. object'[i] \in File => Held(i)' = Held(i)
        BY <1>11, <2>1, HeldExRecord DEF Held
      <3>2. Kept(i)
        BY <1>11, <2>1 DEF DoesExRecord, CallTo, Ends, Linking, Kept, TypeOK
      <3> QED
        BY <3>1, <3>2, CountKept
    <2>2. CASE i = call[s].id /\ record' # record
      <3>1. /\ record'[i] # None
            /\ record[i] # None => record'[i].count = record[i].count + 1
            /\ record[i] = None => record'[i].count = 2
            /\ object' = object /\ left' = left /\ hurt' = hurt
        BY <1>11, <2>2 DEF DoesExRecord, CallTo, Ends, Linking, TypeOK
      <3>2. record[i] # None => record[i].count \in Nat /\ record[i].count > 0
        BY Types DEF CountInv, Counted
      <3>3. ASSUME object[i] \in File, i \notin left \/ object[i] \notin hurt
            PROVE  /\ record[i] # None /\ record[i].count >= Cardinality(Held(i))
                   /\ i \in left \/ record[i].count = Cardinality(Held(i))
                   /\ Cardinality(Held(i)) \in Nat
                   /\ Cardinality(Held(i)') = Cardinality(Held(i)) + 1
        <4>1. call[s].new \in Name \ Held(i) /\ Held(i)' = Held(i) \cup {call[s].new}
          BY <1>11, <2>2, <3>1, <3>3, HeldExRecord DEF Held, DoesExRecord, Linking
        <4>2. Held(i) \in SUBSET Name
          BY DEF Held
        <4> QED
          BY <3>3, <4>1, <4>2, NameSets DEF CountInv, Counted
      <3> QED
        BY <3>1, <3>2, <3>3 DEF Counted
    <2> QED
      BY <2>1, <2>2
  <1>12. ASSUME NEW s \in Session, NEW n \in Name, DoesUnlinkBegin(s, n)
       PROVE  Counted(i)'
    <2>1. object'[i] \in File => Held(i)' = Held(i)
      BY <1>12, HeldUnlinkBegin DEF HeldSame, Held
    <2>2. Kept(i)
      BY <1>12 DEF DoesUnlinkBegin, CallTo, KernelIs, Kept, TypeOK
    <2> QED
      BY <2>1, <2>2, CountKept
  <1>13. ASSUME NEW s \in Session, DoesUnlinkName(s)
       PROVE  Counted(i)'
    <2>1. object'[i] \in File => Held(i)' = Held(i)
      BY <1>13, HeldUnlinkName DEF HeldSame, Held
    <2>2. Kept(i)
      BY <1>13 DEF DoesUnlinkName, CallTo, Goes, Ends, Kept, TypeOK
    <2> QED
      BY <2>1, <2>2, CountKept
  <1>14. ASSUME NEW s \in Session, DoesRelease(s)
       PROVE  Counted(i)'
    <2>1. CASE ~Over(s)
      <3>1. object'[i] \in File => Held(i)' = Held(i)
        BY <1>14, <2>1, HeldWorking DEF Held
      <3>2. Kept(i)
        BY <1>14, <2>1 DEF DoesRelease, DoesRelMove, Releases, Kept, TypeOK
      <3> QED
        BY <3>1, <3>2, CountKept
    <2>2. CASE Over(s) /\ record[call[s].id] # None
      BY <1>14, <2>2, CountLess
    <2>3. CASE Over(s) /\ record[call[s].id] = None
      BY <1>14, <2>3, CountNone
    <2> QED
      BY <2>1, <2>2, <2>3
  <1>15. ASSUME NEW s \in Session, DoesRelMove(s)
       PROVE  Counted(i)'
    <2>1. CASE ~Over(s)
      <3>1. object'[i] \in File => Held(i)' = Held(i)
        BY <1>15, <2>1, HeldWorking DEF Held
      <3>2. Kept(i)
        BY <1>15, <2>1 DEF DoesRelease, DoesRelMove, Releases, Kept, TypeOK
      <3> QED
        BY <3>1, <3>2, CountKept
    <2>2. CASE Over(s) /\ record[call[s].id] # None
      BY <1>15, <2>2, CountLess
    <2>3. CASE Over(s) /\ record[call[s].id] = None
      BY <1>15, <2>3, CountNone
    <2> QED
      BY <2>1, <2>2, <2>3
  <1>16. ASSUME NEW s \in Session, DoesRelRecord(s)
       PROVE  Counted(i)'
    <2>1. object'[i] \in File => Held(i)' = Held(i)
      BY <1>16, HeldRelRecord DEF HeldSame, Held
    <2>2. Kept(i)
      BY <1>16 DEF DoesRelRecord, CallTo, Goes, Ends, Over, Kept, TypeOK
    <2> QED
      BY <2>1, <2>2, CountKept
  <1>17. ASSUME NEW s \in Session, NEW from \in Name, NEW to \in Name,
              NEW op \in Op \ {"unlink"}, from # to, DoesRenameBegin(s, from, to, op)
       PROVE  Counted(i)'
    <2>1. object'[i] \in File => Held(i)' = Held(i)
      BY <1>17, HeldRenameBegin DEF HeldSame, Held
    <2>2. Kept(i)
      BY <1>17 DEF DoesRenameBegin, KernelIs, Kept, TypeOK
    <2> QED
      BY <2>1, <2>2, CountKept
  <1>18. ASSUME NEW s \in Session, DoesFixupBegin(s)
       PROVE  Counted(i)'
    <2>1. object'[i] \in File => Held(i)' = Held(i)
      BY <1>18, HeldFixupBegin DEF HeldSame, Held
    <2>2. Kept(i)
      BY <1>18 DEF DoesFixupBegin, CallTo, Kept, TypeOK
    <2> QED
      BY <2>1, <2>2, CountKept
  <1>19. ASSUME NEW s \in Session, DoesMoved(s)
       PROVE  Counted(i)'
    <2>1. object'[i] \in File => Held(i)' = Held(i)
      BY <1>19, HeldMoved DEF HeldSame, Held
    <2>2. Kept(i)
      BY <1>19 DEF DoesMoved, CallTo, Goes, Ends, KernelGone, Kept, TypeOK, CountsSame
    <2> QED
      BY <2>1, <2>2, CountKept
  <1>20. ASSUME NEW s \in Session, DoesKernelActs(s)
       PROVE  Counted(i)'
    <2>1. Kept(i) /\ object' = object
      BY <1>20 DEF DoesKernelActs, KernelIs, KernelGone, Exchanged, Renamed, Kept, TypeOK
    <2>2. ASSUME object[i] \in File
          PROVE  Cardinality(Held(i)') = Cardinality(Held(i))
      <3>1. CASE \A n \in Name : Holds(n, i)' <=> Holds(n, i)
        <4>1. Held(i)' = Held(i)
          BY <3>1 DEF Held
        <4> QED
          BY <4>1
      <3>2. CASE \E x, y \in Name :
                   /\ Holds(x, i) /\ ~Holds(y, i)
                   /\ \A n \in Name : Holds(n, i)' <=> (Holds(n, i) /\ n # x) \/ n = y
        <4>1. PICK x, y \in Name :
                   /\ Holds(x, i) /\ ~Holds(y, i)
                   /\ \A n \in Name : Holds(n, i)' <=> (Holds(n, i) /\ n # x) \/ n = y
          BY <3>2
        <4>2. x \in Held(i) /\ y \in Name \ Held(i) /\ Held(i)' = (Held(i) \ {x}) \cup {y}
          BY <4>1 DEF Held
        <4>3. Held(i) \in SUBSET Name
          BY DEF Held
        <4> QED
          BY <4>2, <4>3, Exchange
      <3> QED
        BY <1>20, <2>2, <3>1, <3>2, HeldKernelActs
    <2> QED
      BY <2>1, <2>2 DEF Kept, CountInv, Counted
  <1>21. ASSUME NEW s \in Session, DoesKernelRefuses(s)
       PROVE  Counted(i)'
    <2>1. object'[i] \in File => Held(i)' = Held(i)
      BY <1>21, HeldKernelRefuses DEF HeldSame, Held
    <2>2. Kept(i)
      BY <1>21 DEF DoesKernelRefuses, KernelGone, Kept, TypeOK
    <2> QED
      BY <2>1, <2>2, CountKept
  <1>22. ASSUME NEW s \in Session, DoesCrash(s)
       PROVE  Counted(i)'
    <2>1. /\ object' = object /\ record' = record
          /\ left \subseteq left' /\ hurt \subseteq hurt'
      BY <1>22 DEF DoesCrash, CallTo, Ends, KernelGone
    <2>2. Held(i) \in SUBSET Name
      BY DEF Held
    <2>3. ASSUME object[i] \in File, i \notin left'
          PROVE  Held(i)' = Held(i)
      BY <1>22, <2>3, HeldCrash DEF Held
    <2>4. ASSUME object[i] \in File, object[i] \notin hurt'
          PROVE  Held(i)' \in SUBSET Held(i)
      BY <1>22, <2>4, HeldCrash DEF Held
    <2>5. /\ record[i] # None => record[i].count \in Nat
          /\ Cardinality(Held(i)) \in Nat
          /\ \A T \in SUBSET Held(i) : Cardinality(T) \in Nat /\ Cardinality(T) <= Cardinality(Held(i))
      BY <2>2, NameSets, Types
    <2>6. CASE i \notin left'
      BY <2>1, <2>3, <2>6 DEF CountInv, Counted
    <2>7. CASE i \in left'
      BY <2>1, <2>4, <2>5, <2>7 DEF CountInv, Counted
    <2> QED
      BY <2>6, <2>7
  <1> QED
    BY <1>1, <1>2, <1>3, <1>4, <1>5, <1>6, <1>7, <1>8, <1>9, <1>10, <1>11, <1>12, <1>13, <1>14,
           <1>15, <1>16, <1>17, <1>18, <1>19, <1>20, <1>21, <1>22 DEF Effect


(***************************************************************************)
(* What release() may conclude from the count.                             *)
(***************************************************************************)
LEMMA LinkedBy ==
  ASSUME SeenInv, NEW n \in Name, entry[n] \in Id, BeingLinked(n)
  PROVE  \E t \in Session :
           call[t].at = "ex_record" /\ call[t].new = n /\ call[t].id = entry[n]
PROOF
  BY LinkStoreAssumption DEF SeenInv, BeingLinked, At

(* At the last name, only links that are not counted yet are left.         *)
LEMMA LastName ==
  ASSUME IsFiniteSet(Name), TypeOK, CountInv, NEW s \in Session, DoesRelease(s),
         record[call[s].id] # None, record[call[s].id].count = 1,
         object[call[s].id] \in File,
         call[s].id \notin left \/ object[call[s].id] \notin hurt,
         NEW n \in Name, entry[n] = call[s].id
  PROVE  BeingLinked(n)
PROOF
  <1> DEFINE i == call[s].id
  <1>1. i \in Id /\ call[s].new \in Name /\ entry[call[s].new] # i
    BY DEF DoesRelease, Releases
  <1>2. Held(i) \in SUBSET Name /\ call[s].new \in Held(i)
    BY <1>1 DEF DoesRelease, Held, Holds, Owes, Releasing
  <1>3. Cardinality(Held(i)) \in Nat /\ 1 >= Cardinality(Held(i))
    BY <1>1, <1>2, NameSets DEF CountInv, Counted
  <1>4. n \notin Held(i)
    BY <1>1, <1>2, <1>3, Few
  <1> QED
    BY <1>4 DEF Held, Holds

(* At the last two, the name the file goes back to is the other one.       *)
LEMMA LastTwo ==
  ASSUME IsFiniteSet(Name), TypeOK, CountInv, NEW s \in Session, DoesRelMove(s),
         ~BeingLinked(call[s].pick), object[call[s].id] \in File,
         call[s].id \notin left \/ object[call[s].id] \notin hurt,
         NEW n \in Name, entry[n] = call[s].id, n # call[s].pick
  PROVE  BeingLinked(n)
PROOF
  <1> DEFINE i == call[s].id
  <1>1. /\ i \in Id /\ call[s].new \in Name /\ entry[call[s].new] # i
        /\ call[s].pick \in Name /\ entry[call[s].pick] = i
        /\ record[i] # None /\ record[i].count = 2
    BY DEF DoesRelMove, Releases
  <1>2. Held(i) \in SUBSET Name /\ call[s].new \in Held(i) /\ call[s].pick \in Held(i)
    BY <1>1 DEF DoesRelMove, Held, Holds, Owes, Releasing
  <1>3. Cardinality(Held(i)) \in Nat /\ 2 >= Cardinality(Held(i))
    BY <1>1, <1>2, NameSets DEF CountInv, Counted
  <1>4. n \notin Held(i)
    BY <1>1, <1>2, <1>3, Few
  <1> QED
    BY <1>4 DEF Held, Holds

(* What was left and what was hurt stay so.                                *)
LEMMA Grows ==
  ASSUME TypeOK, Effect
  PROVE  left \subseteq left' /\ hurt \subseteq hurt'
PROOF
  <1>1. ASSUME NEW n \in Name, NEW f \in File, DoesCreate(n, f)
       PROVE  left \subseteq left' /\ hurt \subseteq hurt'
    BY <1>1 DEF DoesCreate
  <1>2. ASSUME NEW s \in Session, NEW old \in Name, NEW new \in Name, old # new,
               DoesLinkBegin(s, old, new)
       PROVE  left \subseteq left' /\ hurt \subseteq hurt'
    BY <1>2 DEF DoesLinkBegin, CallTo, Unknown
  <1>3. ASSUME NEW s \in Session, DoesNewLink(s)
       PROVE  left \subseteq left' /\ hurt \subseteq hurt'
    BY <1>3 DEF DoesNewLink, CallTo, Goes, Ends, Linking
  <1>4. ASSUME NEW s \in Session, DoesNewRecord(s)
       PROVE  left \subseteq left' /\ hurt \subseteq hurt'
    BY <1>4 DEF DoesNewRecord, CallTo, Goes, Linking, OnlyLink
  <1>5. ASSUME NEW s \in Session, DoesNewMove(s)
       PROVE  left \subseteq left' /\ hurt \subseteq hurt'
    BY <1>5 DEF DoesNewMove, CallTo, Goes, Linking, OnlyLink
  <1>6. ASSUME NEW s \in Session, DoesNewOld(s)
       PROVE  left \subseteq left' /\ hurt \subseteq hurt'
    BY <1>6 DEF DoesNewOld, CallTo, Goes, Ends, Linking, OnlyLink
  <1>7. ASSUME NEW s \in Session, DoesUndoMove(s)
       PROVE  left \subseteq left' /\ hurt \subseteq hurt'
    BY <1>7 DEF DoesUndoMove, CallTo, Goes, Linking, OnlyLink
  <1>8. ASSUME NEW s \in Session, DoesUndoRecord(s)
       PROVE  left \subseteq left' /\ hurt \subseteq hurt'
    BY <1>8 DEF DoesUndoRecord, CallTo, Goes, Linking, OnlyLink
  <1>9. ASSUME NEW s \in Session, DoesUndoNew(s)
       PROVE  left \subseteq left' /\ hurt \subseteq hurt'
    BY <1>9 DEF DoesUndoNew, CallTo, Ends, Linking, OnlyLink
  <1>10. ASSUME NEW s \in Session, DoesExLink(s)
       PROVE  left \subseteq left' /\ hurt \subseteq hurt'
    BY <1>10 DEF DoesExLink, CallTo, Goes, Ends, Linking
  <1>11. ASSUME NEW s \in Session, DoesExRecord(s)
       PROVE  left \subseteq left' /\ hurt \subseteq hurt'
    BY <1>11 DEF DoesExRecord, CallTo, Ends, Linking
  <1>12. ASSUME NEW s \in Session, NEW n \in Name, DoesUnlinkBegin(s, n)
       PROVE  left \subseteq left' /\ hurt \subseteq hurt'
    BY <1>12 DEF DoesUnlinkBegin, CallTo, KernelIs
  <1>13. ASSUME NEW s \in Session, DoesUnlinkName(s)
       PROVE  left \subseteq left' /\ hurt \subseteq hurt'
    BY <1>13 DEF DoesUnlinkName, CallTo, Goes, Ends
  <1>14. ASSUME NEW s \in Session, DoesRelease(s)
       PROVE  left \subseteq left' /\ hurt \subseteq hurt'
    BY <1>14 DEF DoesRelease, CallTo, Goes, Ends, Over, Releases, CountsLess
  <1>15. ASSUME NEW s \in Session, DoesRelMove(s)
       PROVE  left \subseteq left' /\ hurt \subseteq hurt'
    BY <1>15 DEF DoesRelMove, CallTo, Goes, Ends, Over, Releases, CountsLess
  <1>16. ASSUME NEW s \in Session, DoesRelRecord(s)
       PROVE  left \subseteq left' /\ hurt \subseteq hurt'
    BY <1>16 DEF DoesRelRecord, CallTo, Goes, Ends, Over
  <1>17. ASSUME NEW s \in Session, NEW from \in Name, NEW to \in Name,
              NEW op \in Op \ {"unlink"}, from # to, DoesRenameBegin(s, from, to, op)
       PROVE  left \subseteq left' /\ hurt \subseteq hurt'
    BY <1>17 DEF DoesRenameBegin, KernelIs
  <1>18. ASSUME NEW s \in Session, DoesFixupBegin(s)
       PROVE  left \subseteq left' /\ hurt \subseteq hurt'
    BY <1>18 DEF DoesFixupBegin, CallTo
  <1>19. ASSUME NEW s \in Session, DoesMoved(s)
       PROVE  left \subseteq left' /\ hurt \subseteq hurt'
    BY <1>19 DEF DoesMoved, CallTo, Goes, Ends, KernelGone
  <1>20. ASSUME NEW s \in Session, DoesKernelActs(s)
       PROVE  left \subseteq left' /\ hurt \subseteq hurt'
    BY <1>20 DEF DoesKernelActs, KernelIs, KernelGone, Exchanged, Renamed
  <1>21. ASSUME NEW s \in Session, DoesKernelRefuses(s)
       PROVE  left \subseteq left' /\ hurt \subseteq hurt'
    BY <1>21 DEF DoesKernelRefuses, KernelGone
  <1>22. ASSUME NEW s \in Session, DoesCrash(s)
       PROVE  left \subseteq left' /\ hurt \subseteq hurt'
    BY <1>22 DEF DoesCrash, CallTo, Ends, KernelGone
  <1> QED
    BY <1>1, <1>2, <1>3, <1>4, <1>5, <1>6, <1>7, <1>8, <1>9, <1>10, <1>11, <1>12, <1>13, <1>14,
           <1>15, <1>16, <1>17, <1>18, <1>19, <1>20, <1>21, <1>22 DEF Effect

(* What is left of a dropped object is in somebody's hands.                *)
LEMMA TraceStep ==
  ASSUME IsFiniteSet(Name), TypeOK, BusyInv, ShapeInv, OwnInv, SeenInv, PlaceInv, CountInv,
         TraceInv, Effect
  PROVE  TraceInv'
PROOF
  <1> USE LinkStoreAssumption
  <1> SUFFICES ASSUME NEW i \in Id, i \notin left', object'[i] = None
               PROVE  Traced(i)'
    BY DEF TraceInv
  <1>b. i \notin left /\ (object[i] = None => Traced(i))
    BY Grows DEF TraceInv
  <1>1. ASSUME NEW n \in Name, NEW f \in File, DoesCreate(n, f)
       PROVE  Traced(i)'
    BY <1>1, <1>b DEF DoesCreate, Traced, TraceInv, Named, TypeOK
  <1>2. ASSUME NEW s \in Session, NEW old \in Name, NEW new \in Name, old # new,
               DoesLinkBegin(s, old, new)
       PROVE  Traced(i)'
    BY <1>2, <1>b DEF DoesLinkBegin, CallTo, Unknown, Traced, TraceInv, Named, TypeOK
  <1>3. ASSUME NEW s \in Session, DoesNewLink(s)
       PROVE  Traced(i)'
    BY <1>3, <1>b DEF DoesNewLink, CallTo, Goes, Ends, Linking, Traced, TraceInv, Named, TypeOK
  <1>4. ASSUME NEW s \in Session, DoesNewRecord(s)
       PROVE  Traced(i)'
    BY <1>4, <1>b DEF DoesNewRecord, CallTo, Goes, Linking, OnlyLink, Traced, TraceInv, Named,
           TypeOK
  <1>5. ASSUME NEW s \in Session, DoesNewMove(s)
       PROVE  Traced(i)'
    BY <1>5, <1>b DEF DoesNewMove, CallTo, Goes, Linking, OnlyLink, Traced, TraceInv, Named,
           TypeOK
  <1>6. ASSUME NEW s \in Session, DoesNewOld(s)
       PROVE  Traced(i)'
    BY <1>6, <1>b DEF DoesNewOld, CallTo, Goes, Ends, Linking, OnlyLink, Traced, TraceInv, Named,
           TypeOK
  <1>7. ASSUME NEW s \in Session, DoesUndoMove(s)
       PROVE  Traced(i)'
    BY <1>7, <1>b DEF DoesUndoMove, CallTo, Goes, Linking, OnlyLink, Traced, TraceInv, Named,
           TypeOK
  <1>8. ASSUME NEW s \in Session, DoesUndoRecord(s)
       PROVE  Traced(i)'
    BY <1>8, <1>b DEF DoesUndoRecord, CallTo, Goes, Linking, OnlyLink, Traced, TraceInv, Named,
           TypeOK
  <1>9. ASSUME NEW s \in Session, DoesUndoNew(s)
       PROVE  Traced(i)'
    BY <1>9, <1>b DEF DoesUndoNew, CallTo, Ends, Linking, OnlyLink, Traced, TraceInv, Named,
           TypeOK
  <1>10. ASSUME NEW s \in Session, DoesExLink(s)
       PROVE  Traced(i)'
    BY <1>10, <1>b DEF DoesExLink, CallTo, Goes, Ends, Linking, Traced, TraceInv, Named, TypeOK
  <1>11. ASSUME NEW s \in Session, DoesExRecord(s)
       PROVE  Traced(i)'
    BY <1>11, <1>b DEF DoesExRecord, CallTo, Ends, Linking, Traced, TraceInv, Named, TypeOK
  <1>12. ASSUME NEW s \in Session, NEW n \in Name, DoesUnlinkBegin(s, n)
       PROVE  Traced(i)'
    BY <1>12, <1>b DEF DoesUnlinkBegin, CallTo, KernelIs, Traced, TraceInv, Named, TypeOK
  <1>13. ASSUME NEW s \in Session, DoesUnlinkName(s)
       PROVE  Traced(i)'
    BY <1>13, <1>b DEF DoesUnlinkName, CallTo, Goes, Ends, Traced, TraceInv, Named, TypeOK
  <1>14. ASSUME NEW s \in Session, DoesRelease(s)
       PROVE  Traced(i)'
    <2>1. CASE /\ Goes(s, "rel_record") /\ object' = [object EXCEPT ![call[s].id] = None]
               /\ record[call[s].id] # None /\ record[call[s].id].count = 1
               /\ entry' = entry /\ record' = record /\ left' = left
      <3>1. CASE i = call[s].id
        <4>1. ASSUME NEW n \in Name, entry[n] = i
              PROVE  \E t \in Session : call[t].id = i /\ call[t].new = n
                                        /\ call[t].at \in Named \cup {"ex_record"}
          <5>1. CASE object[i] = None
            BY <4>1, <5>1, <1>b DEF Traced
          <5>2. CASE object[i] # None
            <6>1. object[i] \in File
              BY <5>2, Types DEF PlaceInv
            <6>2. BeingLinked(n)
              BY <1>14, <2>1, <3>1, <4>1, <6>1, LastName
            <6> QED
              BY <4>1, <6>2, LinkedBy
          <5> QED
            BY <5>1, <5>2
        <4> QED
          BY <1>14, <2>1, <3>1, <4>1 DEF DoesRelease, CallTo, Goes, Traced, Named
      <3>2. CASE i # call[s].id
        BY <1>14, <2>1, <3>2 DEF DoesRelease, Releases, CallTo, Goes, Traced, TraceInv, Named,
               TypeOK
      <3> QED
        BY <3>1, <3>2
    <2>2. CASE entry' = entry /\ object' = object
      BY <1>14, <2>2, <1>b DEF DoesRelease, CallTo, Goes, Ends, Over, Releases, CountsLess,
             Traced, TraceInv, Named, TypeOK
    <2> QED
      BY <1>14, <2>1, <2>2 DEF DoesRelease
  <1>15. ASSUME NEW s \in Session, DoesRelMove(s)
       PROVE  Traced(i)'
    <2>1. CASE /\ Goes(s, "rel_record") /\ object' = [object EXCEPT ![call[s].id] = None]
               /\ entry' = [entry EXCEPT ![call[s].pick] = object[call[s].id]]
               /\ object[call[s].id] \in File /\ record' = record
               /\ left' = IF BeingLinked(call[s].pick) THEN left \cup {call[s].id} ELSE left
      <3>1. CASE i = call[s].id
        <4>1. ASSUME NEW n \in Name, entry'[n] = i
              PROVE  \E t \in Session : call[t].id = i /\ call[t].new = n
                                        /\ call[t].at \in Named \cup {"ex_record"}
          <5>1. n # call[s].pick /\ entry[n] = i /\ ~BeingLinked(call[s].pick)
            BY <1>15, <2>1, <3>1, <4>1 DEF DoesRelMove, TypeOK
          <5>2. BeingLinked(n)
            BY <1>15, <2>1, <3>1, <5>1, LastTwo
          <5> QED
            BY <5>1, <5>2, LinkedBy
        <4> QED
          BY <1>15, <2>1, <3>1, <4>1 DEF DoesRelMove, CallTo, Goes, Traced, Named
      <3>2. CASE i # call[s].id
        BY <1>15, <2>1, <3>2 DEF DoesRelMove, Releases, CallTo, Goes, Traced, TraceInv, Named,
               TypeOK
      <3> QED
        BY <3>1, <3>2
    <2>2. CASE entry' = entry /\ object' = object
      BY <1>15, <2>2, <1>b DEF DoesRelMove, CallTo, Goes, Ends, Over, Releases, CountsLess,
             Traced, TraceInv, Named, TypeOK
    <2> QED
      BY <1>15, <2>1, <2>2 DEF DoesRelMove
  <1>16. ASSUME NEW s \in Session, DoesRelRecord(s)
       PROVE  Traced(i)'
    BY <1>16, <1>b DEF DoesRelRecord, CallTo, Goes, Ends, Over, Traced, TraceInv, Named, TypeOK
  <1>17. ASSUME NEW s \in Session, NEW from \in Name, NEW to \in Name,
              NEW op \in Op \ {"unlink"}, from # to, DoesRenameBegin(s, from, to, op)
       PROVE  Traced(i)'
    BY <1>17, <1>b DEF DoesRenameBegin, KernelIs, Traced, TraceInv, Named, TypeOK
  <1>18. ASSUME NEW s \in Session, DoesFixupBegin(s)
       PROVE  Traced(i)'
    BY <1>18, <1>b DEF DoesFixupBegin, CallTo, Traced, TraceInv, Named, TypeOK
  <1>19. ASSUME NEW s \in Session, DoesMoved(s)
       PROVE  Traced(i)'
    <2>1. /\ entry' = entry /\ object' = object /\ CountsSame /\ left' = left
          /\ call[s].at \in {"moved", "moved_back"}
          /\ Goes(s, "moved_back") \/ Ends(s)
      BY <1>19 DEF DoesMoved
    <2> QED
      BY <2>1, <1>b DEF CallTo, Goes, Ends, CountsSame, Traced, TraceInv, Named
  <1>20. ASSUME NEW s \in Session, DoesKernelActs(s)
       PROVE  Traced(i)'
    <2>1. CASE object[i] = None
      <3>0. /\ kernel[s] # None /\ kernel[s].from \in Name /\ kernel[s].to \in Name
            /\ ~call[s].fixup
        BY <1>20 DEF DoesKernelActs
      <3>1. ASSUME NEW n \in {kernel[s].from, kernel[s].to}, entry[n] = i
            PROVE  FALSE
        <4>1. n \in Name /\ InKernelOf(kernel[s], n)
          BY <3>0, <3>1 DEF InKernelOf
        <4>2. PICK t \in Session : call[t].new = n
          BY <2>1, <3>1, <4>1, <1>b DEF Traced
        <4>3. InCallOf(call[t], n)
          BY <4>2 DEF InCallOf
        <4>4. t = s
          BY <4>1, <4>3 DEF BusyInv, Uses
        <4> QED
          BY <3>0, <4>1, <4>3, <4>4 DEF BusyInv
      <3>2. \A n \in Name : entry'[n] = i => entry[n] = i
        BY <1>20, <3>1 DEF DoesKernelActs, Exchanged, Renamed
      <3> QED
        BY <1>20, <2>1, <3>2, <1>b DEF DoesKernelActs, Traced, TraceInv
    <2>2. CASE object[i] # None
      BY <1>20, <2>2 DEF DoesKernelActs, Traced
    <2> QED
      BY <2>1, <2>2
  <1>21. ASSUME NEW s \in Session, DoesKernelRefuses(s)
       PROVE  Traced(i)'
    BY <1>21, <1>b DEF DoesKernelRefuses, KernelGone, Traced, TraceInv, Named, TypeOK
  <1>22. ASSUME NEW s \in Session, DoesCrash(s)
       PROVE  Traced(i)'
    BY <1>22, <1>b DEF DoesCrash, CallTo, Ends, KernelGone, Traced, TraceInv, Named, TypeOK
  <1> QED
    BY <1>1, <1>2, <1>3, <1>4, <1>5, <1>6, <1>7, <1>8, <1>9, <1>10, <1>11, <1>12, <1>13, <1>14,
           <1>15, <1>16, <1>17, <1>18, <1>19, <1>20, <1>21, <1>22 DEF Effect


(***************************************************************************)
(* What the names show.                                                    *)
(***************************************************************************)
LEMMA Alone ==
  ASSUME TypeOK, BusyInv, NEW s \in Session, NEW t \in Session, s # t
  PROVE  /\ call[s].new \in Name => call[t].new # call[s].new /\ call[t].old # call[s].new
         /\ call[s].old \in Name => call[t].new # call[s].old /\ call[t].old # call[s].old
PROOF
  BY DEF BusyInv, Uses, InCallOf

(* The names of a call in the kernel are in no supervisor's hands.         *)
LEMMA KernelAlone ==
  ASSUME BusyInv, NEW s \in Session, kernel[s] # None, ~call[s].fixup,
         NEW n \in Name, n = kernel[s].from \/ n = kernel[s].to
  PROVE  /\ ~Unborn(n) /\ ~Away(n)
         /\ \A t \in Session : call[t].old # n /\ call[t].new # n
PROOF
  <1>1. Uses(s, n) /\ ~InCallOf(call[s], n)
    BY DEF BusyInv, Uses, InKernelOf
  <1>2. \A t \in Session : call[t].old # n /\ call[t].new # n
    BY <1>1 DEF BusyInv, Uses, InCallOf
  <1> QED
    BY <1>2 DEF Unborn, Away

(* A name that link(2) has not returned yet is nobody's in the reference.  *)
LEMMA UnbornStep ==
  ASSUME TypeOK, BusyInv, TruthInv, Effect
  PROVE  UnbornInv'
PROOF
  <1> USE LinkStoreAssumption DEF TruthInv
  <1>1. ASSUME NEW n \in Name, NEW f \in File, DoesCreate(n, f)
       PROVE  UnbornInv'
    <2>1. ~Unborn(n)
      BY <1>1 DEF DoesCreate, Unborn, Uses, InCallOf
    <2> QED
      BY <1>1, <2>1 DEF DoesCreate, UnbornInv, Unborn, TypeOK
  <1>2. ASSUME NEW s \in Session, NEW old \in Name, NEW new \in Name, old # new,
               DoesLinkBegin(s, old, new)
       PROVE  UnbornInv'
    BY <1>2 DEF DoesLinkBegin, CallTo, Unknown, UnbornInv, Unborn, Stored, TypeOK
  <1>3. ASSUME NEW s \in Session, DoesNewLink(s)
       PROVE  UnbornInv'
    BY <1>3 DEF DoesNewLink, CallTo, Goes, Ends, Linking, UnbornInv, Unborn, Stored, TypeOK
  <1>4. ASSUME NEW s \in Session, DoesNewRecord(s)
       PROVE  UnbornInv'
    BY <1>4 DEF DoesNewRecord, CallTo, Goes, Linking, OnlyLink, UnbornInv, Unborn, Stored, TypeOK
  <1>5. ASSUME NEW s \in Session, DoesNewMove(s)
       PROVE  UnbornInv'
    <2>1. call[s].new \in Name /\ call[s].at \notin Stored /\ call[s].at # "ex_record"
      BY <1>5 DEF DoesNewMove, Linking, Stored
    <2>2. ~Unborn(call[s].new) /\ ~Away(call[s].new)
      BY <2>1, Alone DEF Unborn, Away
    <2>3. truth[call[s].new] \in {None} \cup hurt
      BY <1>5, <2>1, <2>2 DEF DoesNewMove, Linking, OnlyLink, ShownInv, Shown, Resolve, TypeOK
    <2> QED
      BY <1>5, <2>3 DEF DoesNewMove, CallTo, Goes, Linking, OnlyLink, UnbornInv, Unborn, Stored
  <1>6. ASSUME NEW s \in Session, DoesNewOld(s)
       PROVE  UnbornInv'
    <2>1. call[s].new \in Name /\ \A t \in Session \ {s} : call[t].new # call[s].new
      BY <1>6, Alone DEF DoesNewOld, Linking
    <2> QED
      BY <1>6, <2>1 DEF DoesNewOld, CallTo, Goes, Ends, Linking, OnlyLink, UnbornInv, Unborn,
             Stored, TypeOK
  <1>7. ASSUME NEW s \in Session, DoesUndoMove(s)
       PROVE  UnbornInv'
    BY <1>7 DEF DoesUndoMove, CallTo, Goes, Linking, OnlyLink, UnbornInv, Unborn, Stored, TypeOK
  <1>8. ASSUME NEW s \in Session, DoesUndoRecord(s)
       PROVE  UnbornInv'
    BY <1>8 DEF DoesUndoRecord, CallTo, Goes, Linking, OnlyLink, UnbornInv, Unborn, Stored, TypeOK
  <1>9. ASSUME NEW s \in Session, DoesUndoNew(s)
       PROVE  UnbornInv'
    BY <1>9 DEF DoesUndoNew, CallTo, Ends, Linking, OnlyLink, UnbornInv, Unborn, Stored, TypeOK
  <1>10. ASSUME NEW s \in Session, DoesExLink(s)
       PROVE  UnbornInv'
    <2>1. call[s].new \in Name /\ call[s].at \notin Stored /\ call[s].at # "ex_record"
      BY <1>10 DEF DoesExLink, Linking, Stored
    <2>2. ~Unborn(call[s].new) /\ ~Away(call[s].new)
      BY <2>1, Alone DEF Unborn, Away
    <2>3. truth[call[s].new] \in {None} \cup hurt
      BY <1>10, <2>1, <2>2 DEF DoesExLink, Linking, OnlyLink, ShownInv, Shown, Resolve, TypeOK
    <2> QED
      BY <1>10, <2>3 DEF DoesExLink, CallTo, Goes, Ends, Linking, UnbornInv, Unborn, Stored
  <1>11. ASSUME NEW s \in Session, DoesExRecord(s)
       PROVE  UnbornInv'
    <2>1. call[s].new \in Name /\ \A t \in Session \ {s} : call[t].new # call[s].new
      BY <1>11, Alone DEF DoesExRecord, Linking
    <2> QED
      BY <1>11, <2>1 DEF DoesExRecord, CallTo, Ends, Linking, UnbornInv, Unborn, Stored, TypeOK
  <1>12. ASSUME NEW s \in Session, NEW n \in Name, DoesUnlinkBegin(s, n)
       PROVE  UnbornInv'
    BY <1>12 DEF DoesUnlinkBegin, CallTo, KernelIs, UnbornInv, Unborn, Stored, TypeOK
  <1>13. ASSUME NEW s \in Session, DoesUnlinkName(s)
       PROVE  UnbornInv'
    BY <1>13 DEF DoesUnlinkName, CallTo, Goes, Ends, UnbornInv, Unborn, Stored, TypeOK
  <1>14. ASSUME NEW s \in Session, DoesRelease(s)
       PROVE  UnbornInv'
    BY <1>14 DEF DoesRelease, CallTo, Goes, Ends, Over, Releases, CountsLess, UnbornInv, Unborn,
           Stored, TypeOK
  <1>15. ASSUME NEW s \in Session, DoesRelMove(s)
       PROVE  UnbornInv'
    BY <1>15 DEF DoesRelMove, CallTo, Goes, Ends, Over, Releases, CountsLess, UnbornInv, Unborn,
           Stored, TypeOK
  <1>16. ASSUME NEW s \in Session, DoesRelRecord(s)
       PROVE  UnbornInv'
    BY <1>16 DEF DoesRelRecord, CallTo, Goes, Ends, Over, UnbornInv, Unborn, Stored, TypeOK
  <1>17. ASSUME NEW s \in Session, NEW from \in Name, NEW to \in Name,
              NEW op \in Op \ {"unlink"}, from # to, DoesRenameBegin(s, from, to, op)
       PROVE  UnbornInv'
    BY <1>17 DEF DoesRenameBegin, KernelIs, UnbornInv, Unborn, Stored, TypeOK
  <1>18. ASSUME NEW s \in Session, DoesFixupBegin(s)
       PROVE  UnbornInv'
    BY <1>18 DEF DoesFixupBegin, CallTo, UnbornInv, Unborn, Stored, TypeOK
  <1>19. ASSUME NEW s \in Session, DoesMoved(s)
       PROVE  UnbornInv'
    <2>0. truth' = truth /\ hurt' = hurt
      BY <1>19 DEF DoesMoved
    <2>1. CASE Goes(s, "moved_back") /\ kernel' = kernel
      <3>1. call[s].at \in {"moved", "moved_back"}
        BY <1>19 DEF DoesMoved
      <3> QED
        BY <2>1, <3>1, <2>0 DEF CallTo, Goes, UnbornInv, Unborn, Stored
    <2>2. CASE Ends(s) /\ KernelGone(s)
      BY <2>2, <2>0 DEF CallTo, Ends, KernelGone, UnbornInv, Unborn, Stored
    <2> QED
      BY <1>19, <2>1, <2>2 DEF DoesMoved
  <1>20. ASSUME NEW s \in Session, DoesKernelActs(s)
       PROVE  UnbornInv'
    <2>1. ASSUME NEW n \in Name,
                 Unborn(n)' PROVE Unborn(n) /\ truth'[n] = truth[n] /\ hurt' = hurt
      <3>1. Unborn(n) /\ hurt' = hurt
        BY <1>20, <2>1 DEF DoesKernelActs, Unborn
      <3>2. n # kernel[s].from /\ n # kernel[s].to
        BY <1>20, <3>1, KernelAlone DEF DoesKernelActs
      <3> QED
        BY <1>20, <3>1, <3>2 DEF DoesKernelActs, Exchanged, Renamed
    <2> QED
      BY <2>1 DEF UnbornInv
  <1>21. ASSUME NEW s \in Session, DoesKernelRefuses(s)
       PROVE  UnbornInv'
    BY <1>21 DEF DoesKernelRefuses, KernelGone, UnbornInv, Unborn, Stored, TypeOK
  <1>22. ASSUME NEW s \in Session, DoesCrash(s)
       PROVE  UnbornInv'
    <2>1. ASSUME NEW n \in Name, Unborn(n)' PROVE truth'[n] \in {None} \cup hurt'
      <3>1. PICK t \in Session : call'[t].new = n /\ call'[t].at \in {"ex_record"} \cup Stored
        BY <2>1 DEF Unborn
      <3>2. t # s /\ call[t].new = n /\ Unborn(n)
        BY <1>22, <3>1 DEF DoesCrash, CallTo, Ends, Unborn, Stored
      <3>3. n # call[s].old /\ n # call[s].new
        BY <3>2, Alone
      <3> QED
        BY <1>22, <3>2, <3>3 DEF DoesCrash, UnbornInv
    <2> QED
      BY <2>1 DEF UnbornInv
  <1> QED
    BY <1>1, <1>2, <1>3, <1>4, <1>5, <1>6, <1>7, <1>8, <1>9, <1>10, <1>11, <1>12, <1>13, <1>14,
           <1>15, <1>16, <1>17, <1>18, <1>19, <1>20, <1>21, <1>22 DEF Effect


(* A file on its way through the store is still the old name's.            *)
LEMMA StoredStep ==
  ASSUME TypeOK, BusyInv, ShapeInv, OwnInv, TruthInv, Effect
  PROVE  StoredInv'
PROOF
  <1> USE LinkStoreAssumption DEF TruthInv
  <1> SUFFICES ASSUME NEW t \in Session, call'[t].at \in Stored
               PROVE  truth'[call'[t].old] = object'[call'[t].id] \/ truth'[call'[t].old] \in hurt'
    BY DEF StoredInv
  <1>0. call[t].at \in Stored =>
          truth[call[t].old] = object[call[t].id] \/ truth[call[t].old] \in hurt
    BY DEF StoredInv
  <1>1. ASSUME NEW n \in Name, NEW f \in File, DoesCreate(n, f)
       PROVE  truth'[call'[t].old] = object'[call'[t].id] \/ truth'[call'[t].old] \in hurt'
    <2>1. call'[t] = call[t]
      BY <1>1 DEF DoesCreate
    <2>2. call[t].old # n
      BY <1>1 DEF DoesCreate, Uses, InCallOf
    <2> QED
      BY <1>1, <2>1, <2>2, <1>0, Shapes DEF DoesCreate, TypeOK, Making
  <1>2. ASSUME NEW s \in Session, NEW old \in Name, NEW new \in Name, old # new,
               DoesLinkBegin(s, old, new)
       PROVE  truth'[call'[t].old] = object'[call'[t].id] \/ truth'[call'[t].old] \in hurt'
    BY <1>2, <1>0 DEF DoesLinkBegin, CallTo, Unknown, Stored, TypeOK
  <1>3. ASSUME NEW s \in Session, DoesNewLink(s)
       PROVE  truth'[call'[t].old] = object'[call'[t].id] \/ truth'[call'[t].old] \in hurt'
    BY <1>3, <1>0 DEF DoesNewLink, CallTo, Goes, Ends, Linking, Stored, TypeOK
  <1>4. ASSUME NEW s \in Session, DoesNewRecord(s)
       PROVE  truth'[call'[t].old] = object'[call'[t].id] \/ truth'[call'[t].old] \in hurt'
    BY <1>4, <1>0 DEF DoesNewRecord, CallTo, Goes, Linking, OnlyLink, Stored, TypeOK
  <1>5. ASSUME NEW s \in Session, DoesNewMove(s)
       PROVE  truth'[call'[t].old] = object'[call'[t].id] \/ truth'[call'[t].old] \in hurt'
    <2>1. CASE t = s /\ Goes(s, "new_old")
      <3>1. call[s].old \in Name /\ call[s].at \notin Stored /\ call[s].at # "ex_record"
        BY <1>5 DEF DoesNewMove, Linking, Stored
      <3>2. ~Unborn(call[s].old) /\ ~Away(call[s].old)
        BY <3>1, Alone DEF Unborn, Away
      <3>3. truth[call[s].old] = entry[call[s].old] \/ truth[call[s].old] \in hurt
        BY <1>5, <3>1, <3>2 DEF DoesNewMove, ShownInv, Shown, Resolve
      <3> QED
        BY <1>5, <2>1, <3>1, <3>3 DEF DoesNewMove, Linking, CallTo, Goes, TypeOK
    <2>2. CASE t # s
      <3>1. call'[t] = call[t]
        BY <1>5, <2>2 DEF DoesNewMove, CallTo, Goes
      <3>2. call[t].id # call[s].id
        BY <1>5, <2>2 DEF DoesNewMove, OwnInv, Making, Named
      <3>3. call[t].id \in Id
        BY <3>1, Shapes DEF Making
      <3> QED
        BY <1>5, <3>1, <3>2, <3>3, <1>0 DEF DoesNewMove, TypeOK
    <2> QED
      BY <1>5, <2>1, <2>2 DEF DoesNewMove, CallTo, Goes, Stored
  <1>6. ASSUME NEW s \in Session, DoesNewOld(s)
       PROVE  truth'[call'[t].old] = object'[call'[t].id] \/ truth'[call'[t].old] \in hurt'
    <2>1. CASE t = s
      BY <1>6, <2>1, <1>0 DEF DoesNewOld, CallTo, Goes, Ends, Linking, OnlyLink, Stored, TypeOK
    <2>2. CASE t # s
      <3>1. call'[t] = call[t]
        BY <1>6, <2>2 DEF DoesNewOld, CallTo, Goes, Ends, Linking, OnlyLink
      <3>2. call[t].old \in Name /\ call[s].new # call[t].old
        BY <2>2, <3>1, Alone, Shapes DEF Making
      <3> QED
        BY <1>6, <3>1, <3>2, <1>0 DEF DoesNewOld, CallTo, Goes, Ends, Linking, OnlyLink, TypeOK
    <2> QED
      BY <2>1, <2>2
  <1>7. ASSUME NEW s \in Session, DoesUndoMove(s)
       PROVE  truth'[call'[t].old] = object'[call'[t].id] \/ truth'[call'[t].old] \in hurt'
    <2>1. t # s
      BY <1>7 DEF DoesUndoMove, CallTo, Goes, Linking, OnlyLink, Stored
    <2>2. call'[t] = call[t]
      BY <1>7, <2>1 DEF DoesUndoMove, CallTo, Goes, Linking, OnlyLink
    <2>3. call[t].old \in Name /\ call[t].id \in Id
      BY <2>2, Shapes DEF Making
    <2>4. call[s].new # call[t].old /\ call[s].old # call[t].old /\ call[s].id # call[t].id
      BY <2>1, <2>2, <2>3, Alone DEF OwnInv, Making
    <2> QED
      BY <1>7, <2>2, <2>3, <2>4, <1>0 DEF DoesUndoMove, CallTo, Goes, Linking, OnlyLink, TypeOK
  <1>8. ASSUME NEW s \in Session, DoesUndoRecord(s)
       PROVE  truth'[call'[t].old] = object'[call'[t].id] \/ truth'[call'[t].old] \in hurt'
    BY <1>8, <1>0 DEF DoesUndoRecord, CallTo, Goes, Linking, OnlyLink, Stored, TypeOK
  <1>9. ASSUME NEW s \in Session, DoesUndoNew(s)
       PROVE  truth'[call'[t].old] = object'[call'[t].id] \/ truth'[call'[t].old] \in hurt'
    BY <1>9, <1>0 DEF DoesUndoNew, CallTo, Ends, Linking, OnlyLink, Stored, TypeOK
  <1>10. ASSUME NEW s \in Session, DoesExLink(s)
       PROVE  truth'[call'[t].old] = object'[call'[t].id] \/ truth'[call'[t].old] \in hurt'
    BY <1>10, <1>0 DEF DoesExLink, CallTo, Goes, Ends, Linking, Stored, TypeOK
  <1>11. ASSUME NEW s \in Session, DoesExRecord(s)
       PROVE  truth'[call'[t].old] = object'[call'[t].id] \/ truth'[call'[t].old] \in hurt'
    <2>1. t # s
      BY <1>11 DEF DoesExRecord, CallTo, Ends, Linking, Stored
    <2>2. call'[t] = call[t]
      BY <1>11, <2>1 DEF DoesExRecord, CallTo, Ends, Linking
    <2>3. call[t].old \in Name /\ call[t].id \in Id
      BY <2>2, Shapes DEF Making
    <2>4. call[s].new # call[t].old /\ call[s].old # call[t].old /\ call[s].id # call[t].id
      BY <2>1, <2>2, <2>3, Alone DEF OwnInv, Making
    <2> QED
      BY <1>11, <2>2, <2>3, <2>4, <1>0 DEF DoesExRecord, CallTo, Ends, Linking, TypeOK
  <1>12. ASSUME NEW s \in Session, NEW n \in Name, DoesUnlinkBegin(s, n)
       PROVE  truth'[call'[t].old] = object'[call'[t].id] \/ truth'[call'[t].old] \in hurt'
    BY <1>12, <1>0 DEF DoesUnlinkBegin, CallTo, KernelIs, Stored, TypeOK
  <1>13. ASSUME NEW s \in Session, DoesUnlinkName(s)
       PROVE  truth'[call'[t].old] = object'[call'[t].id] \/ truth'[call'[t].old] \in hurt'
    <2>1. t # s
      BY <1>13 DEF DoesUnlinkName, CallTo, Goes, Ends, Stored
    <2>2. call'[t] = call[t]
      BY <1>13, <2>1 DEF DoesUnlinkName, CallTo, Goes, Ends
    <2>3. call[t].old \in Name /\ call[t].id \in Id
      BY <2>2, Shapes DEF Making
    <2>4. call[s].new # call[t].old /\ call[s].old # call[t].old /\ call[s].id # call[t].id
      BY <2>1, <2>2, <2>3, Alone DEF OwnInv, Making
    <2> QED
      BY <1>13, <2>2, <2>3, <2>4, <1>0 DEF DoesUnlinkName, CallTo, Goes, Ends, TypeOK
  <1>14. ASSUME NEW s \in Session, DoesRelease(s)
       PROVE  truth'[call'[t].old] = object'[call'[t].id] \/ truth'[call'[t].old] \in hurt'
    <2>1. t # s
      BY <1>14 DEF DoesRelease, CallTo, Goes, Ends, Over, Releases, CountsLess, Stored
    <2>2. call'[t] = call[t]
      BY <1>14, <2>1 DEF DoesRelease, CallTo, Goes, Ends, Over, Releases, CountsLess
    <2>3. call[t].old \in Name /\ call[t].id \in Id
      BY <2>2, Shapes DEF Making
    <2>4. call[s].new # call[t].old /\ call[s].old # call[t].old /\ call[s].id # call[t].id
      BY <2>1, <2>2, <2>3, Alone DEF OwnInv, Making
    <2> QED
      BY <1>14, <2>2, <2>3, <2>4, <1>0 DEF DoesRelease, CallTo, Goes, Ends, Over, Releases,
             CountsLess, TypeOK
  <1>15. ASSUME NEW s \in Session, DoesRelMove(s)
       PROVE  truth'[call'[t].old] = object'[call'[t].id] \/ truth'[call'[t].old] \in hurt'
    <2>1. t # s
      BY <1>15 DEF DoesRelMove, CallTo, Goes, Ends, Over, Releases, CountsLess, Stored
    <2>2. call'[t] = call[t]
      BY <1>15, <2>1 DEF DoesRelMove, CallTo, Goes, Ends, Over, Releases, CountsLess
    <2>3. call[t].old \in Name /\ call[t].id \in Id
      BY <2>2, Shapes DEF Making
    <2>4. call[s].new # call[t].old /\ call[s].old # call[t].old /\ call[s].id # call[t].id
      BY <2>1, <2>2, <2>3, Alone DEF OwnInv, Making
    <2> QED
      BY <1>15, <2>2, <2>3, <2>4, <1>0 DEF DoesRelMove, CallTo, Goes, Ends, Over, Releases,
             CountsLess, TypeOK
  <1>16. ASSUME NEW s \in Session, DoesRelRecord(s)
       PROVE  truth'[call'[t].old] = object'[call'[t].id] \/ truth'[call'[t].old] \in hurt'
    BY <1>16, <1>0 DEF DoesRelRecord, CallTo, Goes, Ends, Over, Stored, TypeOK
  <1>17. ASSUME NEW s \in Session, NEW from \in Name, NEW to \in Name,
              NEW op \in Op \ {"unlink"}, from # to, DoesRenameBegin(s, from, to, op)
       PROVE  truth'[call'[t].old] = object'[call'[t].id] \/ truth'[call'[t].old] \in hurt'
    BY <1>17, <1>0 DEF DoesRenameBegin, KernelIs, Stored, TypeOK
  <1>18. ASSUME NEW s \in Session, DoesFixupBegin(s)
       PROVE  truth'[call'[t].old] = object'[call'[t].id] \/ truth'[call'[t].old] \in hurt'
    BY <1>18, <1>0 DEF DoesFixupBegin, CallTo, Stored, TypeOK
  <1>19. ASSUME NEW s \in Session, DoesMoved(s)
       PROVE  truth'[call'[t].old] = object'[call'[t].id] \/ truth'[call'[t].old] \in hurt'
    <2>0. truth' = truth /\ hurt' = hurt /\ object' = object
      BY <1>19 DEF DoesMoved
    <2>1. CASE Goes(s, "moved_back") /\ kernel' = kernel
      <3>1. call[s].at \in {"moved", "moved_back"}
        BY <1>19 DEF DoesMoved
      <3> QED
        BY <2>1, <3>1, <2>0, <1>0 DEF CallTo, Goes, Stored
    <2>2. CASE Ends(s) /\ KernelGone(s)
      BY <2>2, <2>0, <1>0 DEF CallTo, Ends, KernelGone, Stored
    <2> QED
      BY <1>19, <2>1, <2>2 DEF DoesMoved
  <1>20. ASSUME NEW s \in Session, DoesKernelActs(s)
       PROVE  truth'[call'[t].old] = object'[call'[t].id] \/ truth'[call'[t].old] \in hurt'
    <2>1. call'[t] = call[t] /\ object' = object /\ hurt' = hurt
      BY <1>20 DEF DoesKernelActs
    <2>2. call[t].old \in Name
      BY <2>1, Shapes DEF Making
    <2>3. call[t].old # kernel[s].from /\ call[t].old # kernel[s].to
      BY <1>20, <2>2, KernelAlone DEF DoesKernelActs
    <2>4. truth'[call[t].old] = truth[call[t].old]
      BY <1>20, <2>2, <2>3 DEF DoesKernelActs, Exchanged, Renamed
    <2> QED
      BY <2>1, <2>4, <1>0
  <1>21. ASSUME NEW s \in Session, DoesKernelRefuses(s)
       PROVE  truth'[call'[t].old] = object'[call'[t].id] \/ truth'[call'[t].old] \in hurt'
    BY <1>21, <1>0 DEF DoesKernelRefuses, KernelGone, Stored, TypeOK
  <1>22. ASSUME NEW s \in Session, DoesCrash(s)
       PROVE  truth'[call'[t].old] = object'[call'[t].id] \/ truth'[call'[t].old] \in hurt'
    <2>1. t # s
      BY <1>22 DEF DoesCrash, CallTo, Ends, KernelGone, Stored
    <2>2. call'[t] = call[t]
      BY <1>22, <2>1 DEF DoesCrash, CallTo, Ends, KernelGone
    <2>3. call[t].old \in Name /\ call[t].id \in Id
      BY <2>2, Shapes DEF Making
    <2>4. call[s].new # call[t].old /\ call[s].old # call[t].old /\ call[s].id # call[t].id
      BY <2>1, <2>2, <2>3, Alone DEF OwnInv, Making
    <2> QED
      BY <1>22, <2>2, <2>3, <2>4, <1>0 DEF DoesCrash, CallTo, Ends, KernelGone, TypeOK
  <1> QED
    BY <1>1, <1>2, <1>3, <1>4, <1>5, <1>6, <1>7, <1>8, <1>9, <1>10, <1>11, <1>12, <1>13, <1>14,
           <1>15, <1>16, <1>17, <1>18, <1>19, <1>20, <1>21, <1>22 DEF Effect


(* Every other name shows the reference's file; at the last names          *)
(* release() relies on the count.                                          *)
LEMMA ShownStep ==
  ASSUME IsFiniteSet(Name), TypeOK, BusyInv, PlaceInv, CountInv, TruthInv, Effect
  PROVE  ShownInv'
PROOF
  <1> USE LinkStoreAssumption DEF TruthInv
  <1> SUFFICES ASSUME NEW m \in Name, ~Unborn(m)', ~Away(m)'
               PROVE  Shown(m)'
    BY DEF ShownInv
  <1>0. ~Unborn(m) /\ ~Away(m) => Shown(m)
    BY DEF ShownInv
  <1>1. ASSUME NEW n \in Name, NEW f \in File, DoesCreate(n, f)
       PROVE  Shown(m)'
    BY <1>1, <1>0 DEF DoesCreate, Shown, Resolve, Unborn, Away, Stored, TypeOK
  <1>2. ASSUME NEW s \in Session, NEW old \in Name, NEW new \in Name, old # new,
               DoesLinkBegin(s, old, new)
       PROVE  Shown(m)'
    BY <1>2, <1>0 DEF DoesLinkBegin, CallTo, Unknown, Shown, Resolve, Unborn, Away, Stored, TypeOK
  <1>3. ASSUME NEW s \in Session, DoesNewLink(s)
       PROVE  Shown(m)'
    BY <1>3, <1>0 DEF DoesNewLink, CallTo, Goes, Ends, Linking, Shown, Resolve, Unborn, Away,
           Stored, TypeOK
  <1>4. ASSUME NEW s \in Session, DoesNewRecord(s)
       PROVE  Shown(m)'
    BY <1>4, <1>0 DEF DoesNewRecord, CallTo, Goes, Linking, OnlyLink, Shown, Resolve, Unborn,
           Away, Stored, TypeOK
  <1>5. ASSUME NEW s \in Session, DoesNewMove(s)
       PROVE  Shown(m)'
    <2>1. CASE Goes(s, "new_old") /\ (m = call[s].old \/ m = call[s].new)
      BY <2>1 DEF Goes, CallTo, Unborn, Away, Stored
    <2>2. CASE ~(Goes(s, "new_old") /\ (m = call[s].old \/ m = call[s].new))
      <3>1. ~Unborn(m) /\ ~Away(m)
        BY <1>5, <2>2 DEF DoesNewMove, CallTo, Goes, Linking, OnlyLink, Unborn, Away, Stored
      <3> QED
        BY <1>5, <2>2, <3>1, <1>0 DEF DoesNewMove, CallTo, Goes, Linking, OnlyLink, Shown,
               Resolve, TypeOK
    <2> QED
      BY <2>1, <2>2
  <1>6. ASSUME NEW s \in Session, DoesNewOld(s)
       PROVE  Shown(m)'
    <2>1. CASE m = call[s].new \/ m = call[s].old
      <3>1. truth[call[s].old] = object[call[s].id] \/ truth[call[s].old] \in hurt
        BY <1>6 DEF DoesNewOld, StoredInv, Stored
      <3>2. Ends(s)
        BY <1>6, <2>1 DEF DoesNewOld, Goes, CallTo, Unborn, Away, Stored
      <3>3. /\ entry' = [entry EXCEPT ![call[s].old] = call[s].id]
            /\ truth' = [truth EXCEPT ![call[s].new] = truth[call[s].old]]
        BY <1>6, <3>2 DEF DoesNewOld, Goes, Ends, CallTo
      <3> QED
        BY <1>6, <2>1, <3>1, <3>3 DEF DoesNewOld, Linking, OnlyLink, Shown, Resolve, TypeOK
    <2>2. CASE m # call[s].new /\ m # call[s].old
      <3>1. ~Unborn(m) /\ ~Away(m)
        BY <1>6, <2>2 DEF DoesNewOld, CallTo, Goes, Ends, Linking, OnlyLink, Unborn, Away, Stored
      <3> QED
        BY <1>6, <2>2, <3>1, <1>0 DEF DoesNewOld, CallTo, Goes, Ends, Linking, OnlyLink, Shown,
               Resolve, TypeOK
    <2> QED
      BY <2>1, <2>2
  <1>7. ASSUME NEW s \in Session, DoesUndoMove(s)
       PROVE  Shown(m)'
    <2>1. CASE m = call[s].new
      <3>1. Unborn(m)
        BY <1>7, <2>1 DEF DoesUndoMove, Unborn, Stored
      <3> QED
        BY <1>7, <2>1, <3>1 DEF DoesUndoMove, Linking, OnlyLink, UnbornInv, Shown, Resolve, TypeOK
    <2>2. CASE m = call[s].old
      <3>1. truth[m] = object[call[s].id] \/ truth[m] \in hurt
        BY <1>7, <2>2 DEF DoesUndoMove, StoredInv, Stored
      <3> QED
        BY <1>7, <2>2, <3>1 DEF DoesUndoMove, Linking, Shown, Resolve, TypeOK
    <2>3. CASE m # call[s].new /\ m # call[s].old
      <3>1. ~Unborn(m) /\ ~Away(m)
        BY <1>7, <2>3 DEF DoesUndoMove, CallTo, Goes, Linking, OnlyLink, Unborn, Away, Stored
      <3> QED
        BY <1>7, <2>3, <3>1, <1>0 DEF DoesUndoMove, CallTo, Goes, Linking, OnlyLink, Shown,
               Resolve, TypeOK
    <2> QED
      BY <2>1, <2>2, <2>3
  <1>8. ASSUME NEW s \in Session, DoesUndoRecord(s)
       PROVE  Shown(m)'
    BY <1>8, <1>0 DEF DoesUndoRecord, CallTo, Goes, Linking, OnlyLink, Shown, Resolve, Unborn,
           Away, Stored, TypeOK
  <1>9. ASSUME NEW s \in Session, DoesUndoNew(s)
       PROVE  Shown(m)'
    BY <1>9, <1>0 DEF DoesUndoNew, CallTo, Ends, Linking, OnlyLink, Shown, Resolve, Unborn, Away,
           Stored, TypeOK
  <1>10. ASSUME NEW s \in Session, DoesExLink(s)
       PROVE  Shown(m)'
    <2>1. CASE Goes(s, "ex_record") /\ m = call[s].new
      BY <2>1 DEF Goes, CallTo, Unborn
    <2>2. CASE ~(Goes(s, "ex_record") /\ m = call[s].new)
      <3>1. ~Unborn(m) /\ ~Away(m)
        BY <1>10, <2>2 DEF DoesExLink, CallTo, Goes, Ends, Linking, Unborn, Away, Stored
      <3> QED
        BY <1>10, <2>2, <3>1, <1>0 DEF DoesExLink, CallTo, Goes, Ends, Linking, Shown, Resolve,
               TypeOK
    <2> QED
      BY <2>1, <2>2
  <1>11. ASSUME NEW s \in Session, DoesExRecord(s)
       PROVE  Shown(m)'
    <2>1. CASE m = call[s].new /\ entry' = [entry EXCEPT ![call[s].new] = None] /\ truth' = truth
      <3>1. Unborn(m)
        BY <1>11, <2>1 DEF DoesExRecord, Unborn
      <3> QED
        BY <1>11, <2>1, <3>1 DEF DoesExRecord, Linking, UnbornInv, Shown, Resolve, TypeOK
    <2>2. CASE /\ m = call[s].new /\ entry' = entry
               /\ truth' = [truth EXCEPT ![call[s].new] = truth[call[s].old]]
               /\ object[call[s].id] # None /\ entry[call[s].new] = call[s].id
               /\ entry[call[s].old] = call[s].id
      <3>1. /\ call[s].old \in Name /\ call[s].new \in Name /\ call[s].id \in Id
            /\ call[s].new # call[s].old
        BY <1>11 DEF DoesExRecord, Linking
      <3>2. ~Unborn(call[s].old) /\ ~Away(call[s].old)
        BY <1>11, <3>1, Alone DEF DoesExRecord, Unborn, Away, Stored
      <3>3. object[call[s].id] \in File
        BY <2>2, <3>1 DEF PlaceInv, TypeOK
      <3>4. truth[call[s].old] = object[call[s].id] \/ truth[call[s].old] \in hurt
        BY <2>2, <3>1, <3>2, <3>3 DEF ShownInv, Shown, Resolve
      <3> QED
        BY <1>11, <2>2, <3>1, <3>3, <3>4 DEF DoesExRecord, Shown, Resolve, TypeOK
    <2>3. CASE m # call[s].new
      <3>1. ~Unborn(m) /\ ~Away(m)
        BY <1>11, <2>3 DEF DoesExRecord, CallTo, Ends, Linking, Unborn, Away, Stored
      <3> QED
        BY <1>11, <2>3, <3>1, <1>0 DEF DoesExRecord, CallTo, Ends, Linking, Shown, Resolve, TypeOK
    <2> QED
      BY <1>11, <2>1, <2>2, <2>3 DEF DoesExRecord
  <1>12. ASSUME NEW s \in Session, NEW n \in Name, DoesUnlinkBegin(s, n)
       PROVE  Shown(m)'
    BY <1>12, <1>0 DEF DoesUnlinkBegin, CallTo, KernelIs, Shown, Resolve, Unborn, Away, Stored,
           TypeOK
  <1>13. ASSUME NEW s \in Session, DoesUnlinkName(s)
       PROVE  Shown(m)'
    BY <1>13, <1>0 DEF DoesUnlinkName, CallTo, Goes, Ends, Shown, Resolve, Unborn, Away, Stored,
           TypeOK
  <1>14. ASSUME NEW s \in Session, DoesRelease(s)
       PROVE  Shown(m)'
    <2>1. ~Unborn(m) /\ ~Away(m)
      BY <1>14 DEF DoesRelease, CallTo, Goes, Ends, Over, Releases, CountsLess, Unborn, Away,
             Stored
    <2>2. CASE /\ object' = [object EXCEPT ![call[s].id] = None]
               /\ record[call[s].id] # None /\ record[call[s].id].count = 1
               /\ entry' = entry /\ truth' = truth /\ hurt' = hurt
      <3>1. CASE entry[m] = call[s].id /\ object[call[s].id] \in File
        <4>1. ~BeingLinked(m)
          BY <2>1 DEF BeingLinked, Unborn, At
        <4>2. object[call[s].id] \in hurt
          BY <1>14, <2>2, <3>1, <4>1, LastName
        <4> QED
          BY <2>1, <2>2, <3>1, <4>2, <1>0 DEF Shown, Resolve
      <3>2. CASE ~(entry[m] = call[s].id /\ object[call[s].id] \in File)
        BY <2>1, <2>2, <3>2, <1>0 DEF Shown, Resolve, TypeOK
      <3> QED
        BY <3>1, <3>2
    <2>3. CASE entry' = entry /\ object' = object /\ truth' = truth /\ hurt' = hurt
      BY <2>1, <2>3, <1>0 DEF Shown, Resolve
    <2> QED
      BY <1>14, <2>2, <2>3 DEF DoesRelease
  <1>15. ASSUME NEW s \in Session, DoesRelMove(s)
       PROVE  Shown(m)'
    <2>1. ~Unborn(m) /\ ~Away(m)
      BY <1>15 DEF DoesRelMove, CallTo, Goes, Ends, Over, Releases, CountsLess, Unborn, Away,
             Stored
    <2>2. CASE /\ object' = [object EXCEPT ![call[s].id] = None]
               /\ entry' = [entry EXCEPT ![call[s].pick] = object[call[s].id]]
               /\ object[call[s].id] \in File /\ truth' = truth
               /\ hurt' = IF BeingLinked(call[s].pick) THEN hurt \cup {object[call[s].id]}
                          ELSE hurt
      <3>0. /\ call[s].pick \in Name /\ entry[call[s].pick] = call[s].id /\ call[s].id \in Id
        BY <1>15 DEF DoesRelMove, Releases
      <3>1. CASE entry[m] = call[s].id /\ m # call[s].pick
        <4>1. ~BeingLinked(m)
          BY <2>1 DEF BeingLinked, Unborn, At
        <4>2. object[call[s].id] \in hurt'
          BY <1>15, <2>2, <3>1, <4>1, LastTwo
        <4> QED
          BY <2>1, <2>2, <3>1, <4>2, <3>0, <1>0 DEF Shown, Resolve
      <3>2. CASE entry[m] # call[s].id
        BY <2>1, <2>2, <3>2, <3>0, <1>0 DEF Shown, Resolve, TypeOK
      <3>3. CASE m = call[s].pick
        BY <2>1, <2>2, <3>3, <3>0, <1>0 DEF Shown, Resolve, TypeOK
      <3> QED
        BY <3>1, <3>2, <3>3
    <2>3. CASE entry' = entry /\ object' = object /\ truth' = truth /\ hurt' = hurt
      BY <2>1, <2>3, <1>0 DEF Shown, Resolve
    <2> QED
      BY <1>15, <2>2, <2>3 DEF DoesRelMove
  <1>16. ASSUME NEW s \in Session, DoesRelRecord(s)
       PROVE  Shown(m)'
    BY <1>16, <1>0 DEF DoesRelRecord, CallTo, Goes, Ends, Over, Shown, Resolve, Unborn, Away,
           Stored, TypeOK
  <1>17. ASSUME NEW s \in Session, NEW from \in Name, NEW to \in Name,
              NEW op \in Op \ {"unlink"}, from # to, DoesRenameBegin(s, from, to, op)
       PROVE  Shown(m)'
    BY <1>17, <1>0 DEF DoesRenameBegin, KernelIs, Shown, Resolve, Unborn, Away, Stored, TypeOK
  <1>18. ASSUME NEW s \in Session, DoesFixupBegin(s)
       PROVE  Shown(m)'
    BY <1>18, <1>0 DEF DoesFixupBegin, CallTo, Shown, Resolve, Unborn, Away, Stored, TypeOK
  <1>19. ASSUME NEW s \in Session, DoesMoved(s)
       PROVE  Shown(m)'
    <2>1. UNCHANGED <<entry, object, truth, hurt>>
      BY <1>19 DEF DoesMoved
    <2>2. Unborn(m)' <=> Unborn(m)
      <3>1. \A t \in Session : call'[t].at \in {"ex_record"} \cup Stored
                               \/ call[t].at \in {"ex_record"} \cup Stored => call'[t] = call[t]
        BY <1>19 DEF DoesMoved, Goes, Ends, CallTo, Stored
      <3> QED
        BY <3>1 DEF Unborn
    <2>3. Away(m)' <=> Away(m)
      <3>1. \A t \in Session : call'[t].at \in Stored \/ call[t].at \in Stored => call'[t] = call[t]
        BY <1>19 DEF DoesMoved, Goes, Ends, CallTo, Stored
      <3> QED
        BY <3>1 DEF Away
    <2> QED
      BY <2>1, <2>2, <2>3, <1>0 DEF Shown, Resolve
  <1>20. ASSUME NEW s \in Session, DoesKernelActs(s)
       PROVE  Shown(m)'
    <2> DEFINE from == kernel[s].from
               to == kernel[s].to
    <2>1. /\ from \in Name /\ to \in Name /\ kernel[s] # None /\ ~call[s].fixup
          /\ UNCHANGED <<object, call, hurt>>
      BY <1>20 DEF DoesKernelActs
    <2>2. ~Unborn(m) /\ ~Away(m)
      BY <2>1 DEF Unborn, Away
    <2>3. Shown(m) /\ Shown(from) /\ Shown(to)
      BY <2>1, <2>2, <1>0, KernelAlone DEF ShownInv
    <2>4. CASE from # to /\ Exchanged(entry, entry', from, to) /\ Exchanged(truth, truth', from, to)
      BY <2>1, <2>3, <2>4 DEF Exchanged, Shown, Resolve
    <2>5. CASE /\ from = to /\ entry'[from] = None /\ truth'[from] = None
               /\ \A n \in Name \ {from} : entry'[n] = entry[n] /\ truth'[n] = truth[n]
      BY <2>1, <2>3, <2>5 DEF Shown, Resolve
    <2>6. CASE /\ from # to /\ Renamed(entry, entry', from, to)
               /\ truth[from] # truth[to] /\ Renamed(truth, truth', from, to)
      BY <2>1, <2>3, <2>6 DEF Renamed, Shown, Resolve
    <2>7. CASE /\ from # to /\ Renamed(entry, entry', from, to)
               /\ truth[from] = truth[to] /\ truth' = truth
      <3>1. truth[from] \in hurt \cup {None}
        <4> SUFFICES ASSUME truth[from] \notin hurt, truth[from] \in File
                     PROVE  FALSE
          BY <2>1 DEF TypeOK
        <4>1. Resolve(from) = truth[from] /\ Resolve(to) = truth[from]
          BY <2>3, <2>7 DEF Shown
        <4>2. /\ entry[from] \in Id => entry[from] = kernel[s].src
              /\ entry[to] \in Id => entry[to] = kernel[s].dst
              /\ kernel[s].src = kernel[s].dst => kernel[s].src = None
          BY <1>20 DEF DoesKernelActs
        <4> QED
          BY <2>1, <2>7, <4>1, <4>2 DEF Resolve, PlaceInv
      <3> QED
        BY <2>1, <2>3, <2>7, <3>1 DEF Renamed, Shown, Resolve
    <2> QED
      BY <1>20, <2>4, <2>5, <2>6, <2>7 DEF DoesKernelActs
  <1>21. ASSUME NEW s \in Session, DoesKernelRefuses(s)
       PROVE  Shown(m)'
    BY <1>21, <1>0 DEF DoesKernelRefuses, KernelGone, Shown, Resolve, Unborn, Away, Stored, TypeOK
  <1>22. ASSUME NEW s \in Session, DoesCrash(s)
       PROVE  Shown(m)'
    <2>1. entry' = entry /\ object' = object /\ hurt \subseteq hurt'
      BY <1>22 DEF DoesCrash
    <2>2. CASE m = call[s].old \/ m = call[s].new
      <3>1. truth'[m] = Resolve(m)
        BY <1>22, <2>2 DEF DoesCrash
      <3> QED
        BY <2>1, <3>1 DEF Shown, Resolve
    <2>3. CASE m # call[s].old /\ m # call[s].new
      <3>1. ~Unborn(m) /\ ~Away(m)
        BY <1>22, <2>3 DEF DoesCrash, CallTo, Ends, KernelGone, Unborn, Away, Stored
      <3>2. truth'[m] = truth[m]
        BY <1>22, <2>3 DEF DoesCrash
      <3> QED
        BY <2>1, <3>1, <3>2, <1>0 DEF Shown, Resolve
    <2> QED
      BY <2>2, <2>3
  <1> QED
    BY <1>1, <1>2, <1>3, <1>4, <1>5, <1>6, <1>7, <1>8, <1>9, <1>10, <1>11, <1>12, <1>13, <1>14,
           <1>15, <1>16, <1>17, <1>18, <1>19, <1>20, <1>21, <1>22 DEF Effect


(***************************************************************************)
(* What holds of every call, tangled or not: enough for type correctness.  *)
(***************************************************************************)
FormOf(s) ==
  LET c == call[s]
      k == kernel[s] IN
  /\ c.at = "idle" => ~c.fixup
  /\ c.at \in Making \cup {"ex_link", "ex_record"} =>
       c.old \in Name /\ c.new \in Name /\ c.id \in Id /\ ~c.fixup
  /\ c.at \in {"unlink", "rel_record"} \cup Releasing => c.new \in Name /\ c.id \in Id
  /\ c.at = "unlink" => ~c.fixup
  /\ c.at \in {"moved", "moved_back"} => c.fixup
  /\ c.fixup => k # None /\ k.done
  /\ c.at \in Holding => lock = s
  /\ c.at = "rel_move" => record[c.id] # None /\ record[c.id].count = 2

Positive == \A i \in Id : record[i] # None => record[i].count > 0

FormInv == TypeOK /\ Positive /\ \A s \in Session : FormOf(s)

(* The disk, the lock and the reference after a step of s.                 *)
DiskForm(s) ==
  /\ entry' \in [Name -> File \cup Id \cup {None}]
  /\ object' \in [Id -> File \cup Id \cup {None}]
  /\ record' \in [Id -> Record \cup {None}]
  /\ Positive'
  /\ truth' \in [Name -> File \cup {None}]
  /\ left' \subseteq Id /\ hurt' \subseteq File /\ faults' \in 0..kFaults
  /\ tangled' \in BOOLEAN
  /\ record' = record \/ lock \in {None, s}
  /\ lock' = lock \/ (lock \in {None, s} /\ lock' \in {None, s})

(* The calls after it: only those of s change.                             *)
CallForm(s) ==
  /\ call' \in [Session -> Call]
  /\ kernel' \in [Session -> {None} \cup KernelCall]
  /\ \A t \in Session \ {s} : call'[t] = call[t] /\ kernel'[t] = kernel[t]
  /\ FormOf(s)'

(* A step of s that is well formed itself leaves every call well formed.   *)
LEMMA FormSteps ==
  ASSUME FormInv, NEW s \in Session, DiskForm(s), CallForm(s)
  PROVE  FormInv'
PROOF
  <1> USE LinkStoreAssumption
  <1>1. TypeOK'
    BY DEF FormInv, DiskForm, CallForm, TypeOK
  <1>2. ASSUME NEW t \in Session, t # s
        PROVE  FormOf(t)'
    <2>1. FormOf(t) /\ call'[t] = call[t] /\ kernel'[t] = kernel[t]
      BY <1>2 DEF FormInv, CallForm
    <2>2. t # None
      OBVIOUS
    <2>3. call[t].at \in Holding => lock' = t /\ record' = record
      BY <1>2, <2>1, <2>2 DEF FormOf, DiskForm
    <2>4. call[t].at = "rel_move" => call[t].at \in Holding
      BY DEF Holding
    <2> QED
      BY <2>1, <2>3, <2>4 DEF FormOf
  <1> QED
    BY <1>1, <1>2 DEF FormInv, DiskForm, CallForm

(* What FormInv says at each point of a call.                              *)
LEMMA Formed ==
  ASSUME FormInv, NEW s \in Session
  PROVE  /\ TypeOK /\ Positive /\ FormOf(s)
         /\ tangled \in BOOLEAN /\ kFaults \in Nat
PROOF
  BY LinkStoreAssumption DEF FormInv, TypeOK

(* Every action of a session keeps its calls and the disk well formed.     *)
LEMMA FormNewLink ==
  ASSUME FormInv, NEW s \in Session, NewLink(s)
  PROVE  DiskForm(s) /\ CallForm(s)
PROOF
  <1>1. TypeOK /\ Positive /\ FormOf(s)
    BY Formed
  <1>2. Ends(s) \/ Goes(s, "new_record") \/ Goes(s, "undo_new")
    BY <1>1, CallMoves DEF NewLink, Places
  <1>3. DiskForm(s)
    BY <1>1, Types DEF TypeOK, NewLink, disk, ghost, DiskForm, FormOf, At, Positive, Making,
       Named, Holding, Stored, Releasing
  <1>4. CallForm(s)
    BY <1>1, <1>2, Types DEF NewLink, At, CallForm, FormOf, Goes, Ends, CallTo, Making, Named,
       Holding, Stored, Releasing
  <1> QED
    BY <1>3, <1>4

LEMMA FormNewRecord ==
  ASSUME FormInv, NEW s \in Session, NewRecord(s)
  PROVE  DiskForm(s) /\ CallForm(s)
PROOF
  <1>1. TypeOK /\ Positive /\ FormOf(s)
    BY Formed
  <1>2. Goes(s, "undo_new") \/ Goes(s, "new_move")
    BY <1>1, CallMoves DEF NewRecord, Places
  <1>0. call[s].old \in Name /\ call[s].new \in Name /\ {call[s].old, call[s].new} \in SUBSET Name
    BY <1>1 DEF FormOf, NewRecord, At, Making, Named
  <1>5. LET w == Written(2, {call[s].old, call[s].new}) IN
          w \in Record /\ w # None /\ w.count = 2
    BY <1>0, WrittenIs
  <1>3. DiskForm(s)
    BY <1>1, <1>5, Types DEF TypeOK, NewRecord, disk, ghost, DiskForm, FormOf, At, Positive,
       Making, Named, Holding, Stored, Releasing
  <1>4. CallForm(s)
    BY <1>1, <1>2, Types DEF NewRecord, At, CallForm, FormOf, Goes, Ends, CallTo, Making, Named,
       Holding, Stored, Releasing
  <1> QED
    BY <1>3, <1>4

LEMMA FormNewMove ==
  ASSUME FormInv, NEW s \in Session, NewMove(s)
  PROVE  DiskForm(s) /\ CallForm(s)
PROOF
  <1>1. TypeOK /\ Positive /\ FormOf(s)
    BY Formed
  <1>2. Goes(s, "undo_record") \/ Goes(s, "new_old")
    BY <1>1, CallMoves DEF NewMove, Places
  <1>3. DiskForm(s)
    BY <1>1, Types DEF TypeOK, NewMove, disk, ghost, DiskForm, FormOf, At, Positive, Making,
       Named, Holding, Stored, Releasing
  <1>4. CallForm(s)
    BY <1>1, <1>2, Types DEF NewMove, At, CallForm, FormOf, Goes, Ends, CallTo, Making, Named,
       Holding, Stored, Releasing
  <1> QED
    BY <1>3, <1>4

LEMMA FormUndoMove ==
  ASSUME FormInv, NEW s \in Session, UndoMove(s)
  PROVE  DiskForm(s) /\ CallForm(s)
PROOF
  <1>1. TypeOK /\ Positive /\ FormOf(s)
    BY Formed
  <1>2. Goes(s, "undo_record")
    BY <1>1, CallMoves DEF UndoMove, Places
  <1>3. DiskForm(s)
    BY <1>1, Types DEF TypeOK, UndoMove, disk, ghost, DiskForm, FormOf, At, Positive, Making,
       Named, Holding, Stored, Releasing
  <1>4. CallForm(s)
    BY <1>1, <1>2, Types DEF UndoMove, At, CallForm, FormOf, Goes, Ends, CallTo, Making, Named,
       Holding, Stored, Releasing
  <1> QED
    BY <1>3, <1>4

LEMMA FormUndoRecord ==
  ASSUME FormInv, NEW s \in Session, UndoRecord(s)
  PROVE  DiskForm(s) /\ CallForm(s)
PROOF
  <1>1. TypeOK /\ Positive /\ FormOf(s)
    BY Formed
  <1>2. Goes(s, "undo_new")
    BY <1>1, CallMoves DEF UndoRecord, Places
  <1>3. DiskForm(s)
    BY <1>1, Types DEF TypeOK, UndoRecord, disk, ghost, DiskForm, FormOf, At, Positive, Making,
       Named, Holding, Stored, Releasing
  <1>4. CallForm(s)
    BY <1>1, <1>2, Types DEF UndoRecord, At, CallForm, FormOf, Goes, Ends, CallTo, Making,
       Named, Holding, Stored, Releasing
  <1> QED
    BY <1>3, <1>4

LEMMA FormUndoNew ==
  ASSUME FormInv, NEW s \in Session, UndoNew(s)
  PROVE  DiskForm(s) /\ CallForm(s)
PROOF
  <1>1. TypeOK /\ Positive /\ FormOf(s)
    BY Formed
  <1>2. Ends(s)
    BY <1>1, CallMoves DEF UndoNew, Places
  <1>3. DiskForm(s)
    BY <1>1, Types DEF TypeOK, UndoNew, disk, ghost, DiskForm, FormOf, At, Positive, Unlock,
       Making, Named, Holding, Stored, Releasing
  <1>4. CallForm(s)
    BY <1>1, <1>2, Types DEF UndoNew, At, CallForm, FormOf, Goes, Ends, CallTo, Unlock, Making,
       Named, Holding, Stored, Releasing
  <1> QED
    BY <1>3, <1>4

LEMMA FormExLink ==
  ASSUME FormInv, NEW s \in Session, ExLink(s)
  PROVE  DiskForm(s) /\ CallForm(s)
PROOF
  <1>1. TypeOK /\ Positive /\ FormOf(s)
    BY Formed
  <1>2. Ends(s) \/ Goes(s, "ex_record")
    BY <1>1, CallMoves DEF ExLink, Places
  <1>3. DiskForm(s)
    BY <1>1, Types DEF TypeOK, ExLink, disk, ghost, DiskForm, FormOf, At, Positive, Making,
       Named, Holding, Stored, Releasing
  <1>4. CallForm(s)
    BY <1>1, <1>2, Types DEF ExLink, At, CallForm, FormOf, Goes, Ends, CallTo, Making, Named,
       Holding, Stored, Releasing
  <1> QED
    BY <1>3, <1>4

LEMMA FormUnlinkName ==
  ASSUME FormInv, NEW s \in Session, unlink_name(s)
  PROVE  DiskForm(s) /\ CallForm(s)
PROOF
  <1>1. TypeOK /\ Positive /\ FormOf(s)
    BY Formed
  <1>2. Ends(s) \/ Goes(s, "release")
    BY <1>1, CallMoves DEF unlink_name, Places
  <1>3. DiskForm(s)
    BY <1>1, Types DEF TypeOK, unlink_name, disk, ghost, DiskForm, FormOf, At, Positive,
       Disturbs, Making, Named, Holding, Stored, Releasing
  <1>4. CallForm(s)
    BY <1>1, <1>2, Types DEF unlink_name, At, CallForm, FormOf, Goes, Ends, CallTo, Disturbs,
       Making, Named, Holding, Stored, Releasing
  <1> QED
    BY <1>3, <1>4

LEMMA FormRelRecord ==
  ASSUME FormInv, NEW s \in Session, RelRecord(s)
  PROVE  DiskForm(s) /\ CallForm(s)
PROOF
  <1>1. TypeOK /\ Positive /\ FormOf(s)
    BY Formed
  <1>2. IF call[s].fixup THEN Goes(s, "moved") ELSE Ends(s)
    BY <1>1, CallMoves DEF RelRecord, Released, Places
  <1>3. DiskForm(s)
    BY <1>1, Types DEF TypeOK, RelRecord, disk, ghost, DiskForm, FormOf, At, Positive, Making,
       Named, Holding, Stored, Releasing
  <1>4. CallForm(s)
    BY <1>1, <1>2, Types DEF RelRecord, At, CallForm, FormOf, Goes, Ends, CallTo, Making, Named,
       Holding, Stored, Releasing
  <1> QED
    BY <1>3, <1>4

LEMMA FormNewOld ==
  ASSUME FormInv, NEW s \in Session, NewOld(s)
  PROVE  DiskForm(s) /\ CallForm(s)
PROOF
  <1>1. TypeOK /\ Positive /\ FormOf(s) /\ tangled \in BOOLEAN /\ kFaults \in Nat
    BY Formed
  <1>2. call[s].at \in Holding /\ lock = s /\ kernel' = kernel /\ record' = record
    BY <1>1 DEF NewOld, At, FormOf, Making, Named, Holding, Stored, Releasing
  <1>3. DiskForm(s)
    BY <1>1, Types DEF NewOld, At, FormOf, Unlock, TypeOK, disk, ghost, DiskForm, Positive,
       Making, Named, Holding, Stored, Releasing
  <1>4. CallForm(s)
    <2>1. CASE Goes(s, "undo_move") /\ lock' = lock
      BY <1>1, <1>2, <2>1, Types DEF NewOld, At, CallForm, FormOf, Goes, Ends, CallTo, Making,
         Named, Holding, Stored, Releasing
    <2>2. CASE Ends(s)
      BY <1>1, <1>2, <2>2, Types DEF NewOld, At, CallForm, FormOf, Goes, Ends, CallTo, Making,
         Named, Holding, Stored, Releasing
    <2> QED
      BY <1>1, <2>1, <2>2, CallMoves DEF NewOld, Places
  <1> QED
    BY <1>3, <1>4

LEMMA FormExRecord ==
  ASSUME FormInv, NEW s \in Session, ExRecord(s)
  PROVE  DiskForm(s) /\ CallForm(s)
PROOF
  <1>1. TypeOK /\ Positive /\ FormOf(s) /\ tangled \in BOOLEAN /\ kFaults \in Nat
    BY Formed
  <1> DEFINE c == call[s]
             rec == IF record[c.id] = None THEN [count |-> 1, names |-> {}] ELSE record[c.id]
             r == Written(rec.count + 1, rec.names \cup {c.new})
  <1>2. /\ Ends(s) /\ c.new \in Name /\ c.old \in Name /\ c.id \in Id /\ lock = None
        /\ rec.count \in Nat /\ rec.names \subseteq Name
    BY <1>1, CallMoves, Types DEF ExRecord, At, FormOf
  <1>5. r \in Record /\ r # None /\ r.count = rec.count + 1 /\ r.count > 0
    BY <1>2, WrittenIs
  <1>6. \/ entry' = [entry EXCEPT ![c.new] = None] /\ record' = record /\ truth' = truth
        \/ /\ record' = [record EXCEPT ![c.id] = r]
           /\ truth' = [truth EXCEPT ![c.new] = truth[c.old]]
           /\ entry' = entry
    BY DEF ExRecord, read_record
  <1> HIDE DEF r
  <1>3. DiskForm(s)
    BY <1>1, <1>2, <1>5, <1>6, Types DEF ExRecord, TypeOK, disk, ghost, DiskForm, Positive
  <1>4. CallForm(s)
    BY <1>1, <1>2, Types DEF ExRecord, CallForm, FormOf, Goes, Ends, CallTo, Making, Named,
       Holding, Stored, Releasing
  <1> QED
    BY <1>3, <1>4

LEMMA FormRelease ==
  ASSUME FormInv, NEW s \in Session, release(s)
  PROVE  DiskForm(s) /\ CallForm(s)
PROOF
  <1>1. TypeOK /\ Positive /\ FormOf(s) /\ tangled \in BOOLEAN /\ kFaults \in Nat
    BY Formed
  <1> DEFINE c == call[s]
             rec == record[c.id]
             rest == Less(rec, c.new)
             known == {n \in rest.names : entry_id(n) = c.id}
  <1>2. c.at = "release" /\ c.new \in Name /\ c.id \in Id /\ lock = None
    BY <1>1 DEF release, At, FormOf, Releasing
  <1>5. ASSUME rec # None
        PROVE  /\ rec.count \in Nat /\ rec.count > 0
               /\ rest.count = rec.count - 1 /\ rest.names \subseteq Name
    <2>1. rec.count \in Nat /\ rec.count > 0 /\ rec.names \in SUBSET Name
      BY <1>1, <1>2, <1>5, Types DEF Positive
    <2>2. rec.count - 1 \in Nat /\ rec.names \ {c.new} \in SUBSET Name
      BY <2>1
    <2> QED
      BY <2>1, <2>2, WrittenIs DEF Less
  <1>6. ASSUME Released(s)
        PROVE  Over(s)
    BY <1>1, <1>6, CallMoves DEF Released, Over, Places
  <1>7. ASSUME NEW n \in known, rec # None, Try(s, n)
        PROVE  CallTo(s, "rel_move", c.old, c.new, c.id, n, c.fixup)
    BY <1>1, <1>5, <1>7, CallTry
  <1>8. ASSUME rec # None, ReleaseWrite(s, rest)
        PROVE  CountsLess(s) /\ lock' = None /\ Over(s)
    BY <1>1, <1>2, <1>5, <1>8, ReleaseWrites
  <1>9. ASSUME Goto(s, "rel_record") PROVE Goes(s, "rel_record")
    BY <1>1, <1>9, CallMoves DEF Places
  <1>10. \/ rec = None /\ Released(s) /\ UNCHANGED <<disk, lock, left, faults>>
        \/ /\ rec # None /\ Nameless(rest)
           /\ object' = [object EXCEPT ![c.id] = None]
           /\ lock' = s
           /\ Goto(s, "rel_record")
           /\ UNCHANGED <<entry, record, left, faults>>
        \/ /\ rec # None /\ rest.count = 1
           /\ \E n \in known : Try(s, n)
           /\ lock' = s
           /\ UNCHANGED <<disk, left, faults>>
        \/ /\ rec # None /\ ~Nameless(rest)
           /\ ReleaseWrite(s, rest)
           /\ UNCHANGED <<entry, object>>
    BY DEF release, read_record
  <1>11. UNCHANGED <<kernel, truth, hurt, tangled>>
    BY DEF release
  <1>12. ~Nameless(rest) /\ rec # None => rec.count > 1
    BY <1>5 DEF Nameless
  <1> HIDE DEF rest, known
  <1>3. DiskForm(s)
    BY <1>1, <1>2, <1>5, <1>8, <1>10, <1>11, <1>12, Types DEF CountsLess, TypeOK, disk, ghost,
       DiskForm, Positive
  <1>4. CallForm(s)
    <2>1. CASE Over(s)
      BY <1>1, <1>2, <1>11, <2>1, Types DEF Over, CallForm, FormOf, Goes, Ends, CallTo, Making,
         Named, Holding, Stored, Releasing
    <2>2. CASE Goes(s, "rel_record") /\ lock' = s
      BY <1>1, <1>2, <1>11, <2>2, Types DEF CallForm, FormOf, Goes, Ends, CallTo, Making, Named,
         Holding, Stored, Releasing
    <2>3. ASSUME NEW n \in known, CallTo(s, "rel_move", c.old, c.new, c.id, n, c.fixup), lock' = s,
                 rec # None, rec.count = 2, record' = record
          PROVE  CallForm(s)
      BY <1>1, <1>2, <1>11, <2>3, Types DEF CallForm, FormOf, Goes, Ends, CallTo, Making, Named,
         Holding, Stored, Releasing
    <2> QED
      BY <1>5, <1>6, <1>7, <1>8, <1>9, <1>10, <2>1, <2>2, <2>3 DEF disk
  <1> QED
    BY <1>3, <1>4

LEMMA FormRelMove ==
  ASSUME FormInv, NEW s \in Session, RelMove(s)
  PROVE  DiskForm(s) /\ CallForm(s)
PROOF
  <1>1. TypeOK /\ Positive /\ FormOf(s) /\ tangled \in BOOLEAN /\ kFaults \in Nat
    BY Formed
  <1> DEFINE c == call[s]
             rec == record[c.id]
             rest == Less(rec, c.new)
  <1>2. /\ c.at = "rel_move" /\ c.new \in Name /\ c.id \in Id /\ lock = s
        /\ rec # None /\ rec.count = 2 /\ c.pick \in Name \cup {None}
    BY <1>1, Types DEF RelMove, At, FormOf, Making, Named, Holding, Stored, Releasing
  <1>5. rest.names \subseteq Name
    <2>1. rec.count - 1 \in Nat /\ rec.names \ {c.new} \in SUBSET Name
      BY <1>1, <1>2, Types
    <2> QED
      BY <2>1, WrittenIs DEF Less
  <1>7. ASSUME NEW n \in rest.names, Try(s, n)
        PROVE  CallTo(s, "rel_move", c.old, c.new, c.id, n, c.fixup)
    BY <1>1, <1>5, <1>7, CallTry
  <1>8. ASSUME ReleaseWrite(s, rest)
        PROVE  CountsLess(s) /\ lock' = None /\ Over(s)
    BY <1>1, <1>2, <1>8, ReleaseWrites
  <1>9. ASSUME Goto(s, "rel_record") PROVE Goes(s, "rel_record")
    BY <1>1, <1>9, CallMoves DEF Places
  <1>10. \/ /\ entry' = [entry EXCEPT ![c.pick] = object[c.id]]
            /\ object' = [object EXCEPT ![c.id] = None]
            /\ hurt' \in {hurt, hurt \cup ({object[c.id]} \cap File)}
            /\ left' \in {left, left \cup {c.id}}
            /\ Goto(s, "rel_record")
            /\ UNCHANGED <<record, lock, faults>>
         \/ /\ \E n \in rest.names : Try(s, n)
            /\ UNCHANGED <<disk, lock, left, hurt, faults>>
         \/ /\ ReleaseWrite(s, rest)
            /\ UNCHANGED <<entry, object, hurt>>
    BY DEF RelMove
  <1>11. UNCHANGED <<kernel, truth, tangled>>
    BY DEF RelMove
  <1> HIDE DEF rest
  <1>3. DiskForm(s)
    BY <1>1, <1>2, <1>8, <1>10, <1>11, Types DEF CountsLess, TypeOK, disk, ghost, DiskForm, Positive
  <1>4. CallForm(s)
    <2>1. CASE Over(s)
      BY <1>1, <1>2, <1>11, <2>1, Types DEF Over, CallForm, FormOf, Goes, Ends, CallTo, Making,
         Named, Holding, Stored, Releasing
    <2>2. CASE Goes(s, "rel_record") /\ lock' = s
      BY <1>1, <1>2, <1>11, <2>2, Types DEF CallForm, FormOf, Goes, Ends, CallTo, Making, Named,
         Holding, Stored, Releasing
    <2>3. ASSUME NEW n \in rest.names, CallTo(s, "rel_move", c.old, c.new, c.id, n, c.fixup),
                 lock' = s, record' = record
          PROVE  CallForm(s)
      BY <1>1, <1>2, <1>11, <2>3, Types DEF CallForm, FormOf, Goes, Ends, CallTo, Making, Named,
         Holding, Stored, Releasing
    <2> QED
      BY <1>2, <1>7, <1>8, <1>9, <1>10, <2>1, <2>2, <2>3 DEF disk
  <1> QED
    BY <1>3, <1>4

LEMMA FormLinkBegin ==
  ASSUME FormInv, NEW s \in Session, NEW old \in Name, NEW new \in Name, LinkBegin(s, old, new)
  PROVE  DiskForm(s) /\ CallForm(s)
PROOF
  <1>1. TypeOK /\ Positive /\ FormOf(s) /\ tangled \in BOOLEAN /\ kFaults \in Nat
    BY Formed
  <1>2. \E i \in Id : \/ CallTo(s, "ex_link", old, new, i, None, FALSE)
                     \/ CallTo(s, "new_link", old, new, i, None, FALSE)
    <2>1. ASSUME NEW i \in Id, NEW w \in {"ex_link", "new_link"}, Begin(s, w, old, new, i, FALSE)
          PROVE  CallTo(s, w, old, new, i, None, FALSE)
      BY <1>1, <2>1, CallBegin DEF Places
    <2>2. entry_id(old) # None => entry_id(old) \in Id
      BY DEF entry_id
    <2> QED
      BY <2>1, <2>2 DEF LinkBegin
  <1>3. DiskForm(s)
    BY <1>1, Types DEF LinkBegin, Meets, TypeOK, disk, ghost, DiskForm, Positive
  <1>4. CallForm(s)
    BY <1>1, <1>2, Types DEF LinkBegin, At, CallForm, FormOf, Goes, Ends, CallTo, Making, Named,
       Holding, Stored, Releasing
  <1> QED
    BY <1>3, <1>4

LEMMA FormUnlinkBegin ==
  ASSUME FormInv, NEW s \in Session, NEW n \in Name, UnlinkBegin(s, n)
  PROVE  DiskForm(s) /\ CallForm(s)
PROOF
  <1>1. TypeOK /\ Positive /\ FormOf(s) /\ tangled \in BOOLEAN /\ kFaults \in Nat
    BY Formed
  <1>2. \/ /\ \E i \in Id : CallTo(s, "unlink", None, n, i, None, FALSE)
           /\ kernel' = kernel
        \/ call' = call /\ KernelIs(s, "unlink", n, n, None, None, FALSE)
    <2>1. ASSUME NEW i \in Id, Begin(s, "unlink", None, n, i, FALSE)
          PROVE  CallTo(s, "unlink", None, n, i, None, FALSE)
      BY <1>1, <2>1, CallBegin DEF Places
    <2>2. entry_id(n) # None => entry_id(n) \in Id
      BY DEF entry_id
    <2>3. ASSUME kernel' = [kernel EXCEPT ![s] = [op |-> "unlink", from |-> n, to |-> n,
                                                  src |-> None, dst |-> None, done |-> FALSE]]
          PROVE  KernelIs(s, "unlink", n, n, None, None, FALSE)
      BY <1>1, <2>3, KernelSet DEF Op
    <2> QED
      BY <2>1, <2>2, <2>3 DEF UnlinkBegin
  <1>3. DiskForm(s)
    BY <1>1, Types DEF UnlinkBegin, Meets, TypeOK, disk, ghost, DiskForm, Positive
  <1>4. CallForm(s)
    BY <1>1, <1>2, Types DEF UnlinkBegin, At, KernelIs, CallForm, FormOf, Goes, Ends, CallTo,
       Making, Named, Holding, Stored, Releasing
  <1> QED
    BY <1>3, <1>4

LEMMA FormRenameBegin ==
  ASSUME FormInv, NEW s \in Session, NEW from \in Name, NEW to \in Name,
         NEW op \in Op, RenameBegin(s, from, to, op)
  PROVE  DiskForm(s) /\ CallForm(s)
PROOF
  <1>1. TypeOK /\ Positive /\ FormOf(s) /\ tangled \in BOOLEAN /\ kFaults \in Nat
    BY Formed
  <1>2. call' = call /\ KernelIs(s, op, from, to, entry_id(from), entry_id(to), FALSE)
    <2>1. kernel' = [kernel EXCEPT ![s] =
                       [op |-> op, from |-> from, to |-> to, src |-> entry_id(from),
                        dst |-> entry_id(to), done |-> FALSE]]
      BY DEF RenameBegin
    <2>2. entry_id(from) \in Id \cup {None} /\ entry_id(to) \in Id \cup {None}
      BY DEF entry_id
    <2> QED
      BY <1>1, <2>1, <2>2, KernelSet DEF RenameBegin
  <1>3. DiskForm(s)
    BY <1>1, Types DEF RenameBegin, Meets, TypeOK, disk, ghost, DiskForm, Positive
  <1>4. CallForm(s)
    BY <1>1, <1>2, Types DEF RenameBegin, At, KernelIs, CallForm, FormOf, Goes, Ends, CallTo,
       Making, Named, Holding, Stored, Releasing
  <1> QED
    BY <1>3, <1>4

LEMMA FormFixupBegin ==
  ASSUME FormInv, NEW s \in Session, FixupBegin(s)
  PROVE  DiskForm(s) /\ CallForm(s)
PROOF
  <1>1. TypeOK /\ Positive /\ FormOf(s) /\ tangled \in BOOLEAN /\ kFaults \in Nat
    BY Formed
  <1> DEFINE k == kernel[s]
  <1>2. /\ k # None /\ k.done /\ kernel' = kernel /\ call[s].at = "idle"
        /\ \/ k.dst \in Id /\ CallTo(s, "release", None, k.to, k.dst, None, TRUE)
           \/ CallTo(s, "moved", None, None, None, None, TRUE)
    <2>1. k # None /\ k.done /\ kernel' = kernel /\ call[s].at = "idle"
      BY DEF FixupBegin, At
    <2>2. k.to \in Name /\ k.dst \in Id \cup {None}
      BY <1>1, <2>1, Types
    <2>3. CASE Replaced(k)
      <3>1. k.dst # None /\ Begin(s, "release", None, k.to, k.dst, TRUE)
        BY <2>3 DEF FixupBegin, Replaced
      <3> QED
        BY <1>1, <2>1, <2>2, <3>1, CallBegin DEF Places
    <2>4. CASE ~Replaced(k)
      <3>1. Begin(s, "moved", None, None, None, TRUE)
        BY <2>4 DEF FixupBegin
      <3> QED
        BY <1>1, <2>1, <3>1, CallBegin DEF Places
    <2> QED
      BY <2>3, <2>4
  <1>3. DiskForm(s)
    BY <1>1, Types DEF FixupBegin, TypeOK, disk, ghost, DiskForm, Positive
  <1>4. CallForm(s)
    BY <1>1, <1>2, Types DEF CallForm, FormOf, Goes, Ends, CallTo, Making, Named, Holding,
       Stored, Releasing
  <1> QED
    BY <1>3, <1>4

LEMMA FormMoved ==
  ASSUME FormInv, NEW s \in Session, Moved(s) \/ MovedBack(s)
  PROVE  DiskForm(s) /\ CallForm(s)
PROOF
  <1>1. TypeOK /\ Positive /\ FormOf(s) /\ tangled \in BOOLEAN /\ kFaults \in Nat
    BY Formed
  <1> DEFINE k == kernel[s]
  <1>2. call[s].at \in {"moved", "moved_back"} /\ lock = None /\ k # None /\ k.done
    BY <1>1 DEF Moved, MovedBack, At, FormOf
  <1>5. CountsSame
    <2>1. k.from \in Name /\ k.to \in Name /\ k.src \in Id \cup {None} /\ k.dst \in Id \cup {None}
      BY <1>1, <1>2, Types
    <2>2. CASE Moved(s)
      BY <1>1, <2>1, <2>2, NameMoved DEF Moved
    <2>3. CASE MovedBack(s)
      BY <1>1, <2>1, <2>3, NameMoved DEF MovedBack
    <2> QED
      BY <2>2, <2>3
  <1>6. (Goes(s, "moved_back") /\ kernel' = kernel) \/ (Ends(s) /\ KernelGone(s))
    BY <1>1, CallMoves, KernelDrop DEF Moved, MovedBack, Places
  <1>7. UNCHANGED <<entry, object, lock, truth, left, hurt, tangled>>
    BY DEF Moved, MovedBack
  <1>3. DiskForm(s)
    BY <1>1, <1>2, <1>5, <1>7, Types DEF CountsSame, TypeOK, disk, ghost, DiskForm, Positive
  <1>4. CallForm(s)
    BY <1>1, <1>2, <1>6, <1>7, Types DEF KernelGone, CallForm, FormOf, Goes, Ends, CallTo,
       Making, Named, Holding, Stored, Releasing
  <1> QED
    BY <1>3, <1>4

LEMMA FormKernelActs ==
  ASSUME FormInv, NEW s \in Session, KernelActs(s)
  PROVE  DiskForm(s) /\ CallForm(s)
PROOF
  <1>1. TypeOK /\ Positive /\ FormOf(s) /\ tangled \in BOOLEAN /\ kFaults \in Nat
    BY Formed
  <1> DEFINE k == kernel[s]
  <1>2. /\ k # None /\ ~k.done /\ k \in KernelCall /\ k.from \in Name /\ k.to \in Name
        /\ ~call[s].fixup
    BY <1>1, Types DEF KernelActs, FormOf
  <1>5. /\ entry' \in [Name -> File \cup Id \cup {None}]
        /\ truth' \in [Name -> File \cup {None}]
    BY <1>1, <1>2, Types DEF KernelActs, Swapped
  <1>6. UNCHANGED <<object, record, lock, call, left, hurt, faults>> /\ tangled' \in BOOLEAN
    BY <1>1 DEF KernelActs, Disturbs
  <1>7. kernel' \in [Session -> {None} \cup KernelCall]
        /\ \A t \in Session \ {s} : kernel'[t] = kernel[t]
    <2>1. Done(k) \in {None} \cup KernelCall
      BY <1>2, KernelDone
    <2>2. kernel' = [kernel EXCEPT ![s] = Done(k)] /\ kernel \in [Session -> {None} \cup KernelCall]
      BY <1>1, Types DEF KernelActs
    <2> QED
      BY <2>1, <2>2
  <1>3. DiskForm(s)
    BY <1>1, <1>5, <1>6, Types DEF TypeOK, disk, ghost, DiskForm, Positive
  <1>4. CallForm(s)
    BY <1>1, <1>2, <1>6, <1>7, Types DEF CallForm, FormOf, Goes, Ends, CallTo, Making, Named,
       Holding, Stored, Releasing
  <1> QED
    BY <1>3, <1>4

LEMMA FormKernelRefuses ==
  ASSUME FormInv, NEW s \in Session, KernelRefuses(s)
  PROVE  DiskForm(s) /\ CallForm(s)
PROOF
  <1>1. TypeOK /\ Positive /\ FormOf(s) /\ tangled \in BOOLEAN /\ kFaults \in Nat
    BY Formed
  <1>2. KernelGone(s) /\ call' = call /\ ~kernel[s].done
    BY <1>1, KernelDrop DEF KernelRefuses
  <1>3. DiskForm(s)
    BY <1>1, Types DEF KernelRefuses, TypeOK, disk, ghost, DiskForm, Positive
  <1>4. CallForm(s)
    BY <1>1, <1>2, Types DEF KernelRefuses, disk, KernelGone, CallForm, FormOf, Goes, Ends,
       CallTo, Making, Named, Holding, Stored, Releasing
  <1> QED
    BY <1>3, <1>4

LEMMA FormCrash ==
  ASSUME FormInv, NEW s \in Session, Crash(s)
  PROVE  DiskForm(s) /\ CallForm(s)
PROOF
  <1>1. TypeOK /\ Positive /\ FormOf(s) /\ tangled \in BOOLEAN /\ kFaults \in Nat
    BY Formed
  <1>2. Ends(s) /\ KernelGone(s)
    BY <1>1, CallReturn, KernelDrop DEF Crash, Return, Ends
  <1>5. lock' = (IF lock = s THEN None ELSE lock) /\ tangled' = tangled
    BY DEF Crash, Unlock
  <1>6. left' \subseteq Id /\ hurt' \subseteq File /\ faults' \in 0..kFaults
    BY <1>1, Types DEF Crash, Fault
  <1>7. truth' \in [Name -> File \cup {None}]
    <2>1. \A n \in Name : Resolve(n) \in File \cup {None}
      BY DEF Resolve
    <2> QED
      BY <1>1, <2>1, Types DEF Crash
  <1>8. UNCHANGED <<entry, object, record>>
    BY DEF Crash, disk
  <1>3. DiskForm(s)
    BY <1>1, <1>5, <1>6, <1>7, <1>8, Types DEF TypeOK, disk, ghost, DiskForm, Positive
  <1>4. CallForm(s)
    BY <1>1, <1>2, Types DEF KernelGone, CallForm, FormOf, Goes, Ends, CallTo, Making, Named,
       Holding, Stored, Releasing
  <1> QED
    BY <1>3, <1>4

LEMMA FormCreate ==
  ASSUME FormInv, NEW n \in Name, NEW f \in File, Create(n, f)
  PROVE  FormInv'
PROOF
  <1>1. TypeOK'
    <2>1. tangled' \in BOOLEAN
      BY DEF FormInv, TypeOK, Create, Meets
    <2>2. entry' \in [Name -> File \cup Id \cup {None}] /\ truth' \in [Name -> File \cup {None}]
      BY DEF FormInv, TypeOK, Create
    <2> QED
      BY <2>1, <2>2 DEF FormInv, TypeOK, Create
  <1> QED
    BY <1>1 DEF FormInv, FormOf, Positive, Create

(* Every step keeps the calls and the disk well formed.                    *)
LEMMA FormNext ==
  ASSUME FormInv, [Next]_vars
  PROVE  FormInv'
PROOF
  <1>1. ASSUME NEW n \in Name, NEW f \in File, Create(n, f)
        PROVE  FormInv'
    BY <1>1, FormCreate
  <1>2. ASSUME NEW s \in Session, NewLink(s)
        PROVE  FormInv'
    BY <1>2, FormNewLink, FormSteps
  <1>3. ASSUME NEW s \in Session, NewRecord(s)
        PROVE  FormInv'
    BY <1>3, FormNewRecord, FormSteps
  <1>4. ASSUME NEW s \in Session, NewMove(s)
        PROVE  FormInv'
    BY <1>4, FormNewMove, FormSteps
  <1>5. ASSUME NEW s \in Session, NewOld(s)
        PROVE  FormInv'
    BY <1>5, FormNewOld, FormSteps
  <1>6. ASSUME NEW s \in Session, UndoMove(s)
        PROVE  FormInv'
    BY <1>6, FormUndoMove, FormSteps
  <1>7. ASSUME NEW s \in Session, UndoRecord(s)
        PROVE  FormInv'
    BY <1>7, FormUndoRecord, FormSteps
  <1>8. ASSUME NEW s \in Session, UndoNew(s)
        PROVE  FormInv'
    BY <1>8, FormUndoNew, FormSteps
  <1>9. ASSUME NEW s \in Session, ExLink(s)
        PROVE  FormInv'
    BY <1>9, FormExLink, FormSteps
  <1>10. ASSUME NEW s \in Session, ExRecord(s)
        PROVE  FormInv'
    BY <1>10, FormExRecord, FormSteps
  <1>11. ASSUME NEW s \in Session, unlink_name(s)
        PROVE  FormInv'
    BY <1>11, FormUnlinkName, FormSteps
  <1>12. ASSUME NEW s \in Session, release(s)
        PROVE  FormInv'
    BY <1>12, FormRelease, FormSteps
  <1>13. ASSUME NEW s \in Session, RelMove(s)
        PROVE  FormInv'
    BY <1>13, FormRelMove, FormSteps
  <1>14. ASSUME NEW s \in Session, RelRecord(s)
        PROVE  FormInv'
    BY <1>14, FormRelRecord, FormSteps
  <1>15. ASSUME NEW s \in Session, FixupBegin(s)
        PROVE  FormInv'
    BY <1>15, FormFixupBegin, FormSteps
  <1>16. ASSUME NEW s \in Session, KernelActs(s)
        PROVE  FormInv'
    BY <1>16, FormKernelActs, FormSteps
  <1>17. ASSUME NEW s \in Session, KernelRefuses(s)
        PROVE  FormInv'
    BY <1>17, FormKernelRefuses, FormSteps
  <1>18. ASSUME NEW s \in Session, Crash(s)
        PROVE  FormInv'
    BY <1>18, FormCrash, FormSteps
  <1>19. ASSUME NEW s \in Session, NEW old \in Name, NEW new \in Name, LinkBegin(s, old, new)
        PROVE  FormInv'
    BY <1>19, FormLinkBegin, FormSteps
  <1>20. ASSUME NEW s \in Session, NEW n \in Name, UnlinkBegin(s, n)
        PROVE  FormInv'
    BY <1>20, FormUnlinkBegin, FormSteps
  <1>21. ASSUME NEW s \in Session, NEW from \in Name, NEW to \in Name, NEW op \in Op,
               RenameBegin(s, from, to, op)
        PROVE  FormInv'
    BY <1>21, FormRenameBegin, FormSteps
  <1>22. ASSUME NEW s \in Session, Moved(s) \/ MovedBack(s)
        PROVE  FormInv'
    BY <1>22, FormMoved, FormSteps
  <1>23. CASE UNCHANGED vars
    BY <1>23 DEF vars, disk, ghost, FormInv, TypeOK, FormOf, Positive
  <1> QED
    BY <1>1, <1>2, <1>3, <1>4, <1>5, <1>6, <1>7, <1>8, <1>9, <1>10, <1>11, <1>12, <1>13, <1>14,
       <1>15, <1>16, <1>17, <1>18, <1>19, <1>20, <1>21, <1>22, <1>23 DEF Next, SupervisorStep

LEMMA FormInit ==
  ASSUME Init
  PROVE  FormInv
PROOF
  <1>1. Idle \in Call
    BY DEF Idle, Call, Places
  <1>2. Idle.at = "idle" /\ ~Idle.fixup
    BY DEF Idle
  <1>3. tangled \in BOOLEAN
    BY DEF Init
  <1>4. TypeOK
    BY <1>1, <1>3, LinkStoreAssumption DEF Init, TypeOK
  <1> QED
    BY <1>2, <1>4 DEF Init, FormInv, FormOf, Positive, Making, Named, Holding, Stored, Releasing

(* Calls that met stay met.                                                *)
LEMMA MetForGood ==
  ASSUME tangled, [Next]_vars
  PROVE  tangled'
PROOF
  <1> USE DEF disk, ghost, vars
  <1>1. ASSUME NEW n \in Name, NEW f \in File, Create(n, f)
        PROVE  tangled'
    BY <1>1 DEF Create, Meets
  <1>2. ASSUME NEW s \in Session, NewLink(s)
        PROVE  tangled'
    BY <1>2 DEF NewLink
  <1>3. ASSUME NEW s \in Session, NewRecord(s)
        PROVE  tangled'
    BY <1>3 DEF NewRecord
  <1>4. ASSUME NEW s \in Session, NewMove(s)
        PROVE  tangled'
    BY <1>4 DEF NewMove
  <1>5. ASSUME NEW s \in Session, NewOld(s)
        PROVE  tangled'
    BY <1>5 DEF NewOld
  <1>6. ASSUME NEW s \in Session, UndoMove(s)
        PROVE  tangled'
    BY <1>6 DEF UndoMove
  <1>7. ASSUME NEW s \in Session, UndoRecord(s)
        PROVE  tangled'
    BY <1>7 DEF UndoRecord
  <1>8. ASSUME NEW s \in Session, UndoNew(s)
        PROVE  tangled'
    BY <1>8 DEF UndoNew
  <1>9. ASSUME NEW s \in Session, ExLink(s)
        PROVE  tangled'
    BY <1>9 DEF ExLink
  <1>10. ASSUME NEW s \in Session, ExRecord(s)
        PROVE  tangled'
    BY <1>10 DEF ExRecord
  <1>11. ASSUME NEW s \in Session, unlink_name(s)
        PROVE  tangled'
    BY <1>11 DEF unlink_name, Disturbs
  <1>12. ASSUME NEW s \in Session, release(s)
        PROVE  tangled'
    BY <1>12 DEF release
  <1>13. ASSUME NEW s \in Session, RelMove(s)
        PROVE  tangled'
    BY <1>13 DEF RelMove
  <1>14. ASSUME NEW s \in Session, RelRecord(s)
        PROVE  tangled'
    BY <1>14 DEF RelRecord
  <1>15. ASSUME NEW s \in Session, FixupBegin(s)
        PROVE  tangled'
    BY <1>15 DEF FixupBegin
  <1>16. ASSUME NEW s \in Session, KernelActs(s)
        PROVE  tangled'
    BY <1>16 DEF KernelActs, Disturbs
  <1>17. ASSUME NEW s \in Session, KernelRefuses(s)
        PROVE  tangled'
    BY <1>17 DEF KernelRefuses
  <1>18. ASSUME NEW s \in Session, Crash(s)
        PROVE  tangled'
    BY <1>18 DEF Crash
  <1>19. ASSUME NEW s \in Session, NEW old \in Name, NEW new \in Name, LinkBegin(s, old, new)
        PROVE  tangled'
    BY <1>19 DEF LinkBegin, Meets
  <1>20. ASSUME NEW s \in Session, NEW n \in Name, UnlinkBegin(s, n)
        PROVE  tangled'
    BY <1>20 DEF UnlinkBegin, Meets
  <1>21. ASSUME NEW s \in Session, NEW from \in Name, NEW to \in Name, NEW op \in Op,
               RenameBegin(s, from, to, op)
        PROVE  tangled'
    BY <1>21 DEF RenameBegin, Meets
  <1>22. ASSUME NEW s \in Session, Moved(s) \/ MovedBack(s)
        PROVE  tangled'
    BY <1>22 DEF Moved, MovedBack
  <1>23. CASE UNCHANGED vars
    BY <1>23
  <1> QED
    BY <1>1, <1>2, <1>3, <1>4, <1>5, <1>6, <1>7, <1>8, <1>9, <1>10, <1>11, <1>12, <1>13, <1>14,
       <1>15, <1>16, <1>17, <1>18, <1>19, <1>20, <1>21, <1>22, <1>23 DEF Next, SupervisorStep

-----------------------------------------------------------------------------
(* An empty store.                                                         *)
LEMMA InitInv == Init => Inv
PROOF
  <1> SUFFICES ASSUME Init
               PROVE  Inv
    OBVIOUS
  <1> USE LinkStoreAssumption, NoneAssumption
  <1>1. Idle \in Call
    BY DEF Idle, Call, Places
  <1>2. /\ Idle.at = "idle" /\ Idle.old = None /\ Idle.new = None /\ Idle.id = None
        /\ Idle.pick = None /\ Idle.fixup = FALSE
    BY DEF Idle
  <1>0. tangled \in BOOLEAN
    BY DEF Init
  <1>3. TypeOK
    BY <1>0, <1>1 DEF Init, TypeOK
  <1>4. \A s \in Session : /\ call[s].at = "idle" /\ call[s].old = None /\ call[s].new = None
                           /\ call[s].id = None /\ ~call[s].fixup /\ kernel[s] = None
    BY <1>2 DEF Init
  <1>5. /\ \A n \in Name : entry[n] = None /\ truth[n] = None
        /\ \A i \in Id : object[i] = None /\ record[i] = None
    BY DEF Init
  <1>6. LockInv /\ BusyInv /\ ShapeInv /\ OwnInv /\ NewInv /\ SeenInv /\ KernelInv
    BY <1>4 DEF LockInv, BusyInv, Uses, InCallOf, InKernelOf, ShapeInv, CallShape, KernelShape,
                OwnInv, NewInv, SeenInv, KernelInv, Holding, Making, Named, Stored, Releasing
  <1>7. PlaceInv /\ CountInv /\ TraceInv
    BY <1>5 DEF PlaceInv, CountInv, Counted, TraceInv, Traced
  <1>8. TruthInv
    BY <1>4, <1>5 DEF TruthInv, UnbornInv, StoredInv, ShownInv, Shown, Unborn, Resolve, Stored
  <1> QED
    BY <1>3, <1>6, <1>7, <1>8 DEF Inv

(* Every step of every session keeps the invariant.                        *)
LEMMA StepInv ==
  ASSUME IsFiniteSet(Name), ~tangled', tangled' \in BOOLEAN, Inv, [Next]_vars
  PROVE  Inv'
PROOF
  <1>1. CASE Next
    <2>1. Effect
      BY <1>1, StepDoes
    <2>2. /\ TypeOK /\ LockInv /\ BusyInv /\ ShapeInv /\ OwnInv
          /\ NewInv /\ SeenInv /\ KernelInv /\ PlaceInv
          /\ CountInv /\ TraceInv /\ TruthInv
      BY DEF Inv
    <2>3. TypeOK' /\ LockInv' /\ BusyInv' /\ ShapeInv' /\ OwnInv'
      BY <2>1, <2>2, TypeStep, LockStep, BusyStep, ShapeStep, OwnStep
    <2>4. NewInv' /\ SeenInv' /\ KernelInv' /\ PlaceInv'
      BY <2>1, <2>2, NewStep, SeenStep, KernelStep, PlaceStep
    <2>5. CountInv' /\ TraceInv'
      BY <2>1, <2>2, CountStep, TraceStep
    <2>6. UnbornInv' /\ StoredInv' /\ ShownInv'
      BY <2>1, <2>2, UnbornStep, StoredStep, ShownStep
    <2> QED
      BY <2>3, <2>4, <2>5, <2>6 DEF Inv, TruthInv
  <1>2. CASE UNCHANGED vars
    <2>1. /\ entry' = entry /\ object' = object /\ record' = record /\ lock' = lock
          /\ call' = call /\ kernel' = kernel /\ truth' = truth
          /\ left' = left /\ hurt' = hurt /\ faults' = faults /\ tangled' = tangled
      BY <1>2 DEF vars, disk, ghost
    <2>2. TypeOK' /\ LockInv' /\ BusyInv' /\ ShapeInv' /\ OwnInv'
      BY <2>1 DEF Inv, TypeOK, LockInv, BusyInv, Uses, ShapeInv, OwnInv
    <2>3. NewInv' /\ SeenInv' /\ KernelInv' /\ PlaceInv'
      BY <2>1 DEF Inv, NewInv, SeenInv, KernelInv, PlaceInv
    <2>4. CountInv'
      <3>1. \A i \in Id : Held(i)' = Held(i)
        BY <2>1 DEF Held, Holds, Owes, BeingLinked, At
      <3> QED
        BY <2>1, <3>1 DEF Inv, CountInv, Counted
    <2>5. TraceInv' /\ TruthInv'
      BY <2>1 DEF Inv, TraceInv, Traced, TruthInv, UnbornInv, StoredInv, ShownInv, Shown,
                  Unborn, Away, Resolve
    <2> QED
      BY <2>2, <2>3, <2>4, <2>5 DEF Inv
  <1> QED
    BY <1>1, <1>2

(* The inductive invariant of the store, tangled or not: who holds the     *)
(* lock, what a call works on at each point, and that a record counts at   *)
(* least one name, so that release() never counts below zero.              *)
THEOREM Formation == Spec => []FormInv
PROOF
  <1>1. Init => FormInv
    BY FormInit
  <1>2. FormInv /\ [Next]_vars => FormInv'
    BY FormNext
  <1> QED
    BY <1>1, <1>2, PTL DEF Spec

(* The store, the records and the calls stay well formed, also after two   *)
(* calls have met at a path.                                               *)
THEOREM TypeCorrect == Spec => []TypeOK
PROOF
  <1>1. FormInv => TypeOK
    BY DEF FormInv
  <1> QED
    BY Formation, <1>1, PTL

(* The inductive invariant until two calls meet at a path: what each step  *)
(* of link_new(), link_existing(), unlink and rename still finds of what   *)
(* it read, what the records count, what is left of a dropped object and   *)
(* what the names show.                                                    *)
THEOREM Invariant ==
  ASSUME IsFiniteSet(Name)
  PROVE  Spec => [](~tangled => Inv)
PROOF
  <1>1. FormInv' /\ (~tangled => Inv) /\ [Next]_vars => (~tangled => Inv)'
    <2> SUFFICES ASSUME FormInv', ~tangled => Inv, [Next]_vars, ~tangled'
                 PROVE  Inv'
      OBVIOUS
    <2>1. tangled' \in BOOLEAN
      BY DEF FormInv, TypeOK
    <2>2. Inv
      BY MetForGood
    <2> QED
      BY <2>1, <2>2, StepInv
  <1>2. Init => Inv
    BY InitInv
  <1> QED
    BY Formation, <1>1, <1>2, PTL DEF Spec

(* link, unlink and rename, their failures and the deaths between their    *)
(* steps, until two calls meet at a path: a name no call is using leads to *)
(* the file that it would have with real hard links, unless a dead session *)
(* left one of the file's names uncounted.                                 *)
THEOREM NamesAreKept ==
  ASSUME IsFiniteSet(Name)
  PROVE  Spec => []NamesKept
PROOF
  <1>1. (~tangled => Inv) => NamesKept
    <2> SUFFICES ASSUME Inv, NEW n \in Name \ Busy
                 PROVE  Resolve(n) = truth[n] \/ {Resolve(n), truth[n]} \cap hurt # {}
      BY DEF NamesKept
    <2>1. ~Unborn(n) /\ ~Away(n)
      BY DEF Busy, InCall, Unborn, Away
    <2> QED
      BY <2>1 DEF Inv, TruthInv, ShownInv, Shown
  <1> QED
    BY Invariant, <1>1, PTL

(* Until two calls meet at a path some name leads, between any two steps,  *)
(* to every file that has one: a session that dies there loses no file.    *)
THEOREM FilesAreReachable ==
  ASSUME IsFiniteSet(Name)
  PROVE  Spec => []FilesReachable
PROOF
  <1>1. (~tangled => Inv) => FilesReachable
    <2> SUFFICES ASSUME Inv, NEW n \in Name, truth[n] \in File \ hurt
                 PROVE  \E m \in Name : Resolve(m) = truth[n]
      BY DEF FilesReachable
    <2>1. ~Unborn(n)
      BY LinkStoreAssumption DEF Inv, TruthInv, UnbornInv
    <2>2. CASE Away(n)
      <3>1. PICK s \in Session : call[s].old = n /\ call[s].at \in Stored
        BY <2>2 DEF Away
      <3>2. /\ call[s].new \in Name /\ call[s].id \in Id
            /\ entry[call[s].new] = call[s].id /\ object[call[s].id] \in File
        BY <3>1, LinkingCalls DEF Linking, OnlyLink, Making
      <3>3. truth[n] = object[call[s].id]
        BY <3>1 DEF Inv, TruthInv, StoredInv
      <3>4. Resolve(call[s].new) = truth[n]
        BY <3>2, <3>3, LinkStoreAssumption DEF Resolve
      <3> QED
        BY <3>2, <3>4
    <2>3. CASE ~Away(n)
      BY <2>1, <2>3 DEF Inv, TruthInv, ShownInv, Shown
    <2> QED
      BY <2>2, <2>3
  <1> QED
    BY Invariant, <1>1, PTL

(* Until two calls meet at a path the record of a file that no call works  *)
(* on counts its links, and after an ignored failure or a death never too  *)
(* few of them: release() does not remove the object while a name still    *)
(* leads to it.                                                            *)
THEOREM CountsAreCurrent ==
  ASSUME IsFiniteSet(Name)
  PROVE  Spec => []CountsCurrent
PROOF
  <1>1. (~tangled => Inv) => CountsCurrent
    <2> SUFFICES ASSUME Inv, NEW i \in Id, object[i] \in File \ hurt, ~InWork(i)
                 PROVE  /\ record[i] # None
                        /\ present_stat(i) >= Cardinality(Links(i))
                        /\ i \in left \/ present_stat(i) = Cardinality(Links(i))
      BY DEF CountsCurrent
    <2>1. ASSUME NEW n \in Name, entry[n] = i
          PROVE  ~BeingLinked(n)
      BY <2>1, LinkedBy DEF Inv, InWork
    <2>2. ASSUME NEW n \in Name, NEW s \in Session
          PROVE  ~Owes(s, i, n)
      BY DEF Owes, InWork
    <2>3. Held(i) = Links(i)
      BY <2>1, <2>2 DEF Held, Holds, Links
    <2>4. Counted(i)
      BY DEF Inv, CountInv
    <2> QED
      BY <2>3, <2>4 DEF Counted, present_stat, read_record
  <1> QED
    BY Invariant, <1>1, PTL

(* link_store.hpp, "a refused link leaves no trace": until two calls meet  *)
(* at a path, an id that no call works on and that has no object has       *)
(* neither a record nor a link, unless a session died over it.             *)
THEOREM NoTraceIsLeft ==
  ASSUME IsFiniteSet(Name)
  PROVE  Spec => []NoTrace
PROOF
  <1>1. (~tangled => Inv) => NoTrace
    <2> SUFFICES ASSUME Inv, NEW i \in Id \ left, object[i] = None, ~InWork(i)
                 PROVE  record[i] = None /\ Links(i) = {}
      BY DEF NoTrace
    <2>1. Traced(i)
      BY DEF Inv, TraceInv
    <2> QED
      BY <2>1 DEF Traced, InWork, Links
  <1> QED
    BY Invariant, <1>1, PTL

=============================================================================
