--------------------------- MODULE ResolverProofs ---------------------------
(***************************************************************************)
(* Proofs about resolve(), for every mount table, every path and whatever  *)
(* the host answers: where a lookup may lead, what it leads through, and   *)
(* that it ends.                                                           *)
(***************************************************************************)
EXTENDS Resolver, TLAPS, WellFoundedInduction, NaturalsInduction

CONSTANTS Names,             \* names of files, "." and ".."
          Errors             \* "ok" and errno values

----------------------------------------------------------------------------
\* A path of names.
Plain(g) == g \in Seq(Names) /\ \A i \in 1 .. Len(g) : g[i] \notin {".", ".."}

\* What a lookup finds at a guest path.
At(g) == lstat(to_host(g))
Finds(g) == At(g).err = "ok" /\ At(g).ino # NoInode
IsDir(g) == At(g).err = "ok" /\ At(g).ino \in Dirs
LinkAt(g) == target_of(At(g).ino, mount_for_guest(g))

\* Kinds of inodes, answers and mounts, as far as resolve() depends on them.
Host ==
    /\ {".", "1", "task"} \subseteq Names
    /\ {"ok", "ENOENT", "ENOTDIR", "EACCES", "ELOOP"} \subseteq Errors
    /\ Dirs \cap Links = {} /\ NoInode \notin Dirs \cup Links
    /\ \A h \in Seq(Names) : lstat(h).err \in Errors /\ (lstat(h).err # "ok" => lstat(h).ino = NoInode)
    /\ \A i \in Links : /\ read_link(i).parts \in Seq(Names) /\ read_link(i).abs \in BOOLEAN
    /\ \A m \in Mounts : m.guest \in Seq(Names) /\ m.host \in Seq(Names)
    /\ \E m \in Mounts : m.guest = <<>>
    /\ MaxSymlinks \in Nat /\ MaxRounds \in Nat

\* Caches hold directories under paths of names.
Caches == UNION {[D -> Dirs] : D \in SUBSET {g \in Seq(Names) : Plain(g)}}

Loops == [pending : Seq(Names), done : Seq(Names), links : Nat, exists : BOOLEAN,
          is_dir : BOOLEAN, magic : BOOLEAN, err : Errors, cache : Caches]

\* The outcomes of a round of resolve()'s loop at a component: the lookup fails; "." stays;
\* ".." goes up; nothing has the name; a link is followed; a link stands for an open file,
\* and is the last component; the name is entered.
Comp(s) == Append(s.done, Head(s.pending))
Named(s) == /\ s.exists /\ s.is_dir /\ Head(s.pending) \notin {".", ".."}

Failed(s, r) == /\ r.err # "ok" /\ r.pending = <<>>
                /\ r.done = s.done /\ r.links = s.links /\ r.cache = s.cache
Stayed(s, r) == /\ r.pending = Tail(s.pending) /\ r.err = s.err /\ r.links = s.links
                /\ r.done = s.done /\ r.cache = s.cache
                /\ r.exists = s.exists /\ r.is_dir = s.is_dir
WentUp(s, r) == /\ s.exists /\ s.is_dir /\ r.exists /\ r.is_dir
                /\ r.pending = Tail(s.pending) /\ r.err = s.err /\ r.links = s.links
                /\ r.done = (IF s.done = <<>> THEN <<>> ELSE Front(s.done)) /\ r.cache = s.cache
Missed(s, r) == /\ Named(s) /\ ~r.exists /\ ~r.is_dir /\ ~Finds(Comp(s))
                /\ r.pending = Tail(s.pending) /\ r.err = s.err /\ r.links = s.links
                /\ r.done = Comp(s) /\ r.cache = s.cache
Followed(s, r) == /\ Named(s) /\ r.exists /\ r.is_dir /\ s.links # MaxSymlinks
                  /\ r.links = s.links + 1 /\ r.err = s.err
                  /\ r.done \in {s.done, <<>>} /\ r.cache = s.cache
                  /\ At(Comp(s)).ino \in Links
                  /\ r.pending = Onward(LinkAt(Comp(s))) \o Tail(s.pending)
Opened(s, r) == /\ Named(s) /\ r.exists /\ ~r.is_dir /\ Finds(Comp(s))
                /\ r.pending = <<>> /\ r.err = s.err /\ r.links = s.links
                /\ r.done = Comp(s) /\ r.cache = s.cache
                /\ mount_for_guest(Comp(s)).kind = "proc"
Entered(s, r, follow_final) ==
    /\ Named(s) /\ r.exists /\ Finds(Comp(s)) /\ (r.is_dir => IsDir(Comp(s)))
    /\ r.pending = Tail(s.pending) /\ r.err = s.err /\ r.links = s.links
    /\ r.done = Comp(s)
    /\ follow_final => At(Comp(s)).ino \notin Links
    /\ \/ r.cache = s.cache
       \/ IsDir(Comp(s)) /\ r.cache = put(s.cache, Comp(s), At(Comp(s)).ino)

----------------------------------------------------------------------------
(* The mount table. *)

\* A set of natural numbers has a least element.
LEMMA LeastExists ==
  ASSUME NEW S \in SUBSET Nat, S # {}
  PROVE  \E n \in S : \A m \in S : n <= m
<1>1. PICK n \in S : \A m \in S : ~(<<m, n>> \in OpToRel(<, Nat))
  BY NatLessThanWellFounded, WFMin
<1>2. \A m \in S : <<m, n>> \in Nat \X Nat
  OBVIOUS
<1>3. \A m \in S : ~(m < n)
  BY <1>1, <1>2 DEF OpToRel
<1> QED BY <1>3

\* What holds at 0 and is handed on holds up to n.
LEMMA UpTo ==
  ASSUME NEW n \in Nat, NEW S, 0 \in S, \A k \in 0 .. n - 1 : k \in S => k + 1 \in S
  PROVE  \A k \in 0 .. n : k \in S
<1> DEFINE T == {k \in 0 .. n : k \notin S}
<1>1. SUFFICES ASSUME T # {} PROVE FALSE
  OBVIOUS
<1>2. PICK m \in T : \A k \in T : m <= k
  <2>1. T \in SUBSET Nat
    OBVIOUS
  <2> QED BY <1>1, <2>1, LeastExists
<1>3. m \in 1 .. n
  BY <1>2
<1>4. m - 1 \in S
  BY <1>2, <1>3
<1> QED BY <1>2, <1>3, <1>4

\* A bounded set of natural numbers has a greatest element.
LEMMA GreatestExists ==
  ASSUME NEW n \in Nat, NEW S \in SUBSET (0 .. n), S # {}
  PROVE  \E x \in S : \A m \in S : m <= x
<1> DEFINE T == {n - x : x \in S}
<1>1. T \in SUBSET Nat /\ T # {}
  <2>1. \A x \in S : x \in 0 .. n
    OBVIOUS
  <2>2. \A x \in S : n - x \in Nat
    BY <2>1
  <2> QED BY <2>2
<1>2. PICK t \in T : \A u \in T : t <= u
  BY <1>1, LeastExists
<1>3. PICK x \in S : t = n - x
  OBVIOUS
<1>4. \A y \in S : n - y \in T
  OBVIOUS
<1>5. \A y \in S : n - x <= n - y
  BY <1>2, <1>3, <1>4
<1>6. \A y \in S : y <= x
  BY <1>5
<1> QED BY <1>6

\* mount_for_guest finds the mount with the longest guest path above g.
LEMMA MountFor ==
  ASSUME Host, NEW g \in Seq(Names)
  PROVE  /\ mount_for_guest(g) \in Mounts /\ is_below(g, mount_for_guest(g).guest)
         /\ \A m \in Mounts : is_below(g, m.guest) => Len(m.guest) <= Len(mount_for_guest(g).guest)
<1> DEFINE ms == {m \in Mounts : is_below(g, m.guest)}
           S == {Len(m.guest) : m \in ms}
<1>1. ms # {}
  <2>1. PICK m \in Mounts : m.guest = <<>>
    BY DEF Host
  <2>2. is_below(g, m.guest)
    BY <2>1 DEF is_below, IsPrefix
  <2> QED BY <2>1, <2>2
<1>2. \A m \in ms : Len(m.guest) \in 0 .. Len(g)
  BY DEF Host, is_below, IsPrefix
<1>3. PICK x \in S : \A y \in S : y <= x
  <2>1. PICK m \in ms : TRUE
    BY <1>1
  <2>2. Len(m.guest) \in S
    OBVIOUS
  <2>3. \A x \in S : x \in 0 .. Len(g)
    BY <1>2
  <2> HIDE DEF S
  <2>4. S \in SUBSET (0 .. Len(g)) /\ S # {} /\ Len(g) \in Nat
    BY <2>2, <2>3
  <2> QED BY <2>4, GreatestExists
<1>4. \E m \in ms : \A n \in ms : Len(n.guest) <= Len(m.guest)
  BY <1>3
<1> DEFINE best == {m \in ms : \A n \in ms : Len(n.guest) <= Len(m.guest)}
<1>5. mount_for_guest(g) = CHOOSE m \in best : TRUE
  BY DEF mount_for_guest, Longest
<1>6. mount_for_guest(g) \in best
  <2>1. best # {}
    BY <1>4
  <2> HIDE DEF best
  <2> QED BY <2>1, <1>5
<1> QED BY <1>6

\* So a host path is one.
LEMMA ToHost ==
  ASSUME Host, NEW g \in Seq(Names)
  PROVE  to_host(g) \in Seq(Names)
<1> DEFINE m == mount_for_guest(g)
<1>1. m \in Mounts
  BY MountFor
<1>2. m.guest \in Seq(Names) /\ m.host \in Seq(Names)
  BY <1>1 DEF Host
<1> HIDE DEF m
<1>3. suffix_after(g, m.guest) \in Seq(Names)
  BY <1>2 DEF suffix_after
<1> QED BY <1>2, <1>3 DEF to_host, Below, m

\* A host path is mapped back to a guest path, if to any.
LEMMA ToGuest ==
  ASSUME Host, NEW h \in Seq(Names)
  PROVE  to_guest(h) # Outside => to_guest(h) \in Seq(Names)
<1> DEFINE ms == {m \in Mounts : is_below(h, m.host)}
           S == {Len(m.host) : m \in ms}
<1>1. CASE ms = {}
  BY <1>1, Zenon DEF to_guest, Above
<1>2. CASE ms # {}
  <2>1. \A m \in ms : Len(m.host) \in 0 .. Len(h)
    BY DEF Host, is_below, IsPrefix
  <2>2. PICK x \in S : \A y \in S : y <= x
    <3>1. PICK m \in ms : TRUE
      BY <1>2
    <3>2. Len(m.host) \in S
      OBVIOUS
    <3>3. \A x \in S : x \in 0 .. Len(h)
      BY <2>1
    <3> HIDE DEF S
    <3>4. S \in SUBSET (0 .. Len(h)) /\ S # {} /\ Len(h) \in Nat
      BY <3>2, <3>3
    <3> QED BY <3>4, GreatestExists
  <2>3. \E m \in ms : \A n \in ms : Len(n.host) <= Len(m.host)
    BY <2>2
  <2> DEFINE best == {m \in ms : \A n \in ms : Len(n.host) <= Len(m.host)}
             l == CHOOSE m \in best : TRUE
  <2>4. to_guest(h) = l.guest \o suffix_after(h, l.host)
    BY <1>2 DEF to_guest, Above, Longest
  <2>5. l \in ms
    <3>1. best # {}
      BY <2>3
    <3>2. l \in best
      <4> HIDE DEF best
      <4> QED BY <3>1
    <3> QED BY <3>2
  <2>6. l.guest \in Seq(Names) /\ l.host \in Seq(Names)
    BY <2>5 DEF Host
  <2> HIDE DEF l, ms
  <2>7. suffix_after(h, l.host) \in Seq(Names)
    BY <2>6 DEF suffix_after
  <2> QED BY <2>4, <2>6, <2>7
<1> QED BY <1>1, <1>2

\* What a link stands for is a path, or nothing but the open file of a /proc link.
LEMMA TargetIs ==
  ASSUME Host, NEW g \in Seq(Names), At(g).ino \in Links
  PROVE  /\ LinkAt(g).parts \in Seq(Names) /\ LinkAt(g).err \in Errors /\ LinkAt(g).abs \in BOOLEAN
         /\ LinkAt(g).magic => mount_for_guest(g).kind = "proc"
<1> DEFINE i == At(g).ino
           m == mount_for_guest(g)
           raw == read_link(i)
<1>1. raw.parts \in Seq(Names) /\ raw.abs \in BOOLEAN
  BY DEF Host
<1>2. to_guest(raw.parts) # Outside => to_guest(raw.parts) \in Seq(Names)
  BY <1>1, ToGuest
<1>r. raw = read_link(i)
  OBVIOUS
<1> HIDE DEF i, m, raw
<1>3. <<>> \in Seq(Names)
  OBVIOUS
<1>4. <<"1">> \in Seq(Names) /\ <<"1", "task", "1">> \in Seq(Names)
  BY DEF Host
<1>e. {"ok", "ENOENT", "EACCES"} \subseteq Errors
  BY DEF Host
<1> DEFINE Fits(t) == /\ t.parts \in Seq(Names) /\ t.err \in Errors /\ t.abs \in BOOLEAN
                      /\ t.magic => m.kind = "proc"
<1>5. ASSUME NEW t, t.abs \in BOOLEAN, t.parts \in Seq(Names), NEW k, k => m.kind = "proc"
      PROVE  Fits(Target(t, k))
  <2>1. /\ Target(t, k).parts = t.parts /\ Target(t, k).err = "ok"
        /\ Target(t, k).abs = t.abs /\ Target(t, k).magic = k
    BY DEF Target
  <2>2. "ok" \in Errors
    BY <1>e
  <2> QED BY <1>5, <2>1, <2>2, Zenon
<1>n. \A x : x.abs \in BOOLEAN /\ x.parts \in Seq(Names) => Fits(Target(x, FALSE))
  <2> TAKE x
  <2>1. /\ Target(x, FALSE).parts = x.parts /\ Target(x, FALSE).err = "ok"
        /\ Target(x, FALSE).abs = x.abs /\ Target(x, FALSE).magic = FALSE
    BY DEF Target
  <2>2. "ok" \in Errors
    BY <1>e
  <2> QED BY <2>1, <2>2
<1>6. ASSUME NEW a \in BOOLEAN, NEW ps \in Seq(Names)
      PROVE  Says(a, ps).abs = a /\ Says(a, ps).parts = ps
  BY DEF Says
<1>f. ASSUME NEW e \in {"ENOENT", "EACCES"} PROVE Fits(NoTarget(e))
  <2>1. /\ NoTarget(e).parts = <<>> /\ NoTarget(e).err = e
        /\ NoTarget(e).abs = FALSE /\ NoTarget(e).magic = FALSE
    BY DEF NoTarget
  <2>2. e \in Errors
    BY <1>e
  <2> QED BY <1>3, <2>1, <2>2
<1> HIDE DEF Fits
<1>7. Fits(magic_target(raw.parts))
  <2>1. to_guest(raw.parts) # Outside => Fits(Target(Says(TRUE, to_guest(raw.parts)), FALSE))
    <3> SUFFICES ASSUME to_guest(raw.parts) # Outside
                 PROVE  Fits(Target(Says(TRUE, to_guest(raw.parts)), FALSE))
      OBVIOUS
    <3> DEFINE t == Says(TRUE, to_guest(raw.parts))
    <3>1. t.abs \in BOOLEAN /\ t.parts \in Seq(Names)
      BY <1>2, <1>6
    <3> HIDE DEF t
    <3>2. Fits(Target(t, FALSE))
      BY <1>n, <3>1, Zenon
    <3> QED BY <3>2 DEF t
  <2>2. Fits(NoTarget("ENOENT")) /\ Fits(NoTarget("EACCES"))
    BY <1>f
  <2> QED BY <2>1, <2>2, Zenon DEF magic_target
<1>8. /\ Fits(Target(Says(FALSE, <<"1">>), FALSE))
      /\ Fits(Target(Says(FALSE, <<"1", "task", "1">>), FALSE))
  <2> DEFINE t == Says(FALSE, <<"1">>)
             u == Says(FALSE, <<"1", "task", "1">>)
  <2>1. t.abs \in BOOLEAN /\ t.parts \in Seq(Names)
    BY <1>4, <1>6
  <2>2. u.abs \in BOOLEAN /\ u.parts \in Seq(Names)
    BY <1>4, <1>6
  <2> HIDE DEF t, u
  <2>3. Fits(Target(t, FALSE)) /\ Fits(Target(u, FALSE))
    BY <1>n, <2>1, <2>2, Zenon
  <2> QED BY <2>3 DEF t, u
<1>9. ASSUME m.kind = "proc"
      PROVE  Fits(proc_link_target(i))
  <2>1. Fits(Target(raw, raw.parts = Pipe))
    BY <1>1, <1>5, <1>9
  <2>2. Fits(NoTarget("ENOENT"))
    BY <1>f
  <2>3. Fits(raw_target(raw))
    BY <2>1, <2>2, <1>7, Zenon DEF raw_target
  <2> QED BY <2>3, <1>8, <1>r, Zenon DEF proc_link_target
<1>10. Fits(Target(raw, FALSE))
  BY <1>1, <1>n, Zenon
<1>11. Fits(target_of(i, m))
  BY <1>9, <1>10, <1>r, Zenon DEF target_of
<1> QED BY <1>11 DEF Fits, LinkAt, i, m

\* components() returns names: what it gathers up to k, by its recursive definition, is a
\* sequence of them.
LEMMA ComponentsAre ==
  ASSUME NEW p, p.parts \in Seq(Names)
  PROVE  components(p) \in Seq(Names)
<1> DEFINE ps == p.parts
           Fits(h, n) == h = [k \in 0 .. n |-> IF k = 0 THEN <<>> ELSE Keep(h[k - 1], ps[k])]
           S == {n \in Nat : \E h : Fits(h, n)}
           N == Len(ps)
<1>0. N \in Nat /\ \A k \in 1 .. N : ps[k] \in Names
  OBVIOUS
<1>p. components(p) = NamesUpTo(ps)[N]
  BY DEF components
<1> HIDE DEF ps, N
<1>1. 0 \in S
  <2>1. Fits([k \in 0 .. 0 |-> <<>>], 0)
    OBVIOUS
  <2> QED BY <2>1
<1>2. ASSUME NEW n \in Nat, n \in S PROVE n + 1 \in S
  <2>1. PICK h : Fits(h, n)
    BY <1>2
  <2> DEFINE g == [k \in 0 .. n + 1 |-> IF k = n + 1 THEN Keep(h[n], ps[n + 1]) ELSE h[k]]
  <2>2. ASSUME NEW k \in 0 .. n + 1 PROVE g[k] = IF k = 0 THEN <<>> ELSE Keep(g[k - 1], ps[k])
    <3>1. CASE k = n + 1
      BY <3>1
    <3>2. CASE k = 0
      BY <2>1, <3>2
    <3>3. CASE k \in 1 .. n
      <4>1. h[k] = Keep(h[k - 1], ps[k])
        BY <2>1, <3>3
      <4>2. g[k] = h[k] /\ g[k - 1] = h[k - 1]
        BY <3>3
      <4> QED BY <3>3, <4>1, <4>2
    <3> QED BY <3>1, <3>2, <3>3
  <2>3. Fits(g, n + 1)
    BY <2>2
  <2>4. \E h2 : Fits(h2, n + 1)
    <3> HIDE DEF g
    <3> WITNESS g
    <3> QED BY <2>3
  <2> QED BY <2>4
<1>3. \A n \in Nat : n \in S
  <2> HIDE DEF S
  <2> TAKE n \in Nat
  <2>1. \A k \in 0 .. n - 1 : k \in S => k + 1 \in S
    BY <1>2
  <2>2. \A k \in 0 .. n : k \in S
    BY <1>1, <2>1, UpTo
  <2> QED BY <2>2
<1>4. \E h : Fits(h, N)
  BY <1>0, <1>3
<1> DEFINE at == NamesUpTo(ps)
<1>5. Fits(at, N)
  BY <1>4 DEF NamesUpTo, N
<1> HIDE DEF at
<1> DEFINE T == {k \in Nat : k \in 0 .. N => at[k] \in Seq(Names)}
<1>6. 0 \in T
  <2>1. at[0] = <<>>
    BY <1>0, <1>5
  <2>2. <<>> \in Seq(Names)
    OBVIOUS
  <2>3. at[0] \in Seq(Names)
    BY <2>1, <2>2
  <2> QED BY <2>3
<1>7. ASSUME NEW k \in 0 .. N - 1, k \in T PROVE k + 1 \in T
  <2> DEFINE n == k + 1
  <2>1. n \in 1 .. N /\ n - 1 = k /\ n \in 0 .. N
    BY <1>0
  <2> HIDE DEF n
  <2>2. at[n] = Keep(at[n - 1], ps[n])
    BY <1>0, <1>5, <2>1
  <2>3. at[k] \in Seq(Names) /\ ps[n] \in Names
    BY <1>0, <1>7, <2>1
  <2>4. at[n] \in Seq(Names)
    BY <2>1, <2>2, <2>3 DEF Keep
  <2> QED BY <2>1, <2>4 DEF n
<1>8. \A k \in 0 .. N : k \in T
  <2> HIDE DEF T
  <2> QED BY <1>0, <1>6, <1>7, UpTo
<1>9. at[N] \in Seq(Names)
  <2>1. N \in 0 .. N
    BY <1>0
  <2> QED BY <1>0, <1>8, <2>1
<1> QED BY <1>9, <1>p DEF at

\* So are the names a link's target puts before the pending ones.
LEMMA OnwardIs ==
  ASSUME Host, NEW t, t.parts \in Seq(Names)
  PROVE  Onward(t) \in Seq(Names)
<1>1. components(t) \in Seq(Names)
  BY ComponentsAre
<1>2. Slash(t.slash) \in Seq(Names)
  <2>1. "." \in Names
    BY DEF Host
  <2>2. <<".">> \in Seq(Names) /\ <<>> \in Seq(Names)
    BY <2>1
  <2> QED BY <2>2, Zenon DEF Slash
<1> QED BY <1>1, <1>2 DEF Onward

----------------------------------------------------------------------------
(* A round of the loop. *)

\* DirCache::put and a dropped entry leave a cache.
LEMMA CacheKept ==
  ASSUME NEW c \in Caches, NEW g
  PROVE  /\ drop(c, g) \in Caches
         /\ \A i \in Dirs : Plain(g) => put(c, g, i) \in Caches
<1> DEFINE P == {h \in Seq(Names) : Plain(h)}
<1>1. PICK D \in SUBSET P : c \in [D -> Dirs]
  BY DEF Caches
<1>2. \A E \in SUBSET P : \A d \in [E -> Dirs] : d \in Caches
  BY DEF Caches
<1>3. D \ {g} \in SUBSET P
  BY <1>1
<1>4. drop(c, g) \in [D \ {g} -> Dirs]
  BY <1>1 DEF drop
<1>5. ASSUME NEW i \in Dirs, Plain(g)
      PROVE  put(c, g, i) \in Caches
  <2> DEFINE kept == IF g \notin DOMAIN c /\ Cardinality(DOMAIN c) >= MaxEntries
                     THEN {} ELSE DOMAIN c
             E == kept \cup {g}
  <2>1. g \in P
    BY <1>5 DEF Plain
  <2>2. kept \in SUBSET D
    BY <1>1
  <2>3. put(c, g, i) = [k \in E |-> IF k = g THEN i ELSE c[k]]
    BY DEF put
  <2> HIDE DEF kept
  <2>4. put(c, g, i) \in [E -> Dirs]
    BY <1>1, <2>2, <2>3
  <2>5. E \in SUBSET P
    <3> HIDE DEF P
    <3> QED BY <2>1, <2>2, <1>1
  <2> QED BY <2>4, <2>5, <1>2
<1> QED BY <1>2, <1>3, <1>4, <1>5

\* Whatever follows a link is a failure, the open file of a /proc link, or the path it stands for.
LEMMA FollowDoes ==
  ASSUME Host, NEW s \in Loops, s.pending # <<>>, Named(s), s.err = "ok",
         Finds(Comp(s)), At(Comp(s)).ino \in Links
  PROVE  LET r == follow_link(s, Comp(s), Tail(s.pending), LinkAt(Comp(s))) IN
         r \in Loops /\ (Failed(s, r) \/ Opened(s, r) \/ Followed(s, r))
<1> DEFINE t == LinkAt(Comp(s))
           r == follow_link(s, Comp(s), Tail(s.pending), t)
<1>1. /\ t.parts \in Seq(Names) /\ t.err \in Errors /\ t.abs \in BOOLEAN
      /\ t.magic => mount_for_guest(Comp(s)).kind = "proc"
  <2>1. Comp(s) \in Seq(Names)
    BY DEF Loops, Comp
  <2> QED BY <2>1, TargetIs
<1>0. SUFFICES r \in Loops /\ (Failed(s, r) \/ Opened(s, r) \/ Followed(s, r))
  OBVIOUS
<1>r. r = follow_link(s, Comp(s), Tail(s.pending), t)
  OBVIOUS
<1> HIDE DEF t, r
<1>2. {"ok", "ENOENT", "ENOTDIR", "EACCES", "ELOOP"} \subseteq Errors
  BY DEF Host
<1>3. Comp(s) \in Seq(Names) /\ Tail(s.pending) \in Seq(Names)
  BY DEF Loops, Comp
<1>4. <<>> \in Seq(Names)
  OBVIOUS
<1>5. ASSUME NEW e \in Errors, e # "ok"
      PROVE  Fail(s, e) \in Loops /\ Failed(s, Fail(s, e))
  BY <1>4, <1>5 DEF Fail, Failed, Loops
<1>6. CASE s.links = MaxSymlinks
  <2>1. r = Fail(s, "ELOOP")
    BY <1>6, <1>r, Zenon DEF follow_link
  <2> QED BY <1>2, <1>5, <2>1
<1>7. CASE s.links # MaxSymlinks /\ t.err # "ok"
  <2>1. r = Fail(s, t.err)
    BY <1>7, <1>r, Zenon DEF follow_link
  <2> QED BY <1>1, <1>5, <1>7, <2>1
<1>8. CASE s.links # MaxSymlinks /\ t.err = "ok" /\ t.magic /\ ~OnlyDots(Tail(s.pending))
  <2>1. r = Fail(s, "ENOTDIR")
    BY <1>8, <1>r, Zenon DEF follow_link
  <2> QED BY <1>2, <1>5, <2>1
<1>9. CASE s.links # MaxSymlinks /\ t.err = "ok" /\ t.magic /\ OnlyDots(Tail(s.pending))
  <2>1. r = [s EXCEPT !.done = Comp(s), !.pending = <<>>, !.is_dir = FALSE, !.magic = TRUE]
    BY <1>9, <1>r, Zenon DEF follow_link
  <2>2. mount_for_guest(Comp(s)).kind = "proc"
    BY <1>1, <1>9
  <2>3. r \in Loops
    BY <1>3, <1>4, <2>1 DEF Loops
  <2>4. Opened(s, r)
    BY <1>3, <1>4, <2>1, <2>2 DEF Loops, Opened, Named
  <2> QED BY <2>3, <2>4
<1>11. CASE s.links # MaxSymlinks /\ t.err = "ok" /\ ~t.magic /\ ~t.abs /\ t.parts = <<>>
  <2>1. r = Fail(s, "ENOENT")
    BY <1>11, <1>r, Zenon DEF follow_link
  <2> QED BY <1>2, <1>5, <2>1
<1>10. CASE s.links # MaxSymlinks /\ t.err = "ok" /\ ~t.magic /\ ~(~t.abs /\ t.parts = <<>>)
  <2> DEFINE d == IF t.abs THEN <<>> ELSE s.done
  <2>1. r = [s EXCEPT !.done = d, !.links = s.links + 1,
                      !.pending = Onward(t) \o Tail(s.pending), !.is_dir = TRUE, !.exists = TRUE]
    BY <1>10, <1>r, Zenon DEF follow_link
  <2>2. d \in {s.done, <<>>} /\ d \in Seq(Names)
    BY <1>4 DEF Loops
  <2>3. Onward(t) \o Tail(s.pending) \in Seq(Names)
    <3>1. Onward(t) \in Seq(Names)
      BY <1>1, OnwardIs
    <3> QED BY <1>3, <3>1
  <2> HIDE DEF d
  <2>4. r \in Loops
    <3>1. s.links + 1 \in Nat
      BY DEF Loops
    <3> QED BY <2>1, <2>2, <2>3, <3>1 DEF Loops
  <2>5. /\ r.exists /\ r.is_dir /\ r.links = s.links + 1 /\ r.err = s.err
        /\ r.done = d /\ r.cache = s.cache
        /\ r.pending = Onward(t) \o Tail(s.pending)
    BY <2>1 DEF Loops
  <2>6. Followed(s, r)
    BY <2>2, <2>5, <1>10 DEF Followed, t
  <2> QED BY <2>4, <2>6
<1> QED BY <1>6, <1>7, <1>8, <1>9, <1>10, <1>11

\* What a component's lookup does.
LEMMA ComponentDoes ==
  ASSUME Host, NEW s \in Loops, s.pending # <<>>, Named(s), s.err = "ok", Plain(s.done),
         NEW follow_final
  PROVE  LET r == Component(s, Comp(s), Tail(s.pending), follow_final) IN
         /\ r \in Loops
         /\ \/ Failed(s, r) \/ Missed(s, r) \/ Opened(s, r) \/ Followed(s, r)
            \/ Entered(s, r, follow_final)
<1> DEFINE g == Comp(s)
           rest == Tail(s.pending)
           m == mount_for_guest(g)
           st == At(g)
           must == ~OnlyDots(rest) \/ follow_final \/ rest # <<>>
           r == inspect(s, g, rest, must, m, st)
<1>1. g \in Seq(Names) /\ rest \in Seq(Names) /\ Plain(g)
  BY DEF Loops, Comp, Plain, Named
<1>2. m \in Mounts
  BY <1>1, MountFor
<1>3. st.err \in Errors /\ (st.err # "ok" => st.ino = NoInode)
  <2>1. to_host(g) \in Seq(Names)
    BY <1>1, ToHost
  <2> QED BY <2>1 DEF Host, At
<1>4. Component(s, g, rest, follow_final) = r
  BY Zenon DEF Component, At
<1>5. SUFFICES r \in Loops /\ (\/ Failed(s, r) \/ Missed(s, r) \/ Opened(s, r) \/ Followed(s, r)
                               \/ Entered(s, r, follow_final))
  BY <1>4, Zenon
<1>6. r = inspect(s, g, rest, must, m, st)
  OBVIOUS
<1>7. <<>> \in Seq(Names)
  OBVIOUS
<1> HIDE DEF r, must
<1>8. CASE st.err = "ENOENT" \/ (st.err = "ok" /\ st.ino = NoInode)
  <2>1. r = [s EXCEPT !.done = g, !.pending = rest, !.exists = FALSE, !.is_dir = FALSE]
    BY <1>6, <1>8, Zenon DEF inspect
  <2>2. ~Finds(g)
    BY <1>8 DEF Finds
  <2> HIDE DEF g, rest, m, st
  <2>3. r \in Loops
    BY <1>1, <2>1 DEF Loops
  <2>4. /\ r.exists = FALSE /\ r.is_dir = FALSE /\ r.pending = rest /\ r.err = s.err
        /\ r.links = s.links /\ r.done = g /\ r.cache = s.cache
    BY <2>1 DEF Loops
  <2>5. Missed(s, r)
    BY <2>2, <2>4 DEF Missed, g, rest
  <2> QED BY <2>3, <2>5
<1>9. CASE st.err \notin {"ENOENT", "ok"}
  <2>1. r = Fail(s, st.err)
    BY <1>6, <1>9, Zenon DEF inspect
  <2> HIDE DEF g, rest, m, st
  <2>2. r \in Loops /\ Failed(s, r)
    BY <1>3, <1>7, <1>9, <2>1 DEF Fail, Failed, Loops
  <2> QED BY <2>2
<1>10. CASE st.err = "ok" /\ st.ino # NoInode /\ st.ino \in Links /\ must
  <2>1. r = follow_link(s, g, rest, LinkAt(g))
    BY <1>6, <1>10, Zenon DEF inspect, LinkAt
  <2>2. Finds(g)
    BY <1>10 DEF Finds
  <2>3. r \in Loops /\ (Failed(s, r) \/ Opened(s, r) \/ Followed(s, r))
    BY <1>10, <2>1, <2>2, FollowDoes
  <2> QED BY <2>3
<1>11. CASE st.err = "ok" /\ st.ino # NoInode /\ ~(st.ino \in Links /\ must)
  <2> DEFINE c == IF st.ino \in Dirs /\ m.kind # "proc" THEN put(s.cache, g, st.ino) ELSE s.cache
             dir == st.ino \in Dirs
  <2>1. r = [s EXCEPT !.done = g, !.pending = rest, !.exists = TRUE, !.is_dir = dir, !.cache = c]
    BY <1>6, <1>11, Zenon DEF inspect
  <2>2. c \in Caches
    <3>1. s.cache \in Caches
      BY DEF Loops
    <3>2. st.ino \in Dirs => put(s.cache, g, st.ino) \in Caches
      BY <3>1, <1>1, CacheKept
    <3> HIDE DEF st
    <3> QED BY <3>1, <3>2
  <2>3. Finds(g) /\ (dir => IsDir(g))
    BY <1>11 DEF Finds, IsDir
  <2>4. follow_final => st.ino \notin Links
    BY <1>11 DEF must
  <2>5. c = s.cache \/ (IsDir(g) /\ c = put(s.cache, g, st.ino))
    BY <1>11 DEF IsDir
  <2>6. dir \in BOOLEAN
    OBVIOUS
  <2> HIDE DEF c, dir
  <2>7. r \in Loops
    <3> HIDE DEF g, rest, m, st
    <3> QED BY <1>1, <2>1, <2>2, <2>6 DEF Loops
  <2>8. /\ r.exists = TRUE /\ r.is_dir = dir /\ r.pending = rest /\ r.err = s.err
        /\ r.links = s.links /\ r.done = g /\ r.cache = c
    <3> HIDE DEF g, rest, m, st
    <3> QED BY <2>1 DEF Loops
  <2>9. Entered(s, r, follow_final)
    BY <2>3, <2>4, <2>5, <2>8, Zenon DEF Entered
  <2> QED BY <2>7, <2>9
<1> QED BY <1>8, <1>9, <1>10, <1>11, Zenon

\* The outcomes of a round.
Outcome(s, r, follow_final) ==
    \/ Failed(s, r) \/ Stayed(s, r) \/ WentUp(s, r) \/ Missed(s, r) \/ Opened(s, r)
    \/ Followed(s, r) \/ Entered(s, r, follow_final)

\* Every round has one of the outcomes, and leaves a loop state.
LEMMA RoundDoes ==
  ASSUME Host, NEW s \in Loops, s.pending # <<>>, s.err = "ok", Plain(s.done), NEW follow_final
  PROVE  /\ Round(s, follow_final) \in Loops
         /\ Outcome(s, Round(s, follow_final), follow_final)
<1> DEFINE comp == Head(s.pending)
           rest == Tail(s.pending)
           r == Step(s, comp, rest, follow_final)
<1>1. Round(s, follow_final) = r
  BY Zenon DEF Round
<1>2. r = Step(s, comp, rest, follow_final)
  OBVIOUS
<1>3. SUFFICES r \in Loops /\ Outcome(s, r, follow_final)
  BY <1>1
<1> HIDE DEF r
<1>4. comp \in Names /\ rest \in Seq(Names) /\ <<>> \in Seq(Names)
  BY DEF Loops
<1>5. ASSUME NEW e \in {"ENOENT", "ENOTDIR"}
      PROVE  Fail(s, e) \in Loops /\ Failed(s, Fail(s, e))
  <2>1. e \in Errors /\ e # "ok"
    BY DEF Host
  <2> QED BY <1>4, <2>1 DEF Fail, Failed, Loops
<1>6. CASE comp = "." /\ (s.is_dir \/ ~s.exists)
  <2>1. r = [s EXCEPT !.pending = rest]
    BY <1>2, <1>6, Zenon DEF Step
  <2> HIDE DEF comp, rest
  <2>2. r \in Loops
    BY <1>4, <2>1 DEF Loops
  <2>3. /\ r.pending = rest /\ r.err = s.err /\ r.links = s.links
        /\ r.done = s.done /\ r.cache = s.cache
        /\ r.exists = s.exists /\ r.is_dir = s.is_dir
    BY <2>1 DEF Loops
  <2> QED BY <2>2, <2>3, Zenon DEF Stayed, Outcome, rest
<1>7. CASE ~(comp = "." /\ (s.is_dir \/ ~s.exists)) /\ ~s.exists
  <2>1. r = Fail(s, "ENOENT")
    BY <1>2, <1>7, Zenon DEF Step
  <2> QED BY <1>5, <2>1 DEF Outcome
<1>8. CASE ~(comp = "." /\ (s.is_dir \/ ~s.exists)) /\ s.exists /\ ~s.is_dir
  <2>1. r = Fail(s, "ENOTDIR")
    BY <1>2, <1>8, Zenon DEF Step
  <2> QED BY <1>5, <2>1 DEF Outcome
<1>9. CASE comp = ".." /\ s.exists /\ s.is_dir
  <2> DEFINE d == IF s.done = <<>> THEN s.done ELSE Front(s.done)
  <2>1. r = dotdot(s, rest)
    <3>1. comp # "."
      BY <1>9
    <3> QED BY <1>2, <1>9, <3>1, Zenon DEF Step
  <2>2. dotdot(s, rest) = [s EXCEPT !.done = d, !.pending = rest, !.is_dir = TRUE]
    BY Zenon DEF dotdot
  <2>3. d \in Seq(Names)
    BY DEF Loops, Front
  <2>4. d = IF s.done = <<>> THEN <<>> ELSE Front(s.done)
    OBVIOUS
  <2> HIDE DEF d, comp, rest
  <2>5. r \in Loops
    BY <1>4, <2>1, <2>2, <2>3 DEF Loops
  <2>6. /\ r.pending = rest /\ r.err = s.err /\ r.links = s.links
        /\ r.done = d /\ r.cache = s.cache
        /\ r.exists = s.exists /\ r.is_dir = TRUE
    BY <2>1, <2>2 DEF Loops
  <2> QED BY <1>9, <2>4, <2>5, <2>6, Zenon DEF WentUp, Outcome, rest
<1>10. CASE comp \notin {".", ".."} /\ s.exists /\ s.is_dir
  <2>1. r = Component(s, Append(s.done, comp), rest, follow_final)
    BY <1>2, <1>10, Zenon DEF Step
  <2>2. Named(s)
    BY <1>10 DEF Named
  <2>3. r = Component(s, Comp(s), Tail(s.pending), follow_final)
    BY <2>1 DEF Comp
  <2> QED BY <2>2, <2>3, ComponentDoes DEF Outcome
<1> QED BY <1>6, <1>7, <1>8, <1>9, <1>10, Zenon

----------------------------------------------------------------------------
(* The loop. *)

\* The rounds are what their recursive definition says.
LEMMA RoundsAre ==
  ASSUME Host, NEW s, NEW f
  PROVE  /\ Rounds(s, f)[0] = s
         /\ \A k \in 1 .. MaxRounds : Rounds(s, f)[k] = Round(Rounds(s, f)[k - 1], f)
<1> DEFINE Fits(h, n) == h = [k \in 0 .. n |-> IF k = 0 THEN s ELSE Round(h[k - 1], f)]
           S == {n \in Nat : \E h : Fits(h, n)}
<1>0. MaxRounds \in Nat
  BY DEF Host
<1>1. 0 \in S
  <2>1. Fits([k \in 0 .. 0 |-> s], 0)
    OBVIOUS
  <2> QED BY <2>1
<1>2. ASSUME NEW n \in Nat, n \in S PROVE n + 1 \in S
  <2>1. PICK h : Fits(h, n)
    BY <1>2
  <2> DEFINE g == [k \in 0 .. n + 1 |-> IF k = n + 1 THEN Round(h[n], f) ELSE h[k]]
  <2>2. ASSUME NEW k \in 0 .. n + 1 PROVE g[k] = IF k = 0 THEN s ELSE Round(g[k - 1], f)
    <3>1. CASE k = n + 1
      BY <3>1
    <3>2. CASE k = 0
      BY <2>1, <3>2
    <3>3. CASE k \in 1 .. n
      <4>1. h[k] = Round(h[k - 1], f)
        BY <2>1, <3>3
      <4>2. g[k] = h[k] /\ g[k - 1] = h[k - 1]
        BY <3>3
      <4> QED BY <3>3, <4>1, <4>2
    <3> QED BY <3>1, <3>2, <3>3
  <2>3. Fits(g, n + 1)
    BY <2>2
  <2>4. \E h2 : Fits(h2, n + 1)
    <3> HIDE DEF g
    <3> WITNESS g
    <3> QED BY <2>3
  <2> QED BY <2>4
<1>3. \A n \in Nat : n \in S
  <2> HIDE DEF S
  <2> TAKE n \in Nat
  <2>1. \A k \in 0 .. n - 1 : k \in S => k + 1 \in S
    BY <1>2
  <2> QED BY <1>1, <2>1, UpTo
<1>4. \E h : Fits(h, MaxRounds)
  BY <1>0, <1>3
<1>5. Fits(Rounds(s, f), MaxRounds)
  BY <1>4 DEF Rounds
<1> QED BY <1>0, <1>5

\* The loop's own invariant: a path of names was walked so far, and a failure ends it.
InLoop(s) == s \in Loops /\ Plain(s.done) /\ (s.err = "ok" \/ s.pending = <<>>)

\* A round at nothing pending changes nothing.
LEMMA RoundRests ==
  ASSUME NEW s, NEW f, s.pending = <<>>
  PROVE  Round(s, f) = s
BY DEF Round

\* A round keeps the loop's invariant,
LEMMA RoundStays ==
  ASSUME Host, NEW s, InLoop(s), NEW f
  PROVE  InLoop(Round(s, f))
<1>1. CASE s.pending = <<>>
  BY <1>1, RoundRests
<1>2. CASE s.pending # <<>>
  <2> DEFINE r == Round(s, f)
  <2>1. s \in Loops /\ Plain(s.done) /\ s.err = "ok"
    BY <1>2 DEF InLoop
  <2>2. r \in Loops /\ Outcome(s, r, f)
    BY <1>2, <2>1, RoundDoes
  <2>0. SUFFICES InLoop(r)
    OBVIOUS
  <2> HIDE DEF r
  <2>3. Named(s) => Plain(Comp(s))
    BY <1>2, <2>1 DEF Loops, Comp, Plain, Named
  <2>4. Plain(<<>>)
    BY DEF Plain
  <2>5. s.done # <<>> => Plain(Front(s.done))
    BY <2>1 DEF Front, Plain
  <2>6. CASE Failed(s, r)
    BY <2>1, <2>2, <2>6 DEF Failed, InLoop
  <2>7. CASE Stayed(s, r)
    BY <2>1, <2>2, <2>7 DEF Stayed, InLoop
  <2>8. CASE WentUp(s, r)
    BY <2>1, <2>2, <2>4, <2>5, <2>8 DEF WentUp, InLoop
  <2>9. CASE Missed(s, r)
    BY <2>1, <2>2, <2>3, <2>9 DEF Missed, InLoop
  <2>10. CASE Opened(s, r)
    BY <2>1, <2>2, <2>3, <2>10 DEF Opened, InLoop
  <2>11. CASE Followed(s, r)
    BY <2>1, <2>2, <2>4, <2>11 DEF Followed, InLoop
  <2>12. CASE Entered(s, r, f)
    BY <2>1, <2>2, <2>3, <2>12 DEF Entered, InLoop
  <2> QED BY <2>2, <2>6, <2>7, <2>8, <2>9, <2>10, <2>11, <2>12 DEF Outcome
<1> QED BY <1>1, <1>2

\* and so do all of them.
LEMMA RoundsStay ==
  ASSUME Host, NEW s, InLoop(s), NEW f
  PROVE  \A k \in 0 .. MaxRounds : InLoop(Rounds(s, f)[k])
<1> DEFINE at == Rounds(s, f)
           S == {k \in Nat : k \in 0 .. MaxRounds => InLoop(at[k])}
<1>0. MaxRounds \in Nat
  BY DEF Host
<1>1. at[0] = s /\ \A k \in 1 .. MaxRounds : at[k] = Round(at[k - 1], f)
  BY RoundsAre
<1> HIDE DEF at
<1>2. 0 \in S
  BY <1>1
<1>3. ASSUME NEW k \in 0 .. MaxRounds - 1, k \in S PROVE k + 1 \in S
  <2>1. InLoop(at[k])
    BY <1>0, <1>3
  <2>2. InLoop(Round(at[k], f))
    BY <2>1, RoundStays
  <2> DEFINE n == k + 1
  <2>3. n \in 1 .. MaxRounds /\ n - 1 = k
    BY <1>0
  <2> HIDE DEF n
  <2>4. at[n] = Round(at[k], f)
    BY <1>1, <2>3
  <2> QED BY <2>2, <2>3, <2>4 DEF n
<1>4. \A k \in 0 .. MaxRounds : k \in S
  <2> HIDE DEF S
  <2> QED BY <1>0, <1>2, <1>3, UpTo
<1> QED BY <1>0, <1>4 DEF at

----------------------------------------------------------------------------
(* Where the loop starts. *)

Hits(c, parts) == {g \in DOMAIN c : is_below(parts, g) /\ Len(g) < Len(parts)}
From(c, parts) == cache_start(c, parts, Hits(c, parts))
Start(from, parts, slash) ==
    [pending |-> suffix_after(parts, from.done) \o (IF slash THEN <<".">> ELSE <<>>),
     done |-> from.done, links |-> 0, exists |-> TRUE, is_dir |-> TRUE,
     magic |-> FALSE, err |-> "ok", cache |-> from.cache]

\* resolve() is the result of the loop from there.
LEMMA ResolveIs ==
  ASSUME NEW parts, NEW slash, NEW f, NEW c
  PROVE  resolve(parts, slash, f, c) = Resolved(Walk(Start(From(c, parts), parts, slash), f))
BY Zenon DEF resolve, walk_from, begin_at, Start, Slash, From, Hits

\* Keys of a cache are paths of names.
LEMMA KeysPlain ==
  ASSUME NEW c \in Caches
  PROVE  \A g \in DOMAIN c : g \in Seq(Names) /\ Plain(g) /\ c[g] \in Dirs
<1>1. PICK D \in SUBSET {h \in Seq(Names) : Plain(h)} : c \in [D -> Dirs]
  BY DEF Caches
<1> QED BY <1>1

\* The loop starts at the root, or at a cached directory above the path that still is one.
LEMMA StartIs ==
  ASSUME Host, NEW c \in Caches, NEW parts \in Seq(Names)
  PROVE  LET from == From(c, parts) IN
         /\ from.cache \in Caches /\ DOMAIN from.cache \subseteq DOMAIN c
         /\ from.done = <<>> \/ /\ from.done \in DOMAIN c /\ is_below(parts, from.done)
                                /\ Len(from.done) < Len(parts) /\ IsDir(from.done)
<1> DEFINE hits == Hits(c, parts)
           from == From(c, parts)
<1>1. CASE hits = {} \/ Contains(parts, "..")
  <2>1. from = [done |-> <<>>, cache |-> c]
    BY <1>1, Zenon DEF From, cache_start
  <2> QED BY <2>1
<1>2. CASE hits # {} /\ ~Contains(parts, "..")
  <2> DEFINE g == CHOOSE h \in hits : \A i \in hits : Len(i) <= Len(h)
             S == {Len(h) : h \in hits}
  <2>1. from = start_at(c, g)
    BY <1>2, Zenon DEF From, cache_start
  <2>2. \A h \in hits : h \in DOMAIN c /\ is_below(parts, h) /\ Len(h) < Len(parts)
    BY DEF Hits
  <2>3. \A h \in hits : Len(h) \in 0 .. Len(parts)
    BY <2>2, KeysPlain
  <2> HIDE DEF hits
  <2>4. PICK x \in S : \A y \in S : y <= x
    <3>1. PICK h \in hits : TRUE
      BY <1>2
    <3>2. Len(h) \in S
      OBVIOUS
    <3>3. \A y \in S : y \in 0 .. Len(parts)
      BY <2>3
    <3> HIDE DEF S
    <3>4. S \in SUBSET (0 .. Len(parts)) /\ S # {} /\ Len(parts) \in Nat
      BY <3>2, <3>3
    <3> QED BY <3>4, GreatestExists
  <2>5. \E h \in hits : \A i \in hits : Len(i) <= Len(h)
    BY <2>4
  <2>6. g \in hits
    BY <2>5
  <2>7. g \in DOMAIN c /\ is_below(parts, g) /\ Len(g) < Len(parts)
    BY <2>2, <2>6
  <2> HIDE DEF g
  <2>8. g \in Seq(Names) /\ c[g] \in Dirs
    BY <2>7, KeysPlain
  <2>9. CASE still_there(c, g)
    <3>1. from = [done |-> g, cache |-> c]
      BY <2>1, <2>9, Zenon DEF start_at
    <3>2. At(g).ino \in Dirs
      BY <2>8, <2>9 DEF still_there, At
    <3>3. to_host(g) \in Seq(Names)
      BY <2>8, ToHost
    <3>4. IsDir(g)
      BY <3>2, <3>3 DEF Host, IsDir, At
    <3> QED BY <2>7, <3>1, <3>4
  <2>10. CASE ~still_there(c, g)
    <3>1. from = [done |-> <<>>, cache |-> drop(c, g)]
      BY <2>1, <2>10, Zenon DEF start_at
    <3>2. drop(c, g) \in Caches
      BY CacheKept
    <3>3. DOMAIN drop(c, g) \subseteq DOMAIN c
      BY DEF drop
    <3> QED BY <3>1, <3>2, <3>3
  <2> QED BY <2>9, <2>10
<1> QED BY <1>1, <1>2

\* The invariant holds at the start.
LEMMA StartInLoop ==
  ASSUME Host, NEW c \in Caches, NEW parts \in Seq(Names), NEW slash
  PROVE  InLoop(Start(From(c, parts), parts, slash))
<1> DEFINE from == From(c, parts)
           dot == IF slash THEN <<".">> ELSE <<>>
           todo == suffix_after(parts, from.done)
           s == Start(from, parts, slash)
<1>1. from.cache \in Caches /\ (from.done = <<>> \/ from.done \in DOMAIN c)
  BY StartIs
<1>2. Plain(from.done) /\ from.done \in Seq(Names)
  <2>1. Plain(<<>>) /\ <<>> \in Seq(Names)
    BY DEF Plain
  <2> QED BY <1>1, <2>1, KeysPlain
<1>3. dot \in Seq(Names)
  <2>1. "." \in Names
    BY DEF Host
  <2>2. <<".">> \in Seq(Names) /\ <<>> \in Seq(Names)
    BY <2>1
  <2> QED BY <2>2
<1>4. todo \in Seq(Names)
  BY <1>2 DEF suffix_after
<1>5. todo \o dot \in Seq(Names)
  <2> HIDE DEF todo, dot
  <2> QED BY <1>3, <1>4
<1>6. s = [pending |-> todo \o dot, done |-> from.done, links |-> 0, exists |-> TRUE,
           is_dir |-> TRUE, magic |-> FALSE, err |-> "ok", cache |-> from.cache]
  BY DEF Start
<1>7. "ok" \in Errors
  BY DEF Host
<1> HIDE DEF todo, dot, from, s
<1>8. s \in Loops
  BY <1>1, <1>2, <1>5, <1>6, <1>7 DEF Loops
<1>9. s.done = from.done /\ s.err = "ok"
  BY <1>6
<1>10. InLoop(s)
  BY <1>2, <1>8, <1>9 DEF InLoop
<1> QED BY <1>10 DEF s, from

----------------------------------------------------------------------------
(* Where a lookup leads. *)

\* Whatever the guest asks for and whatever links the host's files hold, resolve() comes
\* to a path of plain names: on the host, to the place of the innermost mount above it
\* followed by plain names, with no ".." left for the kernel to take out of it.  What it
\* caches are directories under such paths.
THEOREM ResolvesInside ==
  ASSUME Host, NEW parts \in Seq(Names), NEW slash, NEW follow_final, NEW c \in Caches
  PROVE  LET r == resolve(parts, slash, follow_final, c) IN
         /\ Plain(r.guest) /\ r.cache \in Caches
         /\ r.mount \in Mounts /\ is_below(r.guest, r.mount.guest)
         /\ \A m \in Mounts : is_below(r.guest, m.guest) => Len(m.guest) <= Len(r.mount.guest)
         /\ \E names : Plain(names) /\ r.host = r.mount.host \o names
<1> DEFINE s == Start(From(c, parts), parts, slash)
           w == Walk(s, follow_final)
           r == resolve(parts, slash, follow_final, c)
           m == mount_for_guest(w.done)
           names == suffix_after(w.done, m.guest)
<1>1. InLoop(w)
  <2>1. MaxRounds \in 0 .. MaxRounds
    BY DEF Host
  <2>2. InLoop(s)
    BY StartInLoop
  <2> QED BY <2>1, <2>2, RoundsStay DEF Walk
<1>2. r = Resolved(w)
  BY ResolveIs
<1> HIDE DEF w, r
<1>3. /\ r.guest = w.done /\ r.host = Below(m, w.done) /\ r.mount = m /\ r.cache = w.cache
  BY <1>2 DEF Resolved, to_host
<1>4. Plain(w.done) /\ w.done \in Seq(Names) /\ w.cache \in Caches
  BY <1>1 DEF InLoop, Loops
<1>5. /\ m \in Mounts /\ is_below(w.done, m.guest)
      /\ \A n \in Mounts : is_below(w.done, n.guest) => Len(n.guest) <= Len(m.guest)
  BY <1>4, MountFor
<1>6. Plain(names)
  <2>1. m.guest \in Seq(Names)
    BY <1>5 DEF Host
  <2> HIDE DEF m
  <2>2. Len(m.guest) <= Len(w.done)
    BY <1>5 DEF is_below, IsPrefix
  <2> QED BY <1>4, <2>1, <2>2 DEF suffix_after, Plain
<1>7. r.host = r.mount.host \o names
  BY <1>3 DEF Below
<1> HIDE DEF m, names
<1>8. \E x : Plain(x) /\ r.host = r.mount.host \o x
  BY <1>6, <1>7
<1> QED BY <1>3, <1>4, <1>5, <1>8 DEF r

----------------------------------------------------------------------------
(* What a lookup leads through. *)

\* Every directory above g is one.
Way(g) == \A k \in 1 .. Len(g) - 1 : IsDir(SubSeq(g, 1, k))

\* A cache whose entries' parents still are directories, as they were when it was filled.
Honest(c) == \A g \in DOMAIN c : Way(g)

\* The loop has come to an object, to a directory, and not to a link it should have followed.
Reached(s, f) ==
    s.done # <<>> =>
       /\ s.exists <=> Finds(s.done)
       /\ s.is_dir => IsDir(s.done)
       /\ f => (At(s.done).ino \notin Links \/ mount_for_guest(s.done).kind = "proc")
OnWay(s, f) == Honest(s.cache) /\ (s.err = "ok" => Way(s.done) /\ Reached(s, f))

\* A directory exists and is no link.
LEMMA DirsAre ==
  ASSUME Host, NEW g, IsDir(g)
  PROVE  Finds(g) /\ At(g).ino \notin Links
BY DEF Host, IsDir, Finds

\* ".." leads from a path of directories to a directory.
LEMMA WayUp ==
  ASSUME NEW g \in Seq(Names), g # <<>>, Way(g)
  PROVE  Way(Front(g)) /\ (Front(g) # <<>> => IsDir(Front(g)))
<1>1. /\ Front(g) \in Seq(Names) /\ Len(Front(g)) = Len(g) - 1
      /\ \A k \in 1 .. Len(g) - 1 : SubSeq(Front(g), 1, k) = SubSeq(g, 1, k)
  BY DEF Front
<1>2. Front(g) # <<>> => Front(g) = SubSeq(g, 1, Len(g) - 1) /\ Len(g) - 1 \in 1 .. Len(g) - 1
  BY <1>1 DEF Front
<1>3. Len(g) \in Nat
  OBVIOUS
<1>4. ASSUME NEW k \in 1 .. Len(Front(g)) - 1 PROVE IsDir(SubSeq(Front(g), 1, k))
  <2>1. k \in 1 .. Len(g) - 1
    BY <1>1, <1>3
  <2> QED BY <1>1, <2>1 DEF Way
<1>5. Front(g) # <<>> => IsDir(Front(g))
  BY <1>2 DEF Way
<1> QED BY <1>4, <1>5 DEF Way

\* A name below a directory has directories above it.
LEMMA WayDown ==
  ASSUME NEW g \in Seq(Names), NEW n \in Names, Way(g), g # <<>> => IsDir(g)
  PROVE  Way(Append(g, n))
<1> DEFINE h == Append(g, n)
<1>1. Len(h) = Len(g) + 1
  OBVIOUS
<1>2. SUFFICES ASSUME NEW k \in 1 .. Len(g) PROVE IsDir(SubSeq(h, 1, k))
  BY <1>1 DEF Way
<1>3. SubSeq(h, 1, k) = SubSeq(g, 1, k)
  OBVIOUS
<1>4. CASE k = Len(g)
  <2>1. SubSeq(g, 1, k) = g /\ g # <<>>
    BY <1>4
  <2> QED BY <1>3, <2>1
<1>5. CASE k # Len(g)
  <2>1. k \in 1 .. Len(g) - 1
    BY <1>5
  <2> QED BY <1>3, <2>1 DEF Way
<1> QED BY <1>4, <1>5

\* An entry made at the end of such a path keeps the cache honest.
LEMMA PutHonest ==
  ASSUME NEW c, Honest(c), NEW g, Way(g), NEW i
  PROVE  Honest(put(c, g, i))
<1>1. DOMAIN put(c, g, i) \subseteq DOMAIN c \cup {g}
  BY DEF put
<1> QED BY <1>1 DEF Honest

\* A round stays on the way,
LEMMA RoundOnWay ==
  ASSUME Host, NEW s, InLoop(s), NEW f, OnWay(s, f)
  PROVE  OnWay(Round(s, f), f)
<1>1. CASE s.pending = <<>>
  BY <1>1, RoundRests
<1>2. CASE s.pending # <<>>
  <2> DEFINE r == Round(s, f)
  <2>1. s \in Loops /\ Plain(s.done) /\ s.err = "ok"
    BY <1>2 DEF InLoop
  <2>2. r \in Loops /\ Outcome(s, r, f)
    BY <1>2, <2>1, RoundDoes
  <2>0. SUFFICES OnWay(r, f)
    OBVIOUS
  <2> HIDE DEF r
  <2>3. Honest(s.cache) /\ Way(s.done) /\ Reached(s, f)
    BY <2>1 DEF OnWay
  <2>4. s.done \in Seq(Names) /\ Head(s.pending) \in Names
    BY <1>2, <2>1 DEF Loops
  <2>5. s.is_dir /\ s.done # <<>> => IsDir(s.done)
    BY <2>3 DEF Reached
  <2>6. Named(s) => Way(Comp(s)) /\ Comp(s) # <<>>
    <3>1. SUFFICES ASSUME Named(s) PROVE Way(Comp(s)) /\ Comp(s) # <<>>
      OBVIOUS
    <3>2. s.done # <<>> => IsDir(s.done)
      BY <2>5, <3>1 DEF Named
    <3> QED BY <2>3, <2>4, <3>2, WayDown DEF Comp
  <2>7. Way(<<>>)
    BY DEF Way
  <2>8. CASE Failed(s, r)
    BY <2>3, <2>8 DEF Failed, OnWay
  <2>9. CASE Stayed(s, r)
    BY <2>3, <2>9 DEF Stayed, OnWay, Reached
  <2>10. CASE WentUp(s, r)
    <3>1. r.cache = s.cache /\ r.exists /\ r.is_dir
      BY <2>10 DEF WentUp
    <3>2. CASE s.done = <<>>
      <4>1. r.done = <<>>
        BY <2>10, <3>2 DEF WentUp
      <4> QED BY <2>3, <2>7, <3>1, <4>1 DEF OnWay, Reached
    <3>3. CASE s.done # <<>>
      <4>1. r.done = Front(s.done)
        BY <2>10, <3>3 DEF WentUp
      <4>2. Way(r.done) /\ (r.done # <<>> => IsDir(r.done))
        BY <2>3, <2>4, <3>3, <4>1, WayUp
      <4>3. r.done # <<>> => Finds(r.done) /\ At(r.done).ino \notin Links
        BY <4>2, DirsAre
      <4> QED BY <2>3, <3>1, <4>2, <4>3 DEF OnWay, Reached
    <3> QED BY <3>2, <3>3
  <2>11. CASE Missed(s, r)
    <3>1. r.cache = s.cache /\ ~r.exists /\ ~r.is_dir /\ r.done = Comp(s) /\ Way(r.done) /\ ~Finds(r.done)
      BY <2>6, <2>11 DEF Missed
    <3>2. At(r.done).ino \notin Links
      <4>1. r.done \in Seq(Names)
        BY <2>2 DEF Loops
      <4>2. to_host(r.done) \in Seq(Names)
        BY <4>1, ToHost
      <4> QED BY <3>1, <4>2 DEF Finds, At, Host
    <3> QED BY <2>3, <3>1, <3>2 DEF OnWay, Reached
  <2>12. CASE Opened(s, r)
    BY <2>3, <2>6, <2>12 DEF Opened, OnWay, Reached
  <2>13. CASE Followed(s, r)
    <3>1. r.cache = s.cache /\ r.exists /\ r.is_dir /\ r.done \in {s.done, <<>>} /\ s.is_dir
      BY <2>13 DEF Followed, Named
    <3>2. Way(r.done)
      BY <2>3, <2>7, <3>1
    <3>3. r.done # <<>> => IsDir(r.done)
      BY <2>5, <3>1
    <3>4. r.done # <<>> => Finds(r.done) /\ At(r.done).ino \notin Links
      BY <3>3, DirsAre
    <3> QED BY <2>3, <3>1, <3>2, <3>3, <3>4 DEF OnWay, Reached
  <2>14. CASE Entered(s, r, f)
    <3>1. /\ r.exists /\ r.done = Comp(s) /\ Way(r.done) /\ Finds(r.done)
          /\ r.is_dir => IsDir(r.done)
          /\ f => At(r.done).ino \notin Links
      BY <2>6, <2>14 DEF Entered
    <3>2. Honest(r.cache)
      <4>1. r.cache = s.cache \/ r.cache = put(s.cache, Comp(s), At(Comp(s)).ino)
        BY <2>14 DEF Entered
      <4>2. Way(Comp(s))
        BY <3>1
      <4>3. Honest(put(s.cache, Comp(s), At(Comp(s)).ino))
        BY <2>3, <4>2, PutHonest
      <4> QED BY <2>3, <4>1, <4>3
    <3> QED BY <3>1, <3>2 DEF OnWay, Reached
  <2> QED BY <2>2, <2>8, <2>9, <2>10, <2>11, <2>12, <2>13, <2>14 DEF Outcome
<1> QED BY <1>1, <1>2

\* and so do all of them.
LEMMA RoundsOnWay ==
  ASSUME Host, NEW s, InLoop(s), NEW f, OnWay(s, f)
  PROVE  \A k \in 0 .. MaxRounds : OnWay(Rounds(s, f)[k], f)
<1> DEFINE at == Rounds(s, f)
           S == {k \in Nat : k \in 0 .. MaxRounds => OnWay(at[k], f)}
<1>0. MaxRounds \in Nat
  BY DEF Host
<1>1. at[0] = s /\ \A k \in 1 .. MaxRounds : at[k] = Round(at[k - 1], f)
  BY RoundsAre
<1>2. \A k \in 0 .. MaxRounds : InLoop(at[k])
  BY RoundsStay
<1> HIDE DEF at
<1>3. 0 \in S
  BY <1>1
<1>4. ASSUME NEW k \in 0 .. MaxRounds - 1, k \in S PROVE k + 1 \in S
  <2>1. InLoop(at[k]) /\ OnWay(at[k], f)
    BY <1>0, <1>2, <1>4
  <2>2. OnWay(Round(at[k], f), f)
    BY <2>1, RoundOnWay
  <2> DEFINE n == k + 1
  <2>3. n \in 1 .. MaxRounds /\ n - 1 = k
    BY <1>0
  <2> HIDE DEF n
  <2>4. at[n] = Round(at[k], f)
    BY <1>1, <2>3
  <2> QED BY <2>2, <2>3, <2>4 DEF n
<1>5. \A k \in 0 .. MaxRounds : k \in S
  <2> HIDE DEF S
  <2> QED BY <1>0, <1>3, <1>4, UpTo
<1> QED BY <1>0, <1>5 DEF at

\* Below the innermost mount above g, the prefixes of g are mapped like g.
LEMMA SameMount ==
  ASSUME Host, NEW g \in Seq(Names), NEW k \in Nat,
         Len(mount_for_guest(g).guest) <= k, k <= Len(g)
  PROVE  to_host(SubSeq(g, 1, k)) =
            mount_for_guest(g).host
            \o SubSeq(suffix_after(g, mount_for_guest(g).guest), 1, k - Len(mount_for_guest(g).guest))
<1> DEFINE p == SubSeq(g, 1, k)
           m == mount_for_guest(g)
           ms(x) == {n \in Mounts : is_below(x, n.guest)}
           best(x) == {a \in ms(x) : \A b \in ms(x) : Len(b.guest) <= Len(a.guest)}
<1>1. /\ m \in Mounts /\ is_below(g, m.guest)
      /\ \A n \in Mounts : is_below(g, n.guest) => Len(n.guest) <= Len(m.guest)
  BY MountFor
<1>2. \A n \in Mounts : n.guest \in Seq(Names) /\ Len(n.guest) \in Nat
  BY DEF Host
<1>3. \A x : mount_for_guest(x) = CHOOSE a \in best(x) : TRUE
  BY DEF mount_for_guest, Longest
<1> HIDE DEF m
<1>4. p \in Seq(Names) /\ Len(p) = k /\ \A j \in 0 .. k : SubSeq(p, 1, j) = SubSeq(g, 1, j)
  OBVIOUS
<1>5. ASSUME NEW n \in Mounts PROVE is_below(p, n.guest) <=> is_below(g, n.guest)
  <2>1. n.guest \in Seq(Names) /\ Len(n.guest) \in Nat
    BY <1>2
  <2>2. is_below(p, n.guest) => is_below(g, n.guest)
    BY <1>4, <2>1 DEF is_below, IsPrefix
  <2>3. is_below(g, n.guest) => Len(n.guest) \in 0 .. k
    BY <1>1, <1>2, <2>1 DEF m
  <2>4. is_below(g, n.guest) => is_below(p, n.guest)
    BY <1>4, <2>1, <2>3 DEF is_below, IsPrefix
  <2> QED BY <2>2, <2>4
<1>6. ms(p) = ms(g)
  <2> HIDE DEF p
  <2> QED BY <1>5
<1>7. mount_for_guest(p) = m
  <2>1. best(p) = best(g)
    <3> HIDE DEF ms
    <3> QED BY <1>6
  <2>2. mount_for_guest(p) = CHOOSE a \in best(p) : TRUE
    BY <1>3
  <2>3. mount_for_guest(g) = CHOOSE a \in best(g) : TRUE
    BY <1>3
  <2> HIDE DEF best, p
  <2> QED BY <2>1, <2>2, <2>3 DEF m
<1>8. to_host(p) = m.host \o suffix_after(p, m.guest)
  <2> HIDE DEF p
  <2> QED BY <1>7 DEF to_host, Below
<1>9. suffix_after(p, m.guest) = SubSeq(suffix_after(g, m.guest), 1, k - Len(m.guest))
  <2> DEFINE l == Len(m.guest)
  <2>1. l \in Nat /\ l <= k /\ k <= Len(g)
    BY <1>1, <1>2 DEF m
  <2> HIDE DEF l
  <2>2. SubSeq(SubSeq(g, 1, k), l + 1, k) = SubSeq(SubSeq(g, l + 1, Len(g)), 1, k - l)
    BY <2>1
  <2> QED BY <1>4, <2>2 DEF suffix_after, l
<1> QED BY <1>8, <1>9 DEF m

\* A lookup that succeeds leaves no link on the way: whatever stands above the guest path
\* it comes to, and in the host path below the mount's place, is a directory, so that the
\* kernel, given the host path, follows nothing there.  The object is there exactly if the
\* host has one; with follow_final it is no symlink but one of /proc's own.  The cache is
\* left as good as it was.
THEOREM NoLinkOnTheWay ==
  ASSUME Host, NEW parts \in Seq(Names), NEW slash, NEW follow_final, NEW c \in Caches, Honest(c)
  PROVE  LET r == resolve(parts, slash, follow_final, c) IN
         /\ Honest(r.cache)
         /\ r.err = "ok" =>
              /\ \A k \in 1 .. Len(r.guest) - 1 : IsDir(SubSeq(r.guest, 1, k))
              /\ \E names : /\ r.host = r.mount.host \o names
                            /\ \A k \in 1 .. Len(names) - 1 :
                                  lstat(r.mount.host \o SubSeq(names, 1, k)).ino \in Dirs
              /\ r.guest # <<>> =>
                   /\ r.exists <=> Finds(r.guest)
                   /\ follow_final => (At(r.guest).ino \notin Links \/ r.mount.kind = "proc")
<1> DEFINE from == From(c, parts)
           s == Start(from, parts, slash)
           w == Walk(s, follow_final)
           r == resolve(parts, slash, follow_final, c)
<1>1. InLoop(s)
  BY StartInLoop
<1>2. OnWay(s, follow_final)
  <2>1. /\ s.done = from.done /\ s.cache = from.cache /\ s.exists = TRUE
    BY DEF Start
  <2>2. /\ DOMAIN from.cache \subseteq DOMAIN c
        /\ from.done = <<>> \/ (from.done \in DOMAIN c /\ IsDir(from.done))
    BY StartIs
  <2> HIDE DEF s, from
  <2>3. Honest(s.cache)
    BY <2>1, <2>2 DEF Honest
  <2>4. Way(s.done)
    <3>1. Way(<<>>)
      BY DEF Way
    <3> QED BY <2>1, <2>2, <3>1 DEF Honest
  <2>5. s.done # <<>> => IsDir(s.done) /\ Finds(s.done) /\ At(s.done).ino \notin Links
    BY <2>1, <2>2, DirsAre
  <2> QED BY <2>1, <2>3, <2>4, <2>5 DEF OnWay, Reached
<1>3. OnWay(w, follow_final)
  <2>1. MaxRounds \in 0 .. MaxRounds
    BY DEF Host
  <2> QED BY <1>1, <1>2, <2>1, RoundsOnWay DEF Walk
<1>4. r = Resolved(w)
  BY ResolveIs
<1> HIDE DEF w, r
<1>5. /\ r.guest = w.done /\ r.mount = mount_for_guest(w.done) /\ r.cache = w.cache
      /\ r.err = w.err /\ r.exists = w.exists /\ r.host = to_host(w.done)
  BY <1>4 DEF Resolved
<1> DEFINE m == mount_for_guest(w.done)
           names == suffix_after(w.done, m.guest)
<1>6. r.err = "ok" => \A k \in 1 .. Len(names) - 1 : lstat(m.host \o SubSeq(names, 1, k)).ino \in Dirs
  <2>1. SUFFICES ASSUME r.err = "ok", NEW k \in 1 .. Len(names) - 1
                 PROVE  lstat(m.host \o SubSeq(names, 1, k)).ino \in Dirs
    OBVIOUS
  <2>2. w.done \in Seq(Names)
    <3>1. MaxRounds \in 0 .. MaxRounds
      BY DEF Host
    <3>2. InLoop(w)
      BY <1>1, <3>1, RoundsStay DEF w, Walk
    <3> QED BY <3>2 DEF InLoop, Loops
  <2>3. m.guest \in Seq(Names) /\ Len(m.guest) <= Len(w.done)
    BY <2>2, MountFor DEF Host, is_below, IsPrefix
  <2> DEFINE j == Len(m.guest) + k
  <2>4. j \in 1 .. Len(w.done) - 1 /\ j \in Nat /\ Len(m.guest) <= j /\ j <= Len(w.done)
        /\ j - Len(m.guest) = k
    <3> DEFINE l == Len(m.guest)
    <3>1. l \in Nat /\ l <= Len(w.done) /\ Len(w.done) \in Nat
      BY <2>2, <2>3
    <3>2. names = SubSeq(w.done, l + 1, Len(w.done))
      BY DEF suffix_after
    <3>3. j = l + k
      OBVIOUS
    <3> HIDE DEF l, names, j
    <3>4. Len(names) = Len(w.done) - l
      BY <2>2, <3>1, <3>2
    <3>5. j \in 1 .. Len(w.done) - 1 /\ j \in Nat /\ l <= j /\ j <= Len(w.done) /\ j - l = k
      BY <3>1, <3>3, <3>4
    <3> QED BY <3>5 DEF l
  <2> HIDE DEF j
  <2>5. to_host(SubSeq(w.done, 1, j)) = m.host \o SubSeq(names, 1, k)
    BY <2>2, <2>4, SameMount
  <2>6. IsDir(SubSeq(w.done, 1, j))
    BY <1>3, <1>5, <2>1, <2>4 DEF OnWay, Way
  <2> QED BY <2>5, <2>6 DEF IsDir, At
<1>7. r.host = m.host \o names
  BY <1>5 DEF to_host, Below
<1> HIDE DEF names
<1>8. r.err = "ok" => \E x : /\ r.host = r.mount.host \o x
                             /\ \A k \in 1 .. Len(x) - 1 : lstat(r.mount.host \o SubSeq(x, 1, k)).ino \in Dirs
  BY <1>5, <1>6, <1>7
<1> QED BY <1>3, <1>5, <1>8 DEF OnWay, Way, Reached, r

----------------------------------------------------------------------------
(* That a lookup ends. *)

\* No link stands for more than L names.
LinksWithin(L) == \A i \in Links, m \in Mounts : Len(Onward(target_of(i, m))) <= L

\* What is pending, and may still be put in its place.
Fuel(s, L) == Len(s.pending) + (MaxSymlinks - s.links) * L

\* A round at a pending component spends fuel.
LEMMA RoundSpends ==
  ASSUME Host, NEW L \in Nat, LinksWithin(L), NEW s, InLoop(s), s.links <= MaxSymlinks,
         s.pending # <<>>, NEW f
  PROVE  LET r == Round(s, f) IN
         r.links <= MaxSymlinks /\ (r.pending = <<>> \/ Fuel(r, L) + 1 <= Fuel(s, L))
<1> DEFINE r == Round(s, f)
<1>1. s \in Loops /\ Plain(s.done) /\ s.err = "ok"
  BY DEF InLoop
<1>2. r \in Loops /\ Outcome(s, r, f)
  BY <1>1, RoundDoes
<1>3. SUFFICES r.links <= MaxSymlinks /\ (r.pending = <<>> \/ Fuel(r, L) + 1 <= Fuel(s, L))
  OBVIOUS
<1> HIDE DEF r
<1>4. MaxSymlinks \in Nat /\ s.links \in Nat /\ s.pending \in Seq(Names) /\ Len(s.pending) \in Nat \ {0}
  BY <1>1 DEF Loops, Host
<1>5. CASE Followed(s, r)
  <2>1. At(Comp(s)).ino \in Links /\ r.pending = Onward(LinkAt(Comp(s))) \o Tail(s.pending)
    BY <1>5 DEF Followed
  <2> DEFINE p == Onward(LinkAt(Comp(s)))
  <2>2. p \in Seq(Names) /\ Len(p) <= L
    <3>1. Comp(s) \in Seq(Names)
      BY <1>1 DEF Loops, Comp
    <3> QED BY <2>1, <3>1, TargetIs, OnwardIs, MountFor DEF LinksWithin, LinkAt
  <2>r. r.pending = p \o Tail(s.pending)
    BY <2>1
  <2> HIDE DEF p
  <2>3. Len(r.pending) = Len(p) + Len(s.pending) - 1
    <3>1. Tail(s.pending) \in Seq(Names) /\ Len(Tail(s.pending)) = Len(s.pending) - 1
      BY <1>4
    <3>2. Len(r.pending) = Len(p) + Len(Tail(s.pending))
      BY <2>2, <2>r, <3>1
    <3> QED BY <1>4, <2>2, <3>1, <3>2
  <2>4. r.links = s.links + 1 /\ s.links # MaxSymlinks
    BY <1>5 DEF Followed
  <2> DEFINE a == MaxSymlinks - s.links
  <2>5. a \in Nat /\ MaxSymlinks - r.links = a - 1 /\ r.links <= MaxSymlinks
    BY <1>4, <2>4
  <2> HIDE DEF a
  <2>6. (a - 1) * L = a * L - L /\ a * L \in Nat
    BY <2>5
  <2>7. Fuel(r, L) = Len(r.pending) + (a * L - L)
    BY <2>5, <2>6 DEF Fuel
  <2>8. Fuel(s, L) = Len(s.pending) + a * L
    BY DEF Fuel, a
  <2>9. Len(p) \in Nat
    BY <2>2
  <2> DEFINE b == a * L
  <2> HIDE DEF b
  <2>10. Fuel(r, L) + 1 <= Fuel(s, L)
    BY <1>4, <2>2, <2>3, <2>6, <2>7, <2>8, <2>9 DEF b
  <2> QED BY <2>5, <2>10
<1>6. CASE r.links = s.links /\ r.pending \in {<<>>, Tail(s.pending)}
  <2>1. Len(Tail(s.pending)) = Len(s.pending) - 1
    BY <1>4
  <2> DEFINE a == (MaxSymlinks - s.links) * L
  <2>2. a \in Int
    BY <1>4
  <2>3. r.pending = Tail(s.pending) => Fuel(r, L) = Len(s.pending) - 1 + a /\ Fuel(s, L) = Len(s.pending) + a
    BY <1>6, <2>1 DEF Fuel
  <2> HIDE DEF a
  <2>4. r.pending = Tail(s.pending) => Fuel(r, L) + 1 <= Fuel(s, L)
    BY <1>4, <2>2, <2>3
  <2> QED BY <1>6, <2>4
<1> QED BY <1>2, <1>5, <1>6 DEF Outcome, Failed, Stayed, WentUp, Missed, Opened, Entered

\* After k rounds nothing is pending, or k has been spent.
LEMMA RoundsSpend ==
  ASSUME Host, NEW L \in Nat, LinksWithin(L), NEW s, InLoop(s), s.links <= MaxSymlinks, NEW f
  PROVE  \A k \in 0 .. MaxRounds :
            /\ Rounds(s, f)[k].links <= MaxSymlinks
            /\ Rounds(s, f)[k].pending = <<>> \/ Fuel(Rounds(s, f)[k], L) + k <= Fuel(s, L)
<1> DEFINE at == Rounds(s, f)
           Spent(x, k) == /\ x.links <= MaxSymlinks
                          /\ x.pending = <<>> \/ Fuel(x, L) + k <= Fuel(s, L)
           S == {k \in Nat : k \in 0 .. MaxRounds => Spent(at[k], k)}
<1>0. MaxRounds \in Nat /\ MaxSymlinks \in Nat
  BY DEF Host
<1>1. at[0] = s /\ \A k \in 1 .. MaxRounds : at[k] = Round(at[k - 1], f)
  BY RoundsAre
<1>2. \A k \in 0 .. MaxRounds : InLoop(at[k])
  BY RoundsStay
<1> HIDE DEF at
<1>3. \A x : InLoop(x) => Fuel(x, L) \in Int
  <2>1. SUFFICES ASSUME NEW x, InLoop(x) PROVE Fuel(x, L) \in Int
    OBVIOUS
  <2>2. x.links \in Nat /\ Len(x.pending) \in Nat
    BY <2>1 DEF InLoop, Loops
  <2>3. (MaxSymlinks - x.links) * L \in Int
    BY <1>0, <2>2
  <2> QED BY <2>2, <2>3 DEF Fuel
<1>4. 0 \in S
  <2>1. Fuel(s, L) + 0 <= Fuel(s, L)
    BY <1>3
  <2> QED BY <1>1, <2>1
<1>5. ASSUME NEW k \in 0 .. MaxRounds - 1, k \in S PROVE k + 1 \in S
  <2>1. InLoop(at[k]) /\ Spent(at[k], k)
    BY <1>0, <1>2, <1>5
  <2> DEFINE n == k + 1
  <2>2. n \in 1 .. MaxRounds /\ n - 1 = k /\ n \in 0 .. MaxRounds
    BY <1>0
  <2>3. n = k + 1
    OBVIOUS
  <2> HIDE DEF n
  <2>4. at[n] = Round(at[k], f)
    BY <1>1, <2>2
  <2>5. CASE at[k].pending = <<>>
    <3>1. at[n] = at[k]
      BY <2>4, <2>5, RoundRests
    <3> QED BY <2>1, <2>2, <2>3, <2>5, <3>1
  <2>6. CASE at[k].pending # <<>>
    <3>1. at[n].links <= MaxSymlinks /\ (at[n].pending = <<>> \/ Fuel(at[n], L) + 1 <= Fuel(at[k], L))
      BY <2>1, <2>4, <2>6, RoundSpends
    <3>2. Fuel(at[k], L) + k <= Fuel(s, L)
      BY <2>1, <2>6
    <3>3. Fuel(at[n], L) \in Int /\ Fuel(at[k], L) \in Int /\ Fuel(s, L) \in Int
      BY <1>2, <1>3, <2>1, <2>2
    <3>4. Fuel(at[n], L) + 1 <= Fuel(at[k], L) => Fuel(at[n], L) + n <= Fuel(s, L)
      BY <2>3, <3>2, <3>3
    <3>5. Spent(at[n], n)
      BY <3>1, <3>4
    <3> QED BY <2>2, <2>3, <3>5
  <2> QED BY <2>5, <2>6
<1>6. \A k \in 0 .. MaxRounds : k \in S
  <2> HIDE DEF S
  <2> QED BY <1>0, <1>4, <1>5, UpTo
<1> QED BY <1>0, <1>6 DEF at

\* A lookup spends at most one round on each component and, for each of the MaxSymlinks
\* links it may follow, on each name of its target.
Enough(parts, L) == Len(parts) + 1 + MaxSymlinks * L

\* A loop has ended when its fuel is spent.
LEMMA EndsBy ==
  ASSUME Host, NEW L \in Nat, LinksWithin(L), NEW s, InLoop(s), s.links = 0, NEW f,
         NEW k \in 0 .. MaxRounds, Len(s.pending) + MaxSymlinks * L <= k
  PROVE  Rounds(s, f)[k].pending = <<>>
<1> DEFINE x == Rounds(s, f)[k]
           a == MaxSymlinks * L
           b == (MaxSymlinks - x.links) * L
<1>1. MaxRounds \in Nat /\ MaxSymlinks \in Nat
  BY DEF Host
<1>2. x.links <= MaxSymlinks /\ (x.pending = <<>> \/ Fuel(x, L) + k <= Fuel(s, L))
  BY <1>1, RoundsSpend
<1>3. Fuel(s, L) = Len(s.pending) + a
  <2>1. MaxSymlinks - s.links = MaxSymlinks
    BY <1>1
  <2> QED BY <2>1 DEF Fuel
<1>4. InLoop(x)
  BY RoundsStay
<1>5. SUFFICES ASSUME x.pending # <<>> PROVE FALSE
  OBVIOUS
<1> HIDE DEF x
<1>6. Len(x.pending) \in Nat \ {0} /\ x.links \in Nat /\ Len(s.pending) \in Nat
  BY <1>4, <1>5 DEF InLoop, Loops
<1>7. a \in Nat /\ b \in Nat
  <2>1. MaxSymlinks - x.links \in Nat
    BY <1>1, <1>2, <1>6
  <2> DEFINE d == MaxSymlinks - x.links
  <2> HIDE DEF d
  <2>2. d * L \in Nat /\ MaxSymlinks * L \in Nat
    BY <1>1, <2>1 DEF d
  <2> QED BY <2>2 DEF d
<1>8. Fuel(x, L) = Len(x.pending) + b
  BY DEF Fuel
<1>9. Len(s.pending) + a <= k
  OBVIOUS
<1> HIDE DEF a, b
<1> QED BY <1>2, <1>3, <1>5, <1>6, <1>7, <1>8, <1>9

\* At most the components of the path and its trailing slash are pending at first.
LEMMA StartPending ==
  ASSUME Host, NEW c \in Caches, NEW parts \in Seq(Names), NEW slash
  PROVE  LET s == Start(From(c, parts), parts, slash) IN
         /\ s.links = 0
         /\ Len(s.pending) <= Len(parts) - Len(From(c, parts).done) + 1
         /\ Len(s.pending) <= Len(parts) + 1
<1> DEFINE from == From(c, parts)
           g == from.done
           todo == SubSeq(parts, Len(g) + 1, Len(parts))
           dot == IF slash THEN <<".">> ELSE <<>>
           s == Start(from, parts, slash)
<1>1. s.links = 0 /\ s.pending = todo \o dot
  BY DEF Start, suffix_after
<1>2. g \in Seq(Names) /\ Len(g) \in Nat /\ Len(g) <= Len(parts)
  <2>1. g = <<>> \/ (g \in DOMAIN c /\ Len(g) < Len(parts))
    BY StartIs
  <2> HIDE DEF g
  <2>2. g \in DOMAIN c => g \in Seq(Names)
    BY KeysPlain
  <2>3. CASE g = <<>>
    BY <2>3
  <2>4. CASE g # <<>>
    <3>1. g \in Seq(Names) /\ Len(g) < Len(parts)
      BY <2>1, <2>2, <2>4
    <3> QED BY <3>1
  <2> QED BY <2>3, <2>4
<1> HIDE DEF g, s
<1>3. todo \in Seq(Names) /\ Len(todo) = Len(parts) - Len(g)
  BY <1>2
<1>4. dot \in Seq(Names) /\ Len(dot) \in {0, 1}
  <2>1. "." \in Names
    BY DEF Host
  <2>2. <<".">> \in Seq(Names) /\ <<>> \in Seq(Names) /\ Len(<<".">>) = 1 /\ Len(<<>>) = 0
    BY <2>1
  <2> QED BY <2>2
<1> HIDE DEF todo, dot
<1>5. Len(todo \o dot) = Len(todo) + Len(dot)
  BY <1>3, <1>4
<1>6. Len(s.pending) <= Len(parts) - Len(g) + 1 /\ Len(s.pending) <= Len(parts) + 1
  <2>1. Len(parts) \in Nat
    OBVIOUS
  <2>2. Len(s.pending) = Len(parts) - Len(g) + Len(dot)
    BY <1>1, <1>3, <1>5
  <2>3. Len(dot) = 0 \/ Len(dot) = 1
    BY <1>4
  <2> DEFINE x == Len(s.pending)
             a == Len(parts)
             b == Len(g)
             d == Len(dot)
  <2>4. a \in Nat /\ b \in Nat /\ b <= a /\ x = a - b + d /\ (d = 0 \/ d = 1)
    BY <1>2, <2>1, <2>2, <2>3
  <2> HIDE DEF x, a, b, d
  <2>5. x <= a - b + 1 /\ x <= a + 1
    BY <2>4
  <2> QED BY <2>5 DEF x, a, b
<1> QED BY <1>1, <1>6 DEF s, g

\* resolve()'s loop ends, whatever the host's links say and however they lead round: with
\* targets of at most L names it takes no more rounds than one for each component of the
\* path, one for its trailing slash and one for each name of MaxSymlinks targets.  So the
\* bound on the rounds of a lookup leaves nothing out.
THEOREM LookupsEnd ==
  ASSUME Host, NEW parts \in Seq(Names), NEW slash, NEW follow_final, NEW c \in Caches,
         NEW L \in Nat, LinksWithin(L), Enough(parts, L) <= MaxRounds
  PROVE  walk_from(From(c, parts), parts, slash, follow_final).pending = <<>>
<1> DEFINE from == From(c, parts)
           s == Start(from, parts, slash)
<1>1. InLoop(s)
  BY StartInLoop
<1>2. s.links = 0 /\ Len(s.pending) <= Len(parts) + 1
  BY StartPending
<1>3. MaxRounds \in Nat /\ MaxSymlinks \in Nat /\ MaxRounds \in 0 .. MaxRounds
  BY DEF Host
<1>4. Len(s.pending) + MaxSymlinks * L <= MaxRounds
  <2> DEFINE a == MaxSymlinks * L
  <2>1. a \in Nat /\ Len(parts) \in Nat
    BY <1>3
  <2>2. Len(parts) + 1 + a <= MaxRounds
    BY DEF Enough
  <2>3. Len(s.pending) \in Nat
    BY <1>1 DEF InLoop, Loops
  <2> HIDE DEF a, s
  <2>4. Len(s.pending) + a <= MaxRounds
    BY <1>2, <1>3, <2>1, <2>2, <2>3
  <2> QED BY <2>4 DEF a
<1>5. walk_from(from, parts, slash, follow_final) = Walk(s, follow_final)
  BY Zenon DEF walk_from, Start, Slash
<1> HIDE DEF s, from
<1>6. Rounds(s, follow_final)[MaxRounds].pending = <<>>
  BY <1>1, <1>2, <1>3, <1>4, EndsBy
<1> QED BY <1>5, <1>6 DEF Walk, from

----------------------------------------------------------------------------
(* That the cache changes nothing a lookup finds. *)

\* The loop state s with another cache.
With(s, d) == [s EXCEPT !.cache = d]

\* Nothing else changes with the cache.
LEMMA WithFields ==
  ASSUME NEW s \in Loops, NEW d
  PROVE  LET x == With(s, d) IN
         /\ x.pending = s.pending /\ x.done = s.done /\ x.links = s.links
         /\ x.exists = s.exists /\ x.is_dir = s.is_dir /\ x.magic = s.magic
         /\ x.err = s.err /\ x.cache = d
         /\ \A e : With(x, e) = With(s, e)
BY DEF Loops, With

\* A failure does not depend on the cache,
LEMMA FailWith ==
  ASSUME NEW s \in Loops, NEW d, NEW e
  PROVE  Fail(With(s, d), e) = With(Fail(s, e), d)
BY DEF Loops, With, Fail

\* nor does following a link,
LEMMA FollowWith ==
  ASSUME NEW s \in Loops, NEW d, NEW done, NEW rest, NEW t
  PROVE  follow_link(With(s, d), done, rest, t) = With(follow_link(s, done, rest, t), d)
<1> DEFINE x == With(s, d)
           lhs == follow_link(x, done, rest, t)
           r == follow_link(s, done, rest, t)
<1>1. x.links = s.links /\ x.done = s.done
  BY WithFields
<1>2. \A e : Fail(x, e) = With(Fail(s, e), d)
  BY FailWith
<1>3. lhs = follow_link(x, done, rest, t) /\ r = follow_link(s, done, rest, t)
  OBVIOUS
<1>x. x = [s EXCEPT !.cache = d]
  BY DEF With
<1>4. SUFFICES lhs = With(r, d)
  OBVIOUS
<1> HIDE DEF x, lhs, r
<1>5. CASE s.links = MaxSymlinks
  <2>1. r = Fail(s, "ELOOP") /\ lhs = Fail(x, "ELOOP")
    BY <1>1, <1>3, <1>5, Zenon DEF follow_link
  <2> QED BY <1>2, <2>1
<1>6. CASE s.links # MaxSymlinks /\ t.err # "ok"
  <2>1. r = Fail(s, t.err) /\ lhs = Fail(x, t.err)
    BY <1>1, <1>3, <1>6, Zenon DEF follow_link
  <2> QED BY <1>2, <2>1
<1>7. CASE s.links # MaxSymlinks /\ t.err = "ok" /\ t.magic /\ ~OnlyDots(rest)
  <2>1. r = Fail(s, "ENOTDIR") /\ lhs = Fail(x, "ENOTDIR")
    BY <1>1, <1>3, <1>7, Zenon DEF follow_link
  <2> QED BY <1>2, <2>1
<1>8. CASE s.links # MaxSymlinks /\ t.err = "ok" /\ t.magic /\ OnlyDots(rest)
  <2>1. r = [s EXCEPT !.done = done, !.pending = <<>>, !.is_dir = FALSE, !.magic = TRUE]
    BY <1>3, <1>8, Zenon DEF follow_link
  <2>2. lhs = [x EXCEPT !.done = done, !.pending = <<>>, !.is_dir = FALSE, !.magic = TRUE]
    BY <1>1, <1>3, <1>8, Zenon DEF follow_link
  <2> QED BY <1>x, <2>1, <2>2 DEF Loops, With
<1>10. CASE s.links # MaxSymlinks /\ t.err = "ok" /\ ~t.magic /\ ~t.abs /\ t.parts = <<>>
  <2>1. r = Fail(s, "ENOENT") /\ lhs = Fail(x, "ENOENT")
    BY <1>1, <1>3, <1>10, Zenon DEF follow_link
  <2> QED BY <1>2, <2>1
<1>9. CASE s.links # MaxSymlinks /\ t.err = "ok" /\ ~t.magic /\ ~(~t.abs /\ t.parts = <<>>)
  <2> DEFINE n == IF t.abs THEN <<>> ELSE s.done
             p == Onward(t) \o rest
             l == s.links + 1
  <2>1. r = [s EXCEPT !.done = n, !.links = l, !.pending = p, !.is_dir = TRUE, !.exists = TRUE]
    BY <1>3, <1>9, Zenon DEF follow_link
  <2>2. lhs = [x EXCEPT !.done = IF t.abs THEN <<>> ELSE x.done, !.links = x.links + 1, !.pending = p,
                        !.is_dir = TRUE, !.exists = TRUE]
    BY <1>1, <1>3, <1>9, Zenon DEF follow_link
  <2>3. lhs = [x EXCEPT !.done = n, !.links = l, !.pending = p, !.is_dir = TRUE, !.exists = TRUE]
    BY <1>1, <2>2, Zenon
  <2> HIDE DEF n, p, l
  <2> QED BY <1>x, <2>1, <2>3 DEF Loops, With
<1> QED BY <1>5, <1>6, <1>7, <1>8, <1>9, <1>10, Zenon

\* nor does what a lookup's answer leads to,
LEMMA InspectWith ==
  ASSUME NEW s \in Loops, NEW d, NEW done, NEW rest, NEW must, NEW m, NEW st
  PROVE  \E y : inspect(With(s, d), done, rest, must, m, st)
                = With(inspect(s, done, rest, must, m, st), y)
<1> DEFINE x == With(s, d)
           lhs == inspect(x, done, rest, must, m, st)
           r == inspect(s, done, rest, must, m, st)
<1>1. lhs = inspect(x, done, rest, must, m, st) /\ r = inspect(s, done, rest, must, m, st)
  OBVIOUS
<1>x. x = [s EXCEPT !.cache = d]
  BY DEF With
<1>2. \A e : Fail(x, e) = With(Fail(s, e), d)
  BY FailWith
<1>3. \A t : follow_link(x, done, rest, t) = With(follow_link(s, done, rest, t), d)
  BY FollowWith
<1>4. SUFFICES \E y : lhs = With(r, y)
  OBVIOUS
<1> HIDE DEF x, lhs, r
<1>5. CASE st.err = "ENOENT" \/ (st.err = "ok" /\ st.ino = NoInode)
  <2>1. r = [s EXCEPT !.done = done, !.pending = rest, !.exists = FALSE, !.is_dir = FALSE]
    BY <1>1, <1>5, Zenon DEF inspect
  <2>2. lhs = [x EXCEPT !.done = done, !.pending = rest, !.exists = FALSE, !.is_dir = FALSE]
    BY <1>1, <1>5, Zenon DEF inspect
  <2>3. lhs = With(r, d)
    BY <1>x, <2>1, <2>2 DEF Loops, With
  <2> QED BY <2>3
<1>6. CASE st.err \notin {"ENOENT", "ok"}
  <2>1. r = Fail(s, st.err) /\ lhs = Fail(x, st.err)
    BY <1>1, <1>6, Zenon DEF inspect
  <2> QED BY <1>2, <2>1
<1>7. CASE st.err = "ok" /\ st.ino # NoInode /\ st.ino \in Links /\ must
  <2>1. r = follow_link(s, done, rest, target_of(st.ino, m)) /\ lhs = follow_link(x, done, rest, target_of(st.ino, m))
    BY <1>1, <1>7, Zenon DEF inspect
  <2> QED BY <1>3, <2>1
<1>8. CASE st.err = "ok" /\ st.ino # NoInode /\ ~(st.ino \in Links /\ must)
  <2> DEFINE c(z) == IF st.ino \in Dirs /\ m.kind # "proc" THEN put(z.cache, done, st.ino) ELSE z.cache
             a == st.ino \in Dirs
             cs == c(s)
             cx == c(x)
  <2>1. r = [s EXCEPT !.done = done, !.pending = rest, !.exists = TRUE, !.is_dir = a, !.cache = cs]
    BY <1>1, <1>8, Zenon DEF inspect
  <2>2. lhs = [x EXCEPT !.done = done, !.pending = rest, !.exists = TRUE, !.is_dir = a, !.cache = cx]
    BY <1>1, <1>8, Zenon DEF inspect
  <2> HIDE DEF a, cs, cx
  <2>3. lhs = With(r, cx)
    BY <1>x, <2>1, <2>2 DEF Loops, With
  <2> QED BY <2>3
<1> QED BY <1>5, <1>6, <1>7, <1>8, Zenon

\* nor, then, does a round.
LEMMA RoundWith ==
  ASSUME NEW s \in Loops, NEW d, NEW f
  PROVE  \E y : Round(With(s, d), f) = With(Round(s, f), y)
<1> DEFINE x == With(s, d)
           comp == Head(s.pending)
           rest == Tail(s.pending)
           lhs == Round(x, f)
           r == Round(s, f)
<1>1. /\ x.pending = s.pending /\ x.done = s.done
      /\ x.exists = s.exists /\ x.is_dir = s.is_dir
  BY WithFields
<1>x. x = [s EXCEPT !.cache = d]
  BY DEF With
<1>2. \A e : Fail(x, e) = With(Fail(s, e), d)
  BY FailWith
<1>3. CASE s.pending = <<>>
  <2>1. lhs = x /\ r = s
    BY <1>1, <1>3, RoundRests
  <2> QED BY <2>1
<1>4. CASE s.pending # <<>>
  <2>1. r = Step(s, comp, rest, f) /\ lhs = Step(x, comp, rest, f)
    BY <1>1, <1>4, Zenon DEF Round
  <2>0. SUFFICES \E y : lhs = With(r, y)
    OBVIOUS
  <2> HIDE DEF x, lhs, r, comp, rest
  <2>2. CASE comp = "." /\ (s.is_dir \/ ~s.exists)
    <3>1. r = [s EXCEPT !.pending = rest] /\ lhs = [x EXCEPT !.pending = rest]
      BY <1>1, <2>1, <2>2, Zenon DEF Step
    <3>2. lhs = With(r, d)
      BY <1>x, <3>1 DEF Loops, With
    <3> QED BY <3>2
  <2>3. CASE ~(comp = "." /\ (s.is_dir \/ ~s.exists)) /\ ~s.exists
    <3>1. r = Fail(s, "ENOENT") /\ lhs = Fail(x, "ENOENT")
      BY <1>1, <2>1, <2>3, Zenon DEF Step
    <3> QED BY <1>2, <3>1
  <2>4. CASE ~(comp = "." /\ (s.is_dir \/ ~s.exists)) /\ s.exists /\ ~s.is_dir
    <3>1. r = Fail(s, "ENOTDIR") /\ lhs = Fail(x, "ENOTDIR")
      BY <1>1, <2>1, <2>4, Zenon DEF Step
    <3> QED BY <1>2, <3>1
  <2>5. CASE comp = ".." /\ s.exists /\ s.is_dir
    <3> DEFINE up == IF s.done = <<>> THEN s.done ELSE Front(s.done)
    <3>0. comp # "."
      BY <2>5
    <3>1. r = dotdot(s, rest) /\ lhs = dotdot(x, rest)
      BY <1>1, <2>1, <2>5, <3>0, Zenon DEF Step
    <3>2. r = [s EXCEPT !.done = up, !.pending = rest, !.is_dir = TRUE]
      BY <3>1, Zenon DEF dotdot
    <3>3. lhs = [x EXCEPT !.done = IF x.done = <<>> THEN x.done ELSE Front(x.done),
                          !.pending = rest, !.is_dir = TRUE]
      BY <3>1, Zenon DEF dotdot
    <3>4. lhs = [x EXCEPT !.done = up, !.pending = rest, !.is_dir = TRUE]
      BY <1>1, <3>3, Zenon
    <3> HIDE DEF up
    <3>5. lhs = With(r, d)
      BY <1>x, <3>2, <3>4 DEF Loops, With
    <3> QED BY <3>5
  <2>6. CASE comp \notin {".", ".."} /\ s.exists /\ s.is_dir
    <3> DEFINE g == Append(s.done, comp)
               must == ~OnlyDots(rest) \/ f \/ rest # <<>>
    <3>1. r = Component(s, g, rest, f) /\ lhs = Component(x, g, rest, f)
      BY <1>1, <2>1, <2>6, Zenon DEF Step
    <3>2. /\ r = inspect(s, g, rest, must, mount_for_guest(g), lstat(to_host(g)))
          /\ lhs = inspect(x, g, rest, must, mount_for_guest(g), lstat(to_host(g)))
      BY <3>1, Zenon DEF Component
    <3> HIDE DEF g, must
    <3> QED BY <3>2, InspectWith DEF x
  <2> QED BY <2>2, <2>3, <2>4, <2>5, <2>6, Zenon
<1> QED BY <1>3, <1>4

\* Loop states that differ in their caches only.
Alike(s, t) == InLoop(s) /\ InLoop(t) /\ \E d : t = With(s, d)

\* Alike states go on alike.
LEMMA AlikeRound ==
  ASSUME Host, NEW s, NEW t, Alike(s, t), NEW f
  PROVE  Alike(Round(s, f), Round(t, f))
<1>1. InLoop(s) /\ InLoop(t) /\ s \in Loops
  BY DEF Alike, InLoop
<1>2. PICK d : t = With(s, d)
  BY DEF Alike
<1>3. \E y : Round(t, f) = With(Round(s, f), y)
  BY <1>1, <1>2, RoundWith
<1>4. InLoop(Round(s, f)) /\ InLoop(Round(t, f))
  BY <1>1, RoundStays
<1> QED BY <1>3, <1>4 DEF Alike

\* A loop that is where another one was after j rounds goes on alike.
LEMMA RoundsShift ==
  ASSUME Host, NEW s, NEW t, NEW f, NEW j \in 0 .. MaxRounds, Alike(Rounds(s, f)[j], t)
  PROVE  \A k \in 0 .. MaxRounds - j : Alike(Rounds(s, f)[j + k], Rounds(t, f)[k])
<1> DEFINE a == Rounds(s, f)
           b == Rounds(t, f)
           n == MaxRounds - j
           S == {k \in Nat : k \in 0 .. n => Alike(a[j + k], b[k])}
<1>0. MaxRounds \in Nat /\ n \in Nat
  BY DEF Host
<1>1. \A k \in 1 .. MaxRounds : a[k] = Round(a[k - 1], f)
  BY RoundsAre
<1>2. b[0] = t /\ \A k \in 1 .. MaxRounds : b[k] = Round(b[k - 1], f)
  BY RoundsAre
<1>3. Alike(a[j], t)
  OBVIOUS
<1> HIDE DEF a, b
<1>4. 0 \in S
  <2>1. j + 0 = j
    BY <1>0
  <2> QED BY <1>2, <1>3, <2>1
<1>5. ASSUME NEW k \in 0 .. n - 1, k \in S PROVE k + 1 \in S
  <2>1. Alike(a[j + k], b[k])
    BY <1>0, <1>5
  <2>2. Alike(Round(a[j + k], f), Round(b[k], f))
    BY <2>1, AlikeRound
  <2> DEFINE p == k + 1
             q == j + p
  <2>3. p \in 1 .. MaxRounds /\ p - 1 = k /\ q \in 1 .. MaxRounds /\ q - 1 = j + k /\ p \in 0 .. n /\ p \in Nat
    BY <1>0
  <2>4. q = j + p
    OBVIOUS
  <2> HIDE DEF p, q
  <2>5. b[p] = Round(b[k], f)
    BY <1>2, <2>3
  <2>6. a[q] = Round(a[j + k], f)
    BY <1>1, <2>3
  <2>7. Alike(a[j + p], b[p])
    BY <2>2, <2>4, <2>5, <2>6
  <2>8. p \in S
    BY <2>3, <2>7
  <2> QED BY <2>8 DEF p
<1>6. \A k \in 0 .. n : k \in S
  <2> HIDE DEF S, n
  <2> QED BY <1>0, <1>4, <1>5, UpTo
<1>7. \A k \in 0 .. n : Alike(a[j + k], b[k])
  <2> HIDE DEF n
  <2> QED BY <1>0, <1>6
<1> QED BY <1>7 DEF a, b

\* Once nothing is pending, nothing changes.
LEMMA RoundsRest ==
  ASSUME Host, NEW s, NEW f, NEW j \in 0 .. MaxRounds, Rounds(s, f)[j].pending = <<>>
  PROVE  Rounds(s, f)[MaxRounds] = Rounds(s, f)[j]
<1> DEFINE a == Rounds(s, f)
           n == MaxRounds - j
           S == {k \in Nat : k \in 0 .. n => a[j + k] = a[j]}
<1>0. MaxRounds \in Nat /\ n \in Nat /\ j + n = MaxRounds
  BY DEF Host
<1>1. \A k \in 1 .. MaxRounds : a[k] = Round(a[k - 1], f)
  BY RoundsAre
<1>2. a[j].pending = <<>>
  OBVIOUS
<1> HIDE DEF a
<1>3. 0 \in S
  OBVIOUS
<1>4. ASSUME NEW k \in 0 .. n - 1, k \in S PROVE k + 1 \in S
  <2>1. a[j + k] = a[j]
    BY <1>0, <1>4
  <2> DEFINE p == k + 1
             q == j + p
  <2>2. q \in 1 .. MaxRounds /\ q - 1 = j + k /\ p \in Nat
    BY <1>0
  <2>3. q = j + p
    OBVIOUS
  <2> HIDE DEF p, q
  <2>4. a[q] = Round(a[j + k], f)
    BY <1>1, <2>2
  <2>5. a[q] = a[j]
    BY <1>2, <2>1, <2>4, RoundRests
  <2>6. p \in S
    BY <2>2, <2>3, <2>5
  <2> QED BY <2>6 DEF p
<1>5. \A k \in 0 .. n : k \in S
  <2> HIDE DEF S, n
  <2> QED BY <1>0, <1>3, <1>4, UpTo
<1>6. a[j + n] = a[j]
  <2>1. n \in S /\ n \in 0 .. n
    BY <1>0, <1>5
  <2> HIDE DEF n
  <2> QED BY <2>1
<1> HIDE DEF n
<1> QED BY <1>0, <1>6 DEF a

Origin(g, c) == [done |-> g, cache |-> c]

\* The loop at its start, with g behind it.
LEMMA OriginInLoop ==
  ASSUME Host, NEW parts \in Seq(Names), NEW slash, NEW g, Plain(g), NEW y \in Caches
  PROVE  InLoop(Start(Origin(g, y), parts, slash))
<1> DEFINE dot == IF slash THEN <<".">> ELSE <<>>
           todo == suffix_after(parts, g)
           s == Start(Origin(g, y), parts, slash)
<1>1. g \in Seq(Names)
  BY DEF Plain
<1>2. dot \in Seq(Names)
  <2>1. "." \in Names
    BY DEF Host
  <2>2. <<".">> \in Seq(Names) /\ <<>> \in Seq(Names)
    BY <2>1
  <2> QED BY <2>2
<1>3. todo \in Seq(Names)
  BY <1>1 DEF suffix_after
<1>4. todo \o dot \in Seq(Names)
  <2> HIDE DEF todo, dot
  <2> QED BY <1>2, <1>3
<1>5. s = [pending |-> todo \o dot, done |-> g, links |-> 0, exists |-> TRUE,
           is_dir |-> TRUE, magic |-> FALSE, err |-> "ok", cache |-> y]
  BY DEF Start, Origin
<1>6. "ok" \in Errors
  BY DEF Host
<1> HIDE DEF todo, dot, s
<1>7. s \in Loops
  BY <1>1, <1>4, <1>5, <1>6 DEF Loops
<1>8. s.done = g /\ s.err = "ok"
  BY <1>5
<1>9. InLoop(s)
  BY <1>7, <1>8 DEF InLoop
<1> QED BY <1>9 DEF s

\* A round enters the next directory.
Enters(parts, slash, y, f, k) ==
    \E z : Round(Start(Origin(SubSeq(parts, 1, k), y), parts, slash), f)
           = Start(Origin(SubSeq(parts, 1, k + 1), z), parts, slash)

\* It does where the next component is a directory.
LEMMA EntersNext ==
  ASSUME Host, NEW parts \in Seq(Names), NEW slash, NEW y \in Caches, NEW f,
         NEW k \in 0 .. Len(parts) - 1,
         Plain(SubSeq(parts, 1, k + 1)), IsDir(SubSeq(parts, 1, k + 1))
  PROVE  Enters(parts, slash, y, f, k)
<1> DEFINE p == SubSeq(parts, 1, k)
           q == SubSeq(parts, 1, k + 1)
           dot == IF slash THEN <<".">> ELSE <<>>
           s == Start(Origin(p, y), parts, slash)
           comp == parts[k + 1]
           rest == SubSeq(parts, k + 2, Len(parts)) \o dot
           m == mount_for_guest(q)
           st == lstat(to_host(q))
           must == ~OnlyDots(rest) \/ f \/ rest # <<>>
           r == Round(s, f)
<1>1. /\ p \in Seq(Names) /\ Len(p) = k /\ q \in Seq(Names) /\ Len(q) = k + 1
      /\ q = Append(p, comp) /\ comp = q[k + 1]
  OBVIOUS
<1>2. comp \notin {".", ".."}
  BY <1>1 DEF Plain
<1>3. suffix_after(parts, p) = SubSeq(parts, k + 1, Len(parts)) /\ suffix_after(parts, q) = SubSeq(parts, k + 2, Len(parts))
  <2>1. k + 1 + 1 = k + 2
    OBVIOUS
  <2> QED BY <1>1, <2>1 DEF suffix_after
<1>4. dot \in Seq(Names)
  <2>1. "." \in Names
    BY DEF Host
  <2>2. <<".">> \in Seq(Names) /\ <<>> \in Seq(Names)
    BY <2>1
  <2> QED BY <2>2
<1>5. /\ SubSeq(parts, k + 1, Len(parts)) \o dot # <<>>
      /\ Head(SubSeq(parts, k + 1, Len(parts)) \o dot) = comp
      /\ Tail(SubSeq(parts, k + 1, Len(parts)) \o dot) = rest
  <2> HIDE DEF dot
  <2> DEFINE u == SubSeq(parts, k + 1, Len(parts))
             v == SubSeq(parts, k + 2, Len(parts))
  <2>1. /\ u \in Seq(Names) /\ Len(u) = Len(parts) - k /\ v \in Seq(Names) /\ Len(v) = Len(parts) - k - 1
        /\ u[1] = comp /\ Tail(u) = v /\ Len(u) > 0
    OBVIOUS
  <2> HIDE DEF u, v
  <2>2. /\ u \o dot # <<>> /\ Head(u \o dot) = u[1] /\ Tail(u \o dot) = Tail(u) \o dot
    BY <1>4, <2>1
  <2> QED BY <2>1, <2>2 DEF u, v
<1>6. s = [pending |-> SubSeq(parts, k + 1, Len(parts)) \o dot, done |-> p, links |-> 0, exists |-> TRUE,
           is_dir |-> TRUE, magic |-> FALSE, err |-> "ok", cache |-> y]
  BY <1>3 DEF Start, Origin
<1>7. /\ s.pending # <<>> /\ Head(s.pending) = comp /\ Tail(s.pending) = rest /\ s.done = p
      /\ s.exists = TRUE /\ s.is_dir = TRUE
  <2> DEFINE pend == SubSeq(parts, k + 1, Len(parts)) \o dot
  <2>1. s.pending = pend /\ s.done = p /\ s.exists = TRUE /\ s.is_dir = TRUE
    BY <1>6
  <2> QED BY <1>5, <2>1
<1>8. r = Step(s, comp, rest, f)
  BY <1>7, Zenon DEF Round
<1>9. r = Component(s, q, rest, f)
  <2>1. Append(s.done, comp) = q
    BY <1>1, <1>7
  <2>2. comp # "." /\ comp # ".."
    BY <1>2
  <2> HIDE DEF s, comp, rest, q, r
  <2>3. r = Component(s, Append(s.done, comp), rest, f)
    BY <1>7, <1>8, <2>2, Zenon DEF Step
  <2> QED BY <2>1, <2>3
<1>10. r = inspect(s, q, rest, must, m, st)
  <2> HIDE DEF s, rest, q, r
  <2> QED BY <1>9, Zenon DEF Component
<1>11. st.err = "ok" /\ st.ino \in Dirs /\ st.ino # NoInode /\ st.ino \notin Links
  <2>1. st.err = "ok" /\ st.ino \in Dirs
    BY DEF IsDir, At
  <2> HIDE DEF st
  <2> QED BY <2>1 DEF Host
<1> DEFINE c == IF st.ino \in Dirs /\ m.kind # "proc" THEN put(s.cache, q, st.ino) ELSE s.cache
<1>12. r = [s EXCEPT !.done = q, !.pending = rest, !.exists = TRUE, !.is_dir = st.ino \in Dirs,
                     !.cache = c]
  <2> HIDE DEF s, rest, q, r, m, st, must
  <2>1. st.err # "ENOENT"
    BY <1>11
  <2> QED BY <1>10, <1>11, <2>1, Zenon DEF inspect
<1>13. (st.ino \in Dirs) = TRUE
  BY <1>11
<1>14. r = [s EXCEPT !.done = q, !.pending = rest, !.exists = TRUE, !.is_dir = TRUE,
                     !.cache = c]
  <2> HIDE DEF s, rest, q, r, m, st, must, c
  <2> QED BY <1>12, <1>13
<1>15. Start(Origin(q, c), parts, slash) =
          [pending |-> rest, done |-> q, links |-> 0, exists |-> TRUE,
           is_dir |-> TRUE, magic |-> FALSE, err |-> "ok", cache |-> c]
  <2> HIDE DEF c
  <2> QED BY <1>3 DEF Start, Origin
<1> DEFINE e == Start(Origin(q, c), parts, slash)
<1>16. c \in Caches
  <2>1. s.cache = y
    BY <1>6
  <2>2. put(y, q, st.ino) \in Caches
    BY <1>11, CacheKept
  <2> HIDE DEF s, m, st, q
  <2> QED BY <2>1, <2>2
<1>17. s \in Loops /\ e \in Loops
  <2>1. Plain(p) /\ Plain(q)
    BY <1>1 DEF Plain
  <2> HIDE DEF p, q, c
  <2>2. InLoop(s) /\ InLoop(e)
    BY <1>16, <2>1, OriginInLoop
  <2> QED BY <2>2 DEF InLoop
<1>18. /\ e.links = 0 /\ e.err = "ok" /\ e.done = q /\ e.pending = rest /\ e.exists = TRUE
       /\ e.is_dir = TRUE /\ e.magic = FALSE /\ e.cache = c
  <2> HIDE DEF e, c, q, rest
  <2> QED BY <1>15 DEF e
<1>19. s.links = 0 /\ s.err = "ok" /\ s.magic = FALSE
  BY <1>6
<1>20. r = e
  <2> HIDE DEF s, rest, q, r, m, st, must, c, p, e
  <2> QED BY <1>14, <1>17, <1>18, <1>19 DEF Loops
<1> HIDE DEF r, c, s
<1>21. \E z : r = Start(Origin(q, z), parts, slash)
  BY <1>20
<1> QED BY <1>21 DEF Enters, r, s

\* So the loop from the root comes to every directory above the path, and starts there as
\* one that found it in the cache does.
LEMMA Along ==
  ASSUME Host, NEW parts \in Seq(Names), NEW slash, NEW c \in Caches, NEW f,
         NEW g, Plain(g), is_below(parts, g), Len(g) < Len(parts), Len(g) <= MaxRounds,
         Way(g), g # <<>> => IsDir(g), NEW d \in Caches
  PROVE  Alike(Rounds(Start(Origin(<<>>, c), parts, slash), f)[Len(g)],
               Start(Origin(g, d), parts, slash))
<1> DEFINE s == Start(Origin(<<>>, c), parts, slash)
           at == Rounds(s, f)
           Here(k) == \E z : at[k] = Start(Origin(SubSeq(parts, 1, k), z), parts, slash)
           S == {k \in Nat : k \in 0 .. Len(g) => Here(k)}
<1>0. MaxRounds \in Nat /\ Len(g) \in Nat /\ g \in Seq(Names) /\ Len(parts) \in Nat
  BY DEF Host, Plain
<1>1. Plain(<<>>) /\ SubSeq(parts, 1, 0) = <<>>
  BY DEF Plain
<1>2. InLoop(s)
  BY <1>1, OriginInLoop
<1>3. \A k \in 0 .. MaxRounds : InLoop(at[k])
  BY <1>2, RoundsStay
<1>4. at[0] = s /\ \A k \in 1 .. MaxRounds : at[k] = Round(at[k - 1], f)
  BY RoundsAre
<1>5. ASSUME NEW k \in 0 .. Len(g)
      PROVE  /\ SubSeq(parts, 1, k) = SubSeq(g, 1, k) /\ Plain(SubSeq(parts, 1, k))
             /\ k # 0 => IsDir(SubSeq(parts, 1, k))
  <2>1. SubSeq(parts, 1, Len(g)) = SubSeq(g, 1, Len(g))
    BY DEF is_below, IsPrefix
  <2>2. \A i \in 1 .. Len(g) : parts[i] = g[i]
    <3>1. \A i \in 1 .. Len(g) : SubSeq(parts, 1, Len(g))[i] = parts[i] /\ SubSeq(g, 1, Len(g))[i] = g[i]
      BY <1>0
    <3> QED BY <2>1, <3>1
  <2>3. SubSeq(parts, 1, k) = SubSeq(g, 1, k)
    BY <1>0, <2>2
  <2>4. Plain(SubSeq(g, 1, k))
    BY <1>0 DEF Plain
  <2>5. CASE k = Len(g)
    <3>1. SubSeq(g, 1, k) = g /\ (k # 0 => g # <<>>)
      BY <1>0, <2>5
    <3> QED BY <2>3, <2>4, <3>1
  <2>6. CASE k # Len(g)
    <3>1. k # 0 => k \in 1 .. Len(g) - 1
      BY <1>0, <2>6
    <3> QED BY <2>3, <2>4, <3>1 DEF Way
  <2> QED BY <2>5, <2>6
<1>s. s = Start(Origin(<<>>, c), parts, slash)
  OBVIOUS
<1> HIDE DEF at, s
<1>6. 0 \in S
  <2>1. at[0] = Start(Origin(SubSeq(parts, 1, 0), c), parts, slash)
    BY <1>1, <1>4, <1>s
  <2> QED BY <2>1
<1>7. ASSUME NEW k \in 0 .. Len(g) - 1, k \in S PROVE k + 1 \in S
  <2>1. PICK z : at[k] = Start(Origin(SubSeq(parts, 1, k), z), parts, slash)
    BY <1>0, <1>7
  <2>2. z \in Caches
    <3>1. at[k] \in Loops
      BY <1>0, <1>3 DEF InLoop
    <3>2. at[k].cache = z
      BY <2>1 DEF Start, Origin
    <3> QED BY <3>1, <3>2 DEF Loops
  <2> DEFINE n == k + 1
  <2>3. n \in 1 .. MaxRounds /\ n - 1 = k /\ n \in 0 .. Len(g) /\ n # 0 /\ k \in 0 .. Len(parts) - 1
    BY <1>0
  <2>4. Plain(SubSeq(parts, 1, n)) /\ IsDir(SubSeq(parts, 1, n))
    <3> HIDE DEF n
    <3> QED BY <1>5, <2>3
  <2>5. \E y : Round(at[k], f) = Start(Origin(SubSeq(parts, 1, n), y), parts, slash)
    <3>1. \E y : Round(Start(Origin(SubSeq(parts, 1, k), z), parts, slash), f)
                 = Start(Origin(SubSeq(parts, 1, k + 1), y), parts, slash)
      <4>1. k \in 0 .. Len(parts) - 1
        BY <2>3
      <4>2. Plain(SubSeq(parts, 1, k + 1)) /\ IsDir(SubSeq(parts, 1, k + 1))
        BY <2>4
      <4>3. Enters(parts, slash, z, f, k)
        BY <2>2, <4>1, <4>2, EntersNext
      <4> QED BY <4>3 DEF Enters
    <3> QED BY <2>1, <3>1
  <2>6. at[n] = Round(at[k], f)
    <3> HIDE DEF n
    <3> QED BY <1>4, <2>3
  <2>7. n \in S
    <3> HIDE DEF n
    <3> QED BY <2>3, <2>5, <2>6
  <2> QED BY <2>7 DEF n
<1>8. \A k \in 0 .. Len(g) : k \in S
  <2> HIDE DEF S
  <2> QED BY <1>0, <1>6, <1>7, UpTo
<1>9. Here(Len(g))
  <2>1. Len(g) \in 0 .. Len(g)
    BY <1>0
  <2> HIDE DEF Here
  <2> QED BY <1>0, <1>8, <2>1
<1>10. SubSeq(parts, 1, Len(g)) = g
  <2>1. Len(g) \in 0 .. Len(g) /\ SubSeq(g, 1, Len(g)) = g
    BY <1>0
  <2> QED BY <1>5, <2>1
<1>11. PICK z : at[Len(g)] = Start(Origin(g, z), parts, slash)
  BY <1>9, <1>10
<1>12. InLoop(at[Len(g)]) /\ InLoop(Start(Origin(g, d), parts, slash))
  <2>1. Len(g) \in 0 .. MaxRounds
    BY <1>0
  <2> QED BY <1>3, <2>1, OriginInLoop
<1>13. Start(Origin(g, d), parts, slash) = With(at[Len(g)], d)
  <2> DEFINE a == Start(Origin(g, z), parts, slash)
             b == Start(Origin(g, d), parts, slash)
  <2>1. a \in Loops /\ b \in Loops
    BY <1>11, <1>12 DEF InLoop
  <2>2. /\ b.pending = a.pending /\ b.done = a.done /\ b.links = a.links /\ b.exists = a.exists
        /\ b.is_dir = a.is_dir /\ b.magic = a.magic /\ b.err = a.err /\ b.cache = d
    BY DEF Start, Origin
  <2> HIDE DEF a, b
  <2>3. b = With(a, d)
    BY <2>1, <2>2 DEF Loops, With
  <2> QED BY <1>11, <2>3 DEF a, b
<1>14. Alike(at[Len(g)], Start(Origin(g, d), parts, slash))
  BY <1>12, <1>13 DEF Alike
<1> QED BY <1>14 DEF at, s

\* A lookup from where the cache lets it start ends like one from the root.
LEMMA AsFromRoot ==
  ASSUME Host, NEW parts \in Seq(Names), NEW slash, NEW f, NEW c \in Caches,
         Way(From(c, parts).done),
         NEW e \in Caches, NEW L \in Nat, LinksWithin(L), Enough(parts, L) <= MaxRounds
  PROVE  Alike(Walk(Start(Origin(<<>>, e), parts, slash), f),
               Walk(Start(From(c, parts), parts, slash), f))
<1> DEFINE from == From(c, parts)
           g == from.done
           d == from.cache
           s == Start(Origin(<<>>, e), parts, slash)
           t == Start(from, parts, slash)
           j == Len(g)
           a == MaxSymlinks * L
<1>1. /\ d \in Caches
      /\ g = <<>> \/ /\ g \in DOMAIN c /\ is_below(parts, g)
                     /\ Len(g) < Len(parts) /\ IsDir(g)
  BY StartIs
<1>2. MaxRounds \in Nat /\ MaxSymlinks \in Nat /\ a \in Nat /\ Len(parts) \in Nat
  BY DEF Host
<1>3. Len(parts) + 1 + a <= MaxRounds
  BY DEF Enough
<1>4. InLoop(t)
  BY StartInLoop
<1>5. t.links = 0 /\ Len(t.pending) <= Len(parts) - j + 1
  BY StartPending
<1>6. t = Start(Origin(g, d), parts, slash)
  BY DEF Start, Origin
<1>w. Way(g)
  OBVIOUS
<1>7. Plain(<<>>)
  BY DEF Plain
<1>8. Len(t.pending) \in Nat
  BY <1>4 DEF InLoop, Loops
<1>t. t = Start(from, parts, slash)
  OBVIOUS
<1> HIDE DEF from, g, d, t, s
<1>9. Plain(g) /\ j \in Nat /\ j <= Len(parts)
  <2>1. CASE g = <<>>
    BY <1>7, <2>1
  <2>2. CASE g # <<>>
    <3>1. g \in Seq(Names) /\ Plain(g) /\ Len(g) < Len(parts)
      BY <1>1, <2>2, KeysPlain
    <3> QED BY <1>2, <3>1
  <2> QED BY <2>1, <2>2
<1>10. j \in 0 .. MaxRounds
  <2> HIDE DEF a, j
  <2> QED BY <1>2, <1>3, <1>9
<1>11. Alike(Rounds(s, f)[j], t)
  <2>1. CASE g = <<>>
    <3>1. InLoop(s)
      BY <1>7, OriginInLoop DEF s
    <3>2. Rounds(s, f)[j] = s
      <4>1. j = 0
        BY <2>1
      <4> QED BY <4>1, RoundsAre
    <3>3. s \in Loops /\ t \in Loops
      BY <1>4, <3>1 DEF InLoop
    <3>4. /\ t.pending = s.pending /\ t.done = s.done /\ t.links = s.links /\ t.exists = s.exists
          /\ t.is_dir = s.is_dir /\ t.magic = s.magic /\ t.err = s.err
      BY <1>6, <2>1 DEF s, Start, Origin
    <3>5. t = With(s, t.cache)
      BY <3>3, <3>4 DEF Loops, With
    <3> QED BY <1>4, <3>1, <3>2, <3>5 DEF Alike
  <2>2. CASE g # <<>>
    <3>1. is_below(parts, g) /\ Len(g) < Len(parts) /\ IsDir(g) /\ Way(g)
      BY <1>1, <1>w, <2>2
    <3>2. Len(g) <= MaxRounds
      BY <1>10
    <3> QED BY <1>1, <1>6, <1>9, <3>1, <3>2, Along DEF s
  <2> QED BY <2>1, <2>2
<1> DEFINE n == MaxRounds - j
<1>12. n \in 0 .. MaxRounds /\ n \in 0 .. MaxRounds - j /\ j + n = MaxRounds
  <2> HIDE DEF j
  <2> QED BY <1>2, <1>10
<1>13. Alike(Rounds(s, f)[j + n], Rounds(t, f)[n])
  <2> HIDE DEF j, n
  <2> QED BY <1>10, <1>11, <1>12, RoundsShift
<1>14. Len(t.pending) + MaxSymlinks * L <= n
  <2>1. n = MaxRounds - j
    OBVIOUS
  <2> HIDE DEF a, j, n
  <2>2. Len(t.pending) + a <= n
    BY <1>2, <1>3, <1>5, <1>8, <1>9, <2>1
  <2> QED BY <2>2 DEF a
<1>15. Rounds(t, f)[n].pending = <<>>
  <2> HIDE DEF n
  <2> QED BY <1>4, <1>5, <1>12, <1>14, EndsBy
<1>16. Rounds(t, f)[MaxRounds] = Rounds(t, f)[n]
  <2> HIDE DEF n
  <2> QED BY <1>12, <1>15, RoundsRest
<1>17. Alike(Walk(s, f), Walk(t, f))
  <2> HIDE DEF n, j
  <2> QED BY <1>12, <1>13, <1>16 DEF Walk
<1> QED BY <1>17, <1>t DEF s, from

Uncached == [g \in {} |-> NoInode]

\* For every cache, whatever has become of the directories in it, a lookup that uses it
\* comes to the same error, guest path, host path and mount as one without a cache, and
\* finds an object there or not, or else a name above the directory it begins at is no
\* directory any more (the host still finds that directory behind it, so it is a symlink).
\* That case is real: the check of the entry's own inode in resolve() does not exclude it.
THEOREM CacheMisleadsBehindLinksOnly ==
  ASSUME Host, NEW parts \in Seq(Names), NEW slash, NEW follow_final, NEW c \in Caches,
         NEW L \in Nat, LinksWithin(L), Enough(parts, L) <= MaxRounds
  PROVE  LET r == resolve(parts, slash, follow_final, c)
             u == resolve(parts, slash, follow_final, Uncached)
             g == begin_at(c, parts).done
         IN \/ /\ r.err = u.err /\ r.guest = u.guest /\ r.host = u.host
               /\ r.mount = u.mount /\ r.exists = u.exists /\ r.magic = u.magic
            \/ \E k \in 1 .. Len(g) - 1 : ~IsDir(SubSeq(g, 1, k))
<1> DEFINE g == begin_at(c, parts).done
           w == Walk(Start(Origin(<<>>, c), parts, slash), follow_final)
           x == Walk(Start(From(c, parts), parts, slash), follow_final)
           y == Walk(Start(From(Uncached, parts), parts, slash), follow_final)
<1>1. From(c, parts).done = g
  BY Zenon DEF begin_at, From, Hits
<1>2. SUFFICES ASSUME Way(g)
               PROVE  LET r == resolve(parts, slash, follow_final, c)
                          u == resolve(parts, slash, follow_final, Uncached)
                      IN /\ r.err = u.err /\ r.guest = u.guest /\ r.host = u.host
                         /\ r.mount = u.mount /\ r.exists = u.exists /\ r.magic = u.magic
  <2> HIDE DEF g
  <2> QED BY DEF Way, g
<1>3. Uncached \in Caches
  <2>1. Uncached \in [{} -> Dirs]
    BY DEF Uncached
  <2>2. {} \in SUBSET {h \in Seq(Names) : Plain(h)}
    OBVIOUS
  <2> QED BY <2>1, <2>2 DEF Caches
<1>4. Way(From(Uncached, parts).done)
  <2>1. Hits(Uncached, parts) = {}
    BY DEF Hits, Uncached
  <2>2. From(Uncached, parts) = [done |-> <<>>, cache |-> Uncached]
    BY <2>1, Zenon DEF From, cache_start
  <2>3. From(Uncached, parts).done = <<>>
    BY <2>2
  <2>4. Way(<<>>)
    BY DEF Way
  <2> QED BY <2>3, <2>4
<1>5. Alike(w, x) /\ Alike(w, y)
  <2>1. Way(From(c, parts).done)
    BY <1>1, <1>2
  <2> HIDE DEF g
  <2> QED BY <1>3, <1>4, <2>1, AsFromRoot
<1>6. resolve(parts, slash, follow_final, c) = Resolved(x)
  BY ResolveIs
<1>7. resolve(parts, slash, follow_final, Uncached) = Resolved(y)
  BY ResolveIs
<1> HIDE DEF w, x, y
<1>8. \A z : Alike(w, z) => /\ z.err = w.err /\ z.done = w.done /\ z.exists = w.exists
                            /\ z.magic = w.magic
  BY WithFields DEF Alike, InLoop
<1>9. x.err = y.err /\ x.done = y.done /\ x.exists = y.exists /\ x.magic = y.magic
  BY <1>5, <1>8
<1>10. \A z : /\ Resolved(z).err = z.err /\ Resolved(z).guest = z.done /\ Resolved(z).host = to_host(z.done)
              /\ Resolved(z).mount = mount_for_guest(z.done) /\ Resolved(z).exists = z.exists
              /\ Resolved(z).magic = z.magic
  BY DEF Resolved
<1> QED BY <1>6, <1>7, <1>9, <1>10
=============================================================================
