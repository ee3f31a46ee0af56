------------------------------ MODULE Resolver ------------------------------
(***************************************************************************)
(* The mount table and the symlink-aware resolve() with its directory      *)
(* cache (src/vfs), as functions of what the host answers: nothing is      *)
(* assumed about its files.  A path is a sequence of names, "." and "..".  *)
(***************************************************************************)
EXTENDS Naturals, Sequences, SequencesExt, FiniteSets

CONSTANTS Mounts,            \* [guest, host, read_only, kind]
          Dirs, Links,       \* inodes that are directories, symlinks
          NoInode,
          lstat(_),          \* host path -> [err, ino]
          read_link(_),      \* symlink -> what it says, [abs, parts, slash]
          MaxSymlinks, MaxEntries,
          MaxRounds          \* rounds of the loop, more than a lookup takes

----------------------------------------------------------------------------
\* MountTable.
is_below(path, prefix) == IsPrefix(prefix, path)
suffix_after(path, prefix) == SubSeq(path, Len(prefix) + 1, Len(path))

Longest(ms, len(_)) == CHOOSE m \in {x \in ms : \A y \in ms : len(y) <= len(x)} : TRUE

mount_for_guest(g) ==
    Longest({m \in Mounts : is_below(g, m.guest)}, LAMBDA m : Len(m.guest))

Below(m, g) == m.host \o suffix_after(g, m.guest)
to_host(g) == Below(mount_for_guest(g), g)

Outside == <<"*outside*">>
Above(ms, h) == IF ms = {} THEN Outside
                ELSE LET m == Longest(ms, LAMBDA x : Len(x.host))
                     IN m.guest \o suffix_after(h, m.host)
to_guest(h) == Above({m \in Mounts : is_below(h, m.host)}, h)

----------------------------------------------------------------------------
\* resolve().  Its loop state: components to do and done, symlinks followed, what the
\* name reached so far is.

\* components(): "." and empty names are skipped, a trailing slash asks for a directory.
Keep(names, c) == IF c = "." THEN names ELSE Append(names, c)
NamesUpTo(ps) ==
    LET upto[k \in 0 .. Len(ps)] == IF k = 0 THEN <<>> ELSE Keep(upto[k - 1], ps[k]) IN upto
components(p) == NamesUpTo(p.parts)[Len(p.parts)]
Slash(slash) == IF slash THEN <<".">> ELSE <<>>

\* What a symlink leads to: the names to go on with, or an object that has none.
Says(a, ps) == [abs |-> a, parts |-> ps, slash |-> FALSE]
Target(t, m) == [err |-> "ok", abs |-> t.abs, parts |-> t.parts, slash |-> t.slash, magic |-> m]
NoTarget(e) == [err |-> e, abs |-> FALSE, parts |-> <<>>, slash |-> FALSE, magic |-> FALSE]

\* proc_link_target: /proc/self and thread-self are the guest's process and thread; a link
\* to a host path is mapped back, and fails closed outside every mount.
magic_target(h) == IF h # <<>> /\ Head(h) = "gone" THEN NoTarget("ENOENT")
                   ELSE IF to_guest(h) = Outside THEN NoTarget("EACCES")
                   ELSE Target(Says(TRUE, to_guest(h)), FALSE)
Pipe == <<"pipe:[1]">>
raw_target(raw) == IF raw.abs THEN magic_target(raw.parts)
                   ELSE IF raw.parts = <<>> THEN NoTarget("ENOENT")
                   ELSE Target(raw, raw.parts = Pipe)
proc_link_target(ino) == CASE ino = "self" -> Target(Says(FALSE, <<"1">>), FALSE)
                           [] ino = "thread-self" -> Target(Says(FALSE, <<"1", "task", "1">>), FALSE)
                           [] OTHER -> raw_target(read_link(ino))

target_of(ino, m) == IF m.kind = "proc" THEN proc_link_target(ino)
                     ELSE Target(read_link(ino), FALSE)

\* DirCache::put; a full cache is emptied first.
put(c, g, ino) == LET kept == IF g \notin DOMAIN c /\ Cardinality(DOMAIN c) >= MaxEntries
                              THEN {} ELSE DOMAIN c
                  IN [k \in kept \cup {g} |-> IF k = g THEN ino ELSE c[k]]

drop(c, g) == [k \in DOMAIN c \ {g} |-> c[k]]

Fail(s, e) == [s EXCEPT !.err = e, !.pending = <<>>]

OnlyDots(parts) == \A i \in DOMAIN parts : parts[i] = "."

\* The names a link's target puts before the ones still pending.
Onward(t) == components(t) \o Slash(t.slash)

\* One ordinary component: mapped to the host, looked up there, followed or entered.
follow_link(s, done, rest, t) ==
    IF s.links = MaxSymlinks THEN Fail(s, "ELOOP")
    ELSE IF t.err # "ok" THEN Fail(s, t.err)
    ELSE IF t.magic
    THEN IF ~OnlyDots(rest) THEN Fail(s, "ENOTDIR")
         ELSE [s EXCEPT !.done = done, !.pending = <<>>, !.is_dir = FALSE, !.magic = TRUE]
    ELSE IF ~t.abs /\ t.parts = <<>> THEN Fail(s, "ENOENT")
    ELSE [s EXCEPT !.done = IF t.abs THEN <<>> ELSE @, !.links = @ + 1,
                   !.pending = Onward(t) \o rest, !.is_dir = TRUE, !.exists = TRUE]

inspect(s, done, rest, must_follow, m, st) ==
    IF st.err = "ENOENT" \/ (st.err = "ok" /\ st.ino = NoInode)
    THEN [s EXCEPT !.done = done, !.pending = rest, !.exists = FALSE, !.is_dir = FALSE]
    ELSE IF st.err # "ok" THEN Fail(s, st.err)
    ELSE IF st.ino \in Links /\ must_follow THEN follow_link(s, done, rest, target_of(st.ino, m))
    ELSE [s EXCEPT !.done = done, !.pending = rest, !.exists = TRUE,
                   !.is_dir = st.ino \in Dirs,
                   !.cache = IF st.ino \in Dirs /\ m.kind # "proc" THEN put(@, done, st.ino)
                             ELSE @]

Component(s, done, rest, follow_final) ==
    inspect(s, done, rest, ~OnlyDots(rest) \/ follow_final \/ rest # <<>>,
            mount_for_guest(done), lstat(to_host(done)))

dotdot_unclamped(s, rest) == [s EXCEPT !.done = IF @ = <<>> THEN <<"..">> ELSE Front(@),
                                       !.pending = rest, !.is_dir = TRUE]

\* ".." never climbs above the guest's root.
dotdot(s, rest) == [s EXCEPT !.done = IF @ = <<>> THEN @ ELSE Front(@),
                             !.pending = rest, !.is_dir = TRUE]

Step(s, comp, rest, follow_final) ==
    IF comp = "." /\ (s.is_dir \/ ~s.exists) THEN [s EXCEPT !.pending = rest]
    ELSE IF ~s.exists THEN Fail(s, "ENOENT")
    ELSE IF ~s.is_dir THEN Fail(s, "ENOTDIR")
    ELSE IF comp = ".." THEN dotdot(s, rest)
    ELSE Component(s, Append(s.done, comp), rest, follow_final)

\* Rounds of the loop, until nothing is pending.
Round(s, follow_final) ==
    IF s.pending = <<>> THEN s ELSE Step(s, Head(s.pending), Tail(s.pending), follow_final)
Rounds(s, follow_final) ==
    LET at[k \in 0 .. MaxRounds] == IF k = 0 THEN s ELSE Round(at[k - 1], follow_final) IN at
Walk(s, follow_final) == Rounds(s, follow_final)[MaxRounds]

still_there_unchecked(c, g) == lstat(to_host(g)).ino \in Dirs

\* An entry is used while its host path still is the directory it was.
still_there(c, g) == lstat(to_host(g)).ino = c[g]

\* The longest cached directory above the final component to start from.
start_at(c, g) == IF still_there(c, g) THEN [done |-> g, cache |-> c]
                  ELSE [done |-> <<>>, cache |-> drop(c, g)]

cache_start(c, parts, hits) ==
    IF hits = {} \/ Contains(parts, "..") THEN [done |-> <<>>, cache |-> c]
    ELSE start_at(c, CHOOSE g \in hits : \A h \in hits : Len(h) <= Len(g))

Resolved(s) == [err |-> s.err, guest |-> s.done, host |-> to_host(s.done),
                mount |-> mount_for_guest(s.done), exists |-> s.exists,
                magic |-> s.magic, cache |-> s.cache]

walk_from(from, parts, slash, follow_final) ==
    Walk([pending |-> suffix_after(parts, from.done) \o Slash(slash),
          done |-> from.done, links |-> 0, exists |-> TRUE, is_dir |-> TRUE,
          magic |-> FALSE, err |-> "ok", cache |-> from.cache], follow_final)

begin_at(c, parts) ==
    cache_start(c, parts, {g \in DOMAIN c : is_below(parts, g) /\ Len(g) < Len(parts)})

resolve(parts, slash, follow_final, c) ==
    Resolved(walk_from(begin_at(c, parts), parts, slash, follow_final))
=============================================================================
