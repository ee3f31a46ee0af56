---------------------------- MODULE PathResolver ----------------------------
(***************************************************************************)
(* Guest paths: the mount table, the symlink-aware resolver with its       *)
(* directory cache (src/vfs), and the path calls the supervisor translates *)
(* with them (translate_path, guest_cwd).  The host file system is a graph *)
(* of inodes; a path is a sequence of names, "." and "..".                 *)
(*                                                                         *)
(* The lookup the guest is owed is KernelWalk in the guest's namespace: it *)
(* walks inodes, never names, and knows nothing of host paths.  One        *)
(* translated call is one step: a change between translation and the       *)
(* kernel's lookup is the residual risk resolver.hpp documents.            *)
(***************************************************************************)
EXTENDS Naturals, Sequences, SequencesExt, FiniteSets, Functions

CONSTANTS Names,        \* names the guest gives
          DirIds, LinkIds,   \* inodes the guest can create
          TargetOf,     \* what each of the links says, [abs, parts, slash]
          GuestPaths,   \* the paths it looks up, [abs, parts, slash]
          EditPaths,    \* the ones it changes things at
          MaxSymlinks, MaxEntries,
          MaxRounds,    \* of resolve()'s loop
          MaxLinks      \* symlinks the guest makes, at most

\* The host: its root holds the rootfs "r", a directory "b" that is bound read-only,
\* /proc and a directory "c" the session has no business in, which happens to look like
\* one of the guest's.  Directory "b" holds a file
\* and a link to its own parent.
Dirs == DirIds \cup {"H", "R", "B", "P", "P1", "PT", "PT1", "X", "XA"}
Links == LinkIds \cup {"self", "thread-self", "mounts", "cwd", "pipe", "BL"}
Inodes == Dirs \cup Links \cup {"BF", "PF"}
NoInode == "0"
HostNames == {"r", "b", "p", "1", "self", "thread-self", "mounts", "task", "cwd", "fd"}
AllNames == Names \cup HostNames

VARIABLES ent,     \* directory entries: [Dirs -> [AllNames -> Inodes or NoInode]]
          cwd,     \* the guest's working directory, an inode
          cache    \* DirCache: [guest path -> inode]; the host path follows from the key
vars == <<ent, cwd, cache>>

----------------------------------------------------------------------------
\* MountTable, as build_mount_table fills it.
Mount(g, h, ro, k) == [guest |-> g, host |-> h, read_only |-> ro, kind |-> k]
Mounts == {Mount(<<>>, <<"r">>, FALSE, "rootfs"), Mount(<<"m">>, <<"b">>, TRUE, "bind"),
           Mount(<<"p">>, <<"p">>, TRUE, "proc")}

----------------------------------------------------------------------------
\* External: the kernel's own lookup, in the host's namespace or (the reference) in the
\* one the guest should have.  st is the stack of <<name, inode>> from the root.

RootOf(ns) == IF ns = "host" THEN "H" ELSE "R"
Top(ns, st) == IF st = <<>> THEN RootOf(ns) ELSE Last(st)[2]
NamesOf(st) == [i \in 1 .. Len(st) |-> st[i][1]]

MountRoot == [g \in {<<"m">>, <<"p">>} |-> IF g = <<"m">> THEN "B" ELSE "P"]
MountPoint == [B |-> "m", P |-> "p"]

ChildOf(ns, g, dir, c) == IF ns = "guest" /\ g \in DOMAIN MountRoot THEN MountRoot[g]
                          ELSE IF c \in AllNames THEN ent[dir][c] ELSE NoInode

\* The stack of an inode below the root of a namespace, if it has one.
RECURSIVE StackIn(_, _, _)
StackIn(ns, ino, up) ==
    IF ino = RootOf(ns) THEN up
    ELSE IF ns = "guest" /\ ino \in DOMAIN MountPoint THEN <<<<MountPoint[ino], ino>>>> \o up
    ELSE IF \A d \in Dirs, n \in AllNames : ent[d][n] # ino THEN <<<<"gone", NoInode>>>>
    ELSE LET p == CHOOSE q \in Dirs \X AllNames : ent[q[1]][q[2]] = ino
         IN StackIn(ns, p[1], <<<<p[2], ino>>>> \o up)

Found(st, ino) == [err |-> "ok", ino |-> ino, dir |-> NoInode, name |-> "", st |-> st]
Missing(dir, c) == [err |-> "ok", ino |-> NoInode, dir |-> dir, name |-> c, st |-> <<>>]
Errno(e) == [err |-> e, ino |-> NoInode, dir |-> NoInode, name |-> "", st |-> <<>>]

NamesEnd(parts) == \A i \in DOMAIN parts : parts[i] = "."

\* What a symlink stands for: the stack to go on from and the names to walk.
LinkStep(ns, st, ino) ==
    CASE ino \in LinkIds -> [from |-> IF TargetOf[ino].abs THEN <<>> ELSE st,
                             walk |-> TargetOf[ino].parts \o IF TargetOf[ino].slash THEN <<".">> ELSE <<>>]
      [] ino = "BL" -> [from |-> st, walk |-> <<"..">>]
      [] ino = "self" -> [from |-> st, walk |-> <<"1">>]
      [] ino = "thread-self" -> [from |-> st, walk |-> <<"1", "task", "1">>]
      [] ino = "mounts" -> [from |-> st, walk |-> <<"self", "mounts">>]
      [] ino = "cwd" -> [from |-> StackIn(ns, cwd, <<>>), walk |-> <<>>]

RECURSIVE KernelWalk(_, _, _, _, _)

\* Through a symlink, unless it dangles from a directory that is gone or is a pipe.
Follow(ns, l, rest, follow, n) ==
    IF l.from # <<>> /\ Head(l.from)[1] = "gone" THEN Errno("ENOENT")
    ELSE KernelWalk(ns, l.from, l.walk \o rest, follow, n - 1)

\* Into the entry of that name.
Enter(ns, st, c, child, rest, follow, n) ==
    IF child = NoInode THEN IF NamesEnd(rest) THEN Missing(Top(ns, st), c) ELSE Errno("ENOENT")
    ELSE IF child \in Links /\ (rest # <<>> \/ follow)
    THEN IF n = 0 THEN Errno("ELOOP")
         ELSE IF child # "pipe" THEN Follow(ns, LinkStep(ns, st, child), rest, follow, n)
         ELSE IF rest = <<>> THEN Found(st, "pipe") ELSE Errno("ENOTDIR")
    ELSE KernelWalk(ns, Append(st, <<c, child>>), rest, follow, n)

KernelWalk(ns, st, parts, follow, n) ==
    IF parts = <<>> THEN Found(st, Top(ns, st))
    ELSE IF Top(ns, st) \notin Dirs THEN Errno("ENOTDIR")
    ELSE IF Head(parts) = "." THEN KernelWalk(ns, st, Tail(parts), follow, n)
    ELSE IF Head(parts) = ".."
         THEN KernelWalk(ns, IF st = <<>> THEN st ELSE Front(st), Tail(parts), follow, n)
    ELSE Enter(ns, st, Head(parts),
               ChildOf(ns, Append(NamesOf(st), Head(parts)), Top(ns, st), Head(parts)),
               Tail(parts), follow, n)

lstat(h) == KernelWalk("host", <<>>, h, FALSE, MaxSymlinks)
HostPath(ino) == NamesOf(StackIn("host", ino, <<>>))

\* What resolve() asks the host.
Reads(a, ps) == [abs |-> a, parts |-> ps, slash |-> FALSE]
read_link(ino) == CASE ino \in LinkIds -> TargetOf[ino]
                    [] ino = "BL" -> Reads(FALSE, <<"..">>)
                    [] ino = "mounts" -> Reads(FALSE, <<"self", "mounts">>)
                    [] ino = "cwd" -> Reads(TRUE, HostPath(cwd))
                    [] ino = "pipe" -> Reads(FALSE, <<"pipe:[1]">>)

INSTANCE Resolver

----------------------------------------------------------------------------
\* translate_path: relative paths start at the guest name of the working directory, or of
\* the directory a descriptor holds.

cwd_base(t) == [err |-> t.err, path |-> t.parts]
guest_cwd == cwd_base(magic_target(HostPath(cwd)))
guest_fd_path(d) == cwd_base(magic_target(HostPath(d)))

erofs_exists_only(s, r) == r.mount.read_only /\ ~r.magic /\ s.erofs_if_exists /\ r.exists

\* A call that would change something on a read-only mount; an open file of the guest's
\* that a link of /proc stands for is not on it.
erofs(s, r) == /\ r.mount.read_only /\ ~r.magic
               /\ (s.erofs_if_exists /\ r.exists) \/ (s.erofs_if_missing /\ ~r.exists)

NoResult(e) == [err |-> e, guest |-> <<>>, host |-> <<>>, mount |-> mount_for_guest(<<>>),
                exists |-> FALSE, magic |-> FALSE, cache |-> cache]

checked(r, s) == IF r.err = "ok" /\ erofs(s, r) THEN [r EXCEPT !.err = "EROFS"] ELSE r

from_base(base, p, s, c) ==
    IF base.err # "ok" THEN NoResult(base.err)
    ELSE checked(resolve(base.path \o components(p), p.slash, s.follow, c), s)

translate_path(p, s, c) ==
    from_base(IF p.abs THEN [err |-> "ok", path |-> <<>>] ELSE guest_cwd, p, s, c)

\* The PathSpecs dispatch gives its handlers.
spec(follow, ex, missing) ==
    [follow |-> follow, erofs_if_exists |-> ex, erofs_if_missing |-> missing]
SpecOf == [mkdir |-> spec(FALSE, FALSE, TRUE), symlink |-> spec(FALSE, FALSE, TRUE),
           unlink |-> spec(FALSE, TRUE, FALSE),
           rmdir |-> spec(FALSE, TRUE, FALSE), chdir |-> spec(TRUE, FALSE, FALSE),
           stat |-> spec(TRUE, FALSE, FALSE), chmod |-> spec(TRUE, TRUE, FALSE),
           rename_from |-> spec(FALSE, TRUE, FALSE), rename_to |-> spec(FALSE, TRUE, TRUE)]

----------------------------------------------------------------------------
Init ==
    LET empty == [n \in AllNames |-> NoInode]
        dir(f) == [n \in AllNames |-> IF n \in DOMAIN f THEN f[n] ELSE NoInode]
    IN /\ ent = [d \in Dirs |->
                    CASE d = "H" -> dir([r |-> "R", b |-> "B", p |-> "P", c |-> "X"])
                      [] d = "X" -> dir([a |-> "XA"])
                      [] d = "B" -> dir([r |-> "BF", c |-> "BL"])
                      [] d = "P" -> [empty EXCEPT !["self"] = "self", !["thread-self"] = "thread-self",
                                                  !["mounts"] = "mounts", !["1"] = "P1"]
                      [] d = "P1" -> dir([cwd |-> "cwd", fd |-> "pipe", task |-> "PT", mounts |-> "PF"])
                      [] d = "PT" -> [empty EXCEPT !["1"] = "PT1"]
                      [] OTHER -> empty]
       /\ cwd = "R"
       /\ cache = [k \in {} |-> NoInode]

Free(ids) == {i \in ids : \A d \in Dirs, n \in AllNames : ent[d][n] # i} \ {cwd}

AnyOne(ids) == IF ids = {} THEN {} ELSE {CHOOSE i \in ids : TRUE}

SetEntry(d, n, i) == ent' = [ent EXCEPT ![d][n] = i]

\* External: what the kernel does with the host path a call was given, where w is
\* what it finds there.
KernelDoes(op, h, w) ==
    LET new(ids) == IF w.err = "ok" /\ w.ino = NoInode /\ w.name \in Names
                    THEN \E i \in ids : SetEntry(w.dir, w.name, i)
                    ELSE UNCHANGED ent
    IN CASE op = "mkdir" -> new(AnyOne(Free(DirIds))) /\ UNCHANGED cwd
         [] op = "symlink" -> /\ Cardinality(LinkIds \ Free(LinkIds)) < MaxLinks
                              /\ new(Free(LinkIds)) /\ UNCHANGED cwd
         [] op \in {"unlink", "rmdir"} ->
              /\ IF /\ w.err = "ok" /\ w.ino # NoInode
                    /\ (op = "rmdir") = (w.ino \in Dirs)
                    /\ w.ino \in Dirs => \A x \in AllNames : ent[w.ino][x] = NoInode
                 THEN SetEntry(lstat(Front(h)).ino, Last(h), NoInode) ELSE UNCHANGED ent
              /\ UNCHANGED cwd
         [] op = "chdir" -> /\ cwd' = IF w.err = "ok" /\ w.ino \in Dirs THEN w.ino ELSE cwd
                            /\ UNCHANGED ent
         [] OTHER -> UNCHANGED <<ent, cwd>>

\* A path call of the guest.
PathCall(op, p) ==
    \E r \in {translate_path(p, SpecOf[op], cache)} :
       /\ cache' = r.cache
       /\ IF r.err # "ok" THEN UNCHANGED <<ent, cwd>> ELSE KernelDoes(op, r.host, lstat(r.host))

\* External: rename(2) of host paths h1 to h2, where w1 and w2 are found.
KernelRenames(h1, h2, w1, w2, d1) ==
    IF /\ w1.err = "ok" /\ w1.ino # NoInode /\ w1.ino # "R"
       /\ w2.err = "ok" /\ w2.ino = NoInode /\ w2.name \in Names
       /\ w1.ino \notin {x[2] : x \in Range(StackIn("host", w2.dir, <<>>))}
    THEN ent' = [[ent EXCEPT ![d1][Last(h1)] = NoInode] EXCEPT ![w2.dir][w2.name] = w1.ino]
    ELSE UNCHANGED ent

\* rename_like: two translations, EXDEV across mounts, then the kernel's rename.
Rename(p, q) ==
    \E r1 \in {translate_path(p, SpecOf.rename_from, cache)} :
    \E r2 \in {IF r1.err # "ok" THEN r1 ELSE translate_path(q, SpecOf.rename_to, r1.cache)} :
       /\ cache' = r2.cache
       /\ IF r2.err = "ok" /\ r1.mount = r2.mount
          THEN KernelRenames(r1.host, r2.host, lstat(r1.host), lstat(r2.host),
                             lstat(Front(r1.host)).ino)
          ELSE UNCHANGED ent
       /\ UNCHANGED cwd

Next == \/ \E p \in GuestPaths : PathCall("stat", p)
        \/ \E op \in {"mkdir", "symlink", "unlink", "rmdir", "chdir"}, p \in EditPaths :
              PathCall(op, p)
        \/ \E p \in EditPaths, q \in EditPaths : p # q /\ Rename(p, q)

Spec == Init /\ [][Next]_vars

----------------------------------------------------------------------------
\* The lookup the guest is owed, of the names components() leaves.
OwedFrom(st, p, follow_final) ==
    IF st # <<>> /\ Head(st)[1] = "gone" THEN Errno("ENOENT")
    ELSE KernelWalk("guest", st, components(p) \o Slash(p.slash), follow_final, MaxSymlinks)
Owed(p, follow_final) ==
    OwedFrom(IF p.abs THEN <<>> ELSE StackIn("guest", cwd, <<>>), p, follow_final)

NoCache == [k \in {} |-> NoInode]
Lookup(p, follow_final, c) == translate_path(p, spec(follow_final, FALSE, FALSE), c)

Object(w) == [w EXCEPT !.st = <<>>]

\* A translation that comes to the same as a walk: the same error, or a host path at
\* which the kernel finds the same object or the same place to make one.
Same(r, o) == \/ r.magic /\ o.err = "ENOTDIR"
              \/ /\ r.err = o.err
                 /\ r.err = "ok" => /\ Object(lstat(r.host)) = Object(o)
                                    /\ r.exists = (o.ino # NoInode)

\* What the guest may not change: everything on a read-only mount, its own open files aside.
ReadOnly(o) == /\ o.err = "ok" /\ o.ino \notin {NoInode, "pipe"}
               /\ o.st # <<>> /\ Head(o.st)[1] \in {"m", "p"}

\* For every file system the guest can build and every path, resolve() finds the object
\* (or the directory to create it in, or the error) that a kernel walking the guest's
\* own namespace would: symlinks taken at the guest's root, ".." kept inside it, mounts
\* crossed both ways, /proc links of the guest process, a working directory or the
\* directory of an open descriptor that moved or is gone; and a call that changes what it
\* finds is refused with EROFS exactly where that lies on a read-only mount.  In two cases
\* the code is more lenient than a kernel, which the statement allows: a "." at the end
\* of a path asks for nothing (components() drops it), nor does a slash behind a /proc link
\* that stands for an open pipe.
LookupsMatch ==
    \A p \in GuestPaths, f \in BOOLEAN :
       /\ Same(Lookup(p, f, NoCache), Owed(p, f))
       /\ (translate_path(p, SpecOf.chmod, NoCache).err = "EROFS") = ReadOnly(Owed(p, TRUE))
       /\ ~p.abs => \A d \in {"R", "B"} \cup DirIds :
             Same(from_base(guest_fd_path(d), p, spec(f, FALSE, FALSE), NoCache),
                  OwedFrom(StackIn("guest", d, <<>>), p, f))

\* The directory a lookup begins at, and the symlinks it follows from there.
Full(p) == (IF p.abs THEN <<>> ELSE guest_cwd.path) \o components(p)
Begins(p) == begin_at(cache, Full(p))
Followed(p, f) == walk_from(Begins(p), Full(p), p.slash, f).links

\* A name above directory g is a symlink now, and the guest's reading of it is not the
\* host's, or the lookup goes through another symlink from there.
Misled(g, links) ==
    /\ \E k \in 1 .. Len(g) - 1 : lstat(to_host(SubSeq(g, 1, k))).ino \in Links
    /\ links > 0 \/ KernelWalk("guest", <<>>, g, FALSE, MaxSymlinks).ino # cache[g]

\* A lookup that starts at a cached directory finds what one from the root finds, whatever
\* was renamed, removed, or replaced by another directory or by a symlink since the entry
\* was made, with one exception.  resolve() checks that the entry's host path leads to the
\* same inode; where a name above it has become a symlink through which the host still
\* comes to that inode, the entry is used, although the guest may read the link otherwise
\* (an absolute target begins at the guest's root, not at the host's) and be owed another
\* object or an error.  resolver.hpp says such a link is noticed.
CacheTransparent ==
    cache # NoCache =>
    \A p \in GuestPaths, f \in BOOLEAN :
       ~Misled(Begins(p).done, Followed(p, f)) => Same(Lookup(p, f, cache), Owed(p, f))

\* No call changes a directory outside the session's mounts or on a read-only one.
Contained == [][\A d \in {"H", "B", "P", "P1", "PT", "PT1", "X", "XA"} : ent'[d] = ent[d]]_vars
=============================================================================
