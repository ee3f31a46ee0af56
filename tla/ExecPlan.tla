------------------------------ MODULE ExecPlan ------------------------------
(***************************************************************************)
(* ExecResolver: from the path and arguments of an exec to the image that  *)
(* has to run (exec_resolver.cpp, elf.c), and the load request for the     *)
(* userland loader.  A path is a sequence of names, absolute when it       *)
(* begins with "/"; every argument is a sequence of words.  Paths lead to  *)
(* files through Links and Files (PathResolver models the lookup itself).  *)
(***************************************************************************)
EXTENDS Naturals, Sequences, SequencesExt

CONSTANTS Files,    \* guest path -> file
          Links,    \* guest path -> the guest path it leads to
          Machine,  \* what vhdp_elf_host_machine returns
          kMaxShebangDepth,
          kMaxRequest   \* VHDP_LOAD_MAX_SIZE, in words

Paths == Seq(STRING) \ {<<>>}

\* A #! line is a sequence of words with blanks between them; a carriage return is a part
\* of the word it stands in.
Space == <<"_">>
CR == "CR"

ASSUME ExecAssumption ==
    /\ kMaxShebangDepth \in Nat
    /\ \A g \in DOMAIN Files : /\ g \in Paths /\ Head(g) = "/"
                               /\ Files[g].line \in Seq(Paths)
                               /\ \A i \in 1 .. Len(Files[g].line) - 1 :
                                     Space \in {Files[g].line[i], Files[g].line[i + 1]}

is_absolute(p) == p # <<>> /\ Head(p) = "/"
join(dir, p) == dir \o p
absolute(p, cwd) == IF is_absolute(p) THEN p ELSE join(cwd, p)

\* vfs::resolve, as far as exec looks at it.
resolve(p) == LET g == IF p \in DOMAIN Links THEN Links[p] ELSE p
              IN IF g = <<"loop">> THEN [err |-> "ELOOP", guest |-> g]
                 ELSE IF g \in DOMAIN Files THEN [err |-> "ok", guest |-> g]
                 ELSE [err |-> "ENOENT", guest |-> g]
is_file(r) == r.err = "ok" /\ Files[r.guest].kind # "dir"

----------------------------------------------------------------------------
\* parse_shebang.  Blanks and carriage returns are taken off the end of the argument; one
\* right after the interpreter belongs to its name.
Least(is) == CHOOSE i \in is : \A j \in is : i <= j
Greatest(is) == CHOOSE i \in is : \A j \in is : j <= i
skip_blanks(s) == LET n == {i \in DOMAIN s : s[i] # Space}
                  IN IF n = {} THEN <<>> ELSE SubSeq(s, Least(n), Len(s))
chomp(w) == LET n == {i \in DOMAIN w : w[i] # CR}
            IN IF n = {} THEN <<>> ELSE SubSeq(w, 1, Greatest(n))
Solid(w) == w # Space /\ chomp(w) # <<>>
trim_end(s) == LET n == {i \in DOMAIN s : Solid(s[i])}
               IN IF n = {} THEN <<>>
                  ELSE Append(SubSeq(s, 1, Greatest(n) - 1), chomp(s[Greatest(n)]))
optional(arg) == IF arg = <<>> THEN <<>> ELSE <<FlattenSeq(arg)>>
parse_shebang(line) ==
    LET rest == skip_blanks(line)
    IN IF rest = <<>> THEN [interp |-> <<>>, args |-> <<>>]
       ELSE [interp |-> Head(rest), args |-> optional(trim_end(skip_blanks(Tail(rest))))]

\* vhdp_elf_parse_header; machine stays unknown until the encoding was checked.
Header(e, m, c) == [err |-> e, machine |-> m, class |-> c]
parse_header(f) ==
    IF f.kind # "elf" THEN Header(IF f.size < 4 THEN "truncated" ELSE "not_elf", "", 0)
    ELSE IF ~f.lsb THEN Header("unsupported_encoding", "", 0)
    ELSE IF f.class = 32 THEN Header("unsupported_class", f.machine, 32)
    ELSE IF f.class # 64 THEN Header("not_elf", f.machine, 0)
    ELSE IF f.version # 1 THEN Header("bad_version", f.machine, 64)
    ELSE IF f.type \notin {"EXEC", "DYN"} THEN Header("bad_type", f.machine, 64)
    ELSE IF f.phdrs = <<>> \/ f.phoff + 1 > f.size THEN Header("bad_phdr", f.machine, 64)
    ELSE Header("ok", f.machine, 64)

interps(f) == SelectSeq(f.phdrs, LAMBDA ph : ph.type = "INTERP")

\* vhdp_elf_scan_phdrs and vhdp_elf_validate_interp.
scan_phdrs(f) == \/ interps(f) = <<>>
                 \/ /\ Len(interps(f)) = 1
                    /\ \A i \in DOMAIN interps(f) : interps(f)[i].off + interps(f)[i].filesz <= f.size
validate_interp(p) == is_absolute(p)

----------------------------------------------------------------------------
NoPlan == [err |-> "", diag |-> "", host_exec |-> <<>>, argv |-> <<>>, guest_program |-> <<>>,
           guest_loader |-> <<>>, program_argv |-> <<>>, via_loader |-> FALSE,
           loader_argv0 |-> FALSE]
Refuse(e, d) == [NoPlan EXCEPT !.err = e, !.diag = d]

loader_supports_argv0(g) == Files[g].argv0

\* The final program is a dynamic ELF: its loader runs it from a command line.
via_loader(g, argv, lr) ==
    IF lr.err # "ok" \/ ~is_file(lr)
    THEN Refuse(IF lr.err \notin {"ok", "ENOENT"} THEN lr.err ELSE "ENOENT", "loader_missing")
    ELSE IF parse_header(Files[lr.guest]).err # "ok" \/ Files[lr.guest].machine # Machine
    THEN Refuse("ENOEXEC", "loader_invalid")
    ELSE [err |-> "ok", diag |-> "", host_exec |-> lr.guest,
          argv |-> <<Head(argv)>>
                   \o (IF loader_supports_argv0(lr.guest) THEN <<<<"--argv0">>, Head(argv)>> ELSE <<>>)
                   \o <<g>> \o Tail(argv),
          guest_program |-> g, guest_loader |-> lr.guest, program_argv |-> argv,
          via_loader |-> TRUE, loader_argv0 |-> loader_supports_argv0(lr.guest)]

plan_elf(g, f, h, argv) ==
    IF h.err = "not_elf" \/ (h.err = "truncated" /\ f.size < 4) THEN Refuse("ENOEXEC", "format")
    ELSE IF h.machine # "" /\ (h.machine # Machine \/ h.class = 32) THEN Refuse("ENOEXEC", "abi_mismatch")
    ELSE IF h.err # "ok" \/ ~scan_phdrs(f) THEN Refuse("ENOEXEC", "bad_elf")
    ELSE IF interps(f) = <<>>
    THEN [NoPlan EXCEPT !.err = "ok", !.host_exec = g, !.argv = argv, !.guest_program = g,
                        !.program_argv = argv]
    ELSE IF ~validate_interp(interps(f)[1].path) THEN Refuse("ENOEXEC", "bad_elf")
    ELSE via_loader(g, argv, resolve(interps(f)[1].path))

\* One round of plan()'s loop ends in a plan, or goes on with a script's interpreter as
\* the file to look at and the arguments it is given.
Decided(p) == [current |-> <<>>, argv |-> <<>>, plan |-> p]
GoOn(current, argv) == [current |-> current, argv |-> argv, plan |-> NoPlan]

plan_script(g, f, s, current, argv, cwd) ==
    IF f.kind = "script" /\ s.interp # <<>>
    THEN GoOn(absolute(s.interp, cwd), <<s.interp>> \o s.args \o <<current>> \o Tail(argv))
    ELSE Decided(plan_elf(g, f, parse_header(f), argv))

\* plan() gets as far as to open the file; a FIFO is opened like any other and waits for
\* a writer before it is refused.
opens(found) == is_file(found) /\ Files[found.guest].x /\ ~Files[found.guest].noexec
waits(found) == opens(found) /\ Files[found.guest].kind = "fifo"

plan_file(found, current, argv, cwd) ==
    IF found.err # "ok" THEN Decided(Refuse(found.err, ""))
    ELSE IF ~is_file(found) \/ ~Files[found.guest].x THEN Decided(Refuse("EACCES", ""))
    ELSE IF Files[found.guest].noexec THEN Decided(Refuse("EACCES", "noexec_mount"))
    ELSE IF Files[found.guest].kind = "fifo" THEN Decided(Refuse("EACCES", ""))
    ELSE plan_script(found.guest, Files[found.guest], parse_shebang(Files[found.guest].line),
                     current, argv, cwd)

plan_round(depth, current, argv, cwd) ==
    IF depth > kMaxShebangDepth THEN Decided(Refuse("ELOOP", "shebang_loop"))
    ELSE plan_file(resolve(current), current, argv, cwd)

\* search_path: the first directory of PATH that holds an executable file of that name;
\* an empty one means the working directory.
candidates(name, path_list, cwd) ==
    [i \in DOMAIN path_list |->
        join(IF path_list[i] = <<>> THEN cwd ELSE absolute(path_list[i], cwd), name)]

search_path(name, path_list, cwd) ==
    LET c == candidates(name, path_list, cwd)
        files == {i \in DOMAIN c : is_file(resolve(c[i]))}
        usable == {i \in files : Files[resolve(c[i]).guest].x}
    IN IF usable # {}
       THEN [err |-> "ok", path |-> c[Least(usable)]]
       ELSE [err |-> IF files = {} THEN "ENOENT" ELSE "EACCES", path |-> <<>>]

\* make_load_request: what the loader needs; nothing when it would be too long.
NoRequest == [program |-> <<>>, interp |-> <<>>, execfn |-> <<>>, name |-> ""]
make_load_request(p, execfn) ==
    IF Len(p.guest_program) + Len(p.guest_loader) + Len(execfn) + 1 > kMaxRequest THEN NoRequest
    ELSE [program |-> p.guest_program, interp |-> IF p.via_loader THEN p.guest_loader ELSE <<>>,
          execfn |-> execfn, name |-> Last(execfn)]
=============================================================================
