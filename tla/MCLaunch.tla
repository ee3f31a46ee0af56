------------------------------ MODULE MCLaunch ------------------------------
EXTENDS Launch, TLC

Base == [kind |-> "text", size |-> 8, x |-> TRUE, noexec |-> FALSE, line |-> <<>>, argv0 |-> FALSE,
         class |-> 64, lsb |-> TRUE, machine |-> "x86_64", version |-> 1, type |-> "DYN",
         phoff |-> 1, phdrs |-> <<>>, entry |-> 0]
Load(va, off, filesz, memsz) ==
    [type |-> "LOAD", va |-> va, off |-> off, filesz |-> filesz, memsz |-> memsz, path |-> <<>>]
InterpIs(p) == [type |-> "INTERP", va |-> 0, off |-> 2, filesz |-> 1, memsz |-> 1, path |-> p]
PhdrAt(va) == [Load(va, 1, 1, 1) EXCEPT !.type = "PHDR"]
Elf(phdrs) == [Base EXCEPT !.kind = "elf", !.phdrs = phdrs]
ScriptOf(line) == [Base EXCEPT !.kind = "script", !.line = line]

sh == <<"/", "bin", "sh">>
ld == <<"/", "ld">>
old == <<"/", "old_ld">>
arg == <<"arg">>
P(n) == <<"/", "bin", n>>

\* Pages of two units.  Text and data with a .bss that starts inside a page; a loader
\* without PT_PHDR; an image linked for its address; images linked for smaller pages: one
\* whose second segment has to be copied, one in which that destroys a byte of the first,
\* one in which both are on the same page of the file.  PT_PHDR that is wrong.
Image == <<InterpIs(ld), PhdrAt(1), Load(0, 0, 3, 3), Load(5, 3, 2, 4)>>
MCFiles ==
    sh :> Elf(Image)
    @@ ld :> [Elf(<<Load(0, 0, 2, 3)>>) EXCEPT !.argv0 = TRUE]
    @@ old :> Elf(<<Load(0, 0, 2, 3)>>)
    @@ P("static") :> [Elf(<<Load(4, 0, 3, 4)>>) EXCEPT !.type = "EXEC", !.entry = 5]
    @@ P("dated") :> Elf(<<InterpIs(old), Load(0, 0, 3, 3)>>)
    @@ P("copied") :> Elf(<<Load(0, 0, 2, 2), Load(3, 2, 1, 2)>>)
    @@ P("shared") :> Elf(<<Load(0, 0, 3, 3), Load(3, 4, 1, 1)>>)
    @@ P("overlaid") :> Elf(<<Load(0, 0, 3, 3), Load(3, 3, 1, 2)>>)
    @@ P("misnamed") :> Elf(<<PhdrAt(2), Load(0, 0, 3, 3)>>)
    @@ P("s1") :> ScriptOf(<<Space, sh, Space, arg, Space, arg, Space>>)
    @@ P("dos") :> ScriptOf(<<sh, Space, Append(arg, CR), Space, Append(Append(arg, CR), CR)>>)
    @@ P("dos1") :> ScriptOf(<<P("dos"), Space, <<CR>>>>)
    @@ P("dos2") :> ScriptOf(<<Append(sh, CR)>>)
    @@ P("fifo") :> [Base EXCEPT !.kind = "fifo"]
    @@ P("s2") :> ScriptOf(<<P("s1")>>)
    @@ P("loop") :> ScriptOf(<<P("loop"), Space, arg>>)
    @@ P("empty") :> ScriptOf(<<Space>>)
    @@ P("text") :> Base
    @@ P("arm") :> [Elf(Image) EXCEPT !.machine = "aarch64"]
    @@ P("two") :> Elf(<<InterpIs(ld), InterpIs(old), Load(0, 0, 3, 3)>>)
    @@ P("lost") :> Elf(<<InterpIs(<<"/", "none">>), Load(0, 0, 3, 3)>>)
    @@ P("below") :> Elf(<<Load(1, 0, 3, 3)>>)
    @@ P("plain") :> [Elf(Image) EXCEPT !.x = FALSE]
    @@ <<"/", "opt", "plain">> :> Elf(Image)
    @@ P("dir") :> [Base EXCEPT !.kind = "dir"]

MCLinks == P("alias") :> sh @@ <<"/", "bin", "x", "sh">> :> sh @@ P("round") :> <<"loop">>
MCShells == <<P("none"), P("alias")>>
MCDirs == {<<"/", "bin">>}

\* An Android app; a desktop without seccomp; every host in between.
MCHosts == {h \in Hosts : h.app => h.android}
App == [app |-> TRUE, android |-> TRUE, explicit |-> FALSE, loader |-> TRUE, ptrace |-> TRUE,
        seccomp |-> TRUE, exec_mapping |-> TRUE]
Plain == [App EXCEPT !.app = FALSE, !.android = FALSE, !.loader = FALSE, !.seccomp = FALSE]

Req(a, s) == [argv |-> a, path |-> <<<<"/", "none">>, <<>>, <<"/", "opt">>>>,
                  cwd |-> <<"/", "bin">>, stdio |-> s, new_session |-> s = <<3, 3, 3>>,
                  engine |-> "auto", host |-> App, seccomp |-> "auto"]
Kept == <<-1, -1, -1>>
Both(r) == {r, [r EXCEPT !.host = Plain]}

Commands == {<<>>, <<<<"s2">>, arg>>, <<<<"plain">>>>, <<<<"nothing">>>>}
            \cup {<<P(n)>> : n \in {"static", "copied", "loop", "empty", "text", "arm", "two",
                                    "lost", "below", "dir", "round", "none", "shared", "overlaid",
                                    "misnamed", "dos1", "dos2", "fifo"}}
            \cup {<<P("dated"), arg>>, <<P("s1"), arg, arg>>, <<<<"x", "sh">>>>}
MCRequests == UNION {Both(Req(a, Kept)) : a \in Commands}
              \cup {Req(<<P("static")>>, s) : s \in {<<1, 0, 2>>, <<2, 3, 1>>, <<3, 3, 3>>, <<-1, 0, 3>>}}
              \cup {[Req(<<P("static")>>, Kept) EXCEPT !.host = h, !.seccomp = m, !.engine = e] :
                       h \in MCHosts, m \in {"on", "off", "auto"}, e \in {"rootless", "vm"}}
              \cup {[Req(<<sh>>, Kept) EXCEPT !.cwd = c] : c \in {<<"/", "none">>, sh}}
=============================================================================
