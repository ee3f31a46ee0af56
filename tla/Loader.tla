------------------------------- MODULE Loader -------------------------------
(***************************************************************************)
(* vhdp-loader (loader.c): it maps a guest ELF file segment by segment.    *)
(* Memory is a function from addresses to what each one holds; a byte of a *)
(* file is named by the file and its offset.  Addresses, offsets and sizes *)
(* count units of which ps make a page.                                    *)
(***************************************************************************)
EXTENDS ExecPlan, FiniteSets

CONSTANTS ps,       \* page size of the device (AT_PAGESZ)
          Pages     \* pages of the address space

ASSUME LoaderAssumption == ps \in Nat \ {0} /\ Pages \in Nat

Addr == 0 .. Pages * ps - 1
Free == <<"free">>
Reserved == <<"reserved">>
Zero == <<"zero">>
Byte(g, o) == IF o < Files[g].size THEN <<"byte", g, o>> ELSE Zero

trunc_page(a) == a - (a % ps)
round_page(a) == trunc_page(a + ps - 1)

\* A mapping at a fixed address replaces whatever was there.
map(mem, what) == [a \in Addr |-> IF a \in DOMAIN what THEN what[a] ELSE mem[a]]

zero_tail_never(ph, file_end) == FALSE

\* The rest of the last file page belongs to the .bss.
zero_tail(ph, file_end) == ph.memsz > ph.filesz /\ file_end % ps # 0

\* The file part: mapped from the file, or copied where the offset does not suit the
\* page size.
map_file(mem, g, ph, va, start, file_end) ==
    IF (ph.off - (va - start)) % ps = 0
    THEN map(mem, [a \in start .. round_page(file_end) - 1 |->
                     IF zero_tail(ph, file_end) /\ a >= file_end THEN Zero
                     ELSE Byte(g, ph.off + a - va)])
    ELSE map(mem, [a \in start .. round_page(file_end) - 1 |->
                     IF va <= a /\ a < file_end THEN Byte(g, ph.off + a - va) ELSE Zero])

map_bss(mem, ph, start, file_end, mem_end) ==
    LET from == IF ph.filesz > 0 THEN round_page(file_end) ELSE start
    IN map(mem, [a \in from .. round_page(mem_end) - 1 |-> Zero])

map_segment(mem, g, ph, va) ==
    map_bss(IF ph.filesz > 0 THEN map_file(mem, g, ph, va, trunc_page(va), va + ph.filesz) ELSE mem,
            ph, trunc_page(va), va + ph.filesz, va + ph.memsz)

\* A segment the loader gives up on.
refused_segment(g, ph) ==
    \/ ph.filesz > ph.memsz
    \/ ph.filesz > 0 /\ ph.off < (ph.va % ps)
    \/ ph.filesz > 0 /\ (ph.off - (ph.va % ps)) % ps # 0 /\ ph.off + ph.filesz > Files[g].size

loads(g) == SelectSeq(Files[g].phdrs, LAMBDA ph : ph.type = "LOAD" /\ ph.memsz > 0)
low(g) == Least({trunc_page(loads(g)[i].va) : i \in DOMAIN loads(g)})
high(g) == Greatest({round_page(loads(g)[i].va + loads(g)[i].memsz) : i \in DOMAIN loads(g)})

\* The program headers of a file, with addresses inside the address space.
Segments == [type : {"LOAD"}, va : Nat, off : Nat, filesz : Nat, memsz : Nat \ {0}, path : {<<>>}]
end(ph) == ph.va + ph.memsz
named_phdrs(g) == SelectSeq(Files[g].phdrs, LAMBDA ph : ph.type = "PHDR")

ASSUME ImagesAssumption ==
    \A g \in DOMAIN Files : Files[g].kind = "elf" =>
        /\ Files[g].phoff \in Nat
        /\ loads(g) \in Seq(Segments)
        /\ \A i \in DOMAIN loads(g) : round_page(end(loads(g)[i])) <= Pages * ps
        /\ named_phdrs(g) # <<>> => Last(named_phdrs(g)).va \in Nat

refused_image(g, is_interp) ==
    \/ g \notin DOMAIN Files
    \/ Files[g].kind # "elf" \/ Files[g].class # 64 \/ ~Files[g].lsb
    \/ Files[g].machine # Machine
    \/ Files[g].type # "DYN" /\ (is_interp \/ Files[g].type # "EXEC")
    \/ Files[g].phdrs = <<>> \/ loads(g) = <<>>
    \/ is_interp /\ interps(Files[g]) # <<>>

\* Where the image may go: anywhere that is free, or where it was linked for.
bases(mem, g) ==
    {b \in {a \in Addr \ {0} : a % ps = 0} :
        /\ Files[g].type = "EXEC" => b = low(g)
        /\ \A a \in b .. b + high(g) - low(g) - 1 : a \in Addr /\ mem[a] = Free}

\* The whole span of an image is reserved first.
reserve(mem, g, base) == map(mem, [a \in base .. base + high(g) - low(g) - 1 |-> Reserved])

\* PT_PHDR names the address of the program headers; without it, every segment that
\* holds them does when it is mapped.
holds_phdrs(g, ph) == /\ Files[g].phoff >= ph.off
                      /\ Files[g].phoff + 1 <= ph.off + ph.filesz

image(g, base) ==
    [file |-> g, base |-> base, entry |-> base - low(g) + Files[g].entry,
     phdr |-> IF named_phdrs(g) = <<>> THEN 0 ELSE base - low(g) + Last(named_phdrs(g)).va]

\* What the image's record says once segment ph is mapped.
with_segment(img, ph) ==
    [file |-> img.file, base |-> img.base, entry |-> img.entry,
     phdr |-> IF named_phdrs(img.file) = <<>> /\ holds_phdrs(img.file, ph)
              THEN img.base - low(img.file) + ph.va + (Files[img.file].phoff - ph.off)
              ELSE img.phdr]
NoImage == [file |-> <<>>, base |-> 0, entry |-> 0, phdr |-> 0]

----------------------------------------------------------------------------
\* What the ELF specification asks of the image of g whose bias is known, when n of its
\* segments are mapped.  Every one is mapped in whole pages: what segment j brings to the
\* pages it shares with i are bytes of i only when it is mapped from the file, i has its
\* bytes from the same place in the file, and they lie before j.
straight(ph) == ph.filesz > 0 /\ (ph.off - (ph.va - trunc_page(ph.va))) % ps = 0
Spoils(g, j, i, k) ==
    LET ph == loads(g)[i]
        other == loads(g)[j]
    IN /\ trunc_page(other.va) <= ph.va + k /\ ph.va + k < round_page(end(other))
       /\ ~ /\ straight(other) /\ other.off - other.va = ph.off - ph.va
            /\ ph.va + k < other.va /\ k < ph.filesz
SegmentOf(mem, g, i, n, bias) ==
    LET ph == loads(g)[i]
    IN \A k \in 0 .. ph.memsz - 1 :
          (\A j \in i + 1 .. n : ~Spoils(g, j, i, k)) =>
             mem[bias + ph.va + k] = IF k < ph.filesz THEN Byte(g, ph.off + k) ELSE Zero
Linked(mem, img) ==
    \A i \in DOMAIN loads(img.file) :
        SegmentOf(mem, img.file, i, Len(loads(img.file)), img.base - low(img.file))

\* Segment i puts the program headers at the address a, counted as the file does.
Puts(g, i, a) == /\ Files[g].phoff - loads(g)[i].off \in 0 .. loads(g)[i].filesz - 1
                 /\ a = loads(g)[i].va + (Files[g].phoff - loads(g)[i].off)
\* The record names such a place, unless PT_PHDR names another.
PhdrsShown(img) ==
    (named_phdrs(img.file) # <<>> =>
        \E i \in DOMAIN loads(img.file) : Puts(img.file, i, Last(named_phdrs(img.file)).va)) =>
    \E i \in DOMAIN loads(img.file) : Puts(img.file, i, img.phdr - (img.base - low(img.file)))
=============================================================================
