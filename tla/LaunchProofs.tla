---------------------------- MODULE LaunchProofs ----------------------------
(***************************************************************************)
(* Proofs about Launch, for every set of requests, files and links, every  *)
(* page size and size of the address space.                                *)
(*                                                                         *)
(* The inductive invariant has three parts.  One says where the supervisor *)
(* and the child can stand at the same time, what has been reported by     *)
(* then, and what the child's descriptors, privileges and filter are at    *)
(* each of its places; the reported outcome and the confinement of the     *)
(* guest follow.  The second compares the plan with execve(2): round by    *)
(* round the loop of plan() is where execve(2) would be, so a plan runs    *)
(* what is owed, and it reaches the first instruction unchanged.  That     *)
(* takes an induction over the rounds, done here by the least number that  *)
(* is no element of a set.  The third follows the loader segment by        *)
(* segment: the segments mapped so far hold what they were linked to hold, *)
(* except for the bytes later ones spoil, inside a span that was free when *)
(* the image was given its place.  It rests on the arithmetic of whole     *)
(* pages, and on lemmas about map_segment: what it writes, what it shows   *)
(* of the file before the segment, and what it leaves.                     *)
(***************************************************************************)
EXTENDS Launch, TLAPS, WellFoundedInduction, NaturalsInduction

----------------------------------------------------------------------------
(* Arithmetic of pages. *)

\* The place of an address in its page.
LEMMA ModRange == ASSUME NEW a \in Int PROVE a % ps \in 0 .. ps - 1
BY LoaderAssumption

\* An address is its page and its place in it.
LEMMA DivMod ==
  ASSUME NEW a \in Int
  PROVE  a \div ps \in Int /\ a = ps * (a \div ps) + (a % ps)
BY LoaderAssumption

\* There is one way to split an address.
LEMMA ModUnique ==
  ASSUME NEW a \in Int, NEW q \in Int, NEW r \in 0 .. ps - 1, a = ps * q + r
  PROVE  a % ps = r
BY LoaderAssumption

\* A shift by whole pages leaves the place in the page alone.
LEMMA ModShift ==
  ASSUME NEW a \in Int, NEW b \in Int, b % ps = 0
  PROVE  (a + b) % ps = a % ps
<1> DEFINE q == a \div ps
           s == b \div ps
           r == a % ps
<1>1. a = ps * q + r /\ q \in Int /\ r \in 0 .. ps - 1
  BY ModRange, DivMod
<1>2. b = ps * s /\ s \in Int
  BY DivMod, LoaderAssumption
<1> HIDE DEF q, s, r
<1>3. ps * q + ps * s = ps * (q + s)
  BY <1>1, <1>2, LoaderAssumption
<1>4. a + b = ps * (q + s) + r
  BY <1>1, <1>2, <1>3, LoaderAssumption
<1>5. (a + b) % ps = r
  BY <1>1, <1>2, <1>4, ModUnique, LoaderAssumption
<1> QED BY <1>5 DEF r

\* trunc_page gives the start of the page an address is in.
LEMMA TruncPage ==
  ASSUME NEW a \in Int
  PROVE  /\ trunc_page(a) \in Int /\ trunc_page(a) <= a /\ a < trunc_page(a) + ps
         /\ trunc_page(a) % ps = 0
         /\ a \in Nat => trunc_page(a) \in Nat
<1> DEFINE q == a \div ps
           r == a % ps
<1>1. a = ps * q + r /\ q \in Int /\ r \in 0 .. ps - 1
  BY ModRange, DivMod
<1>2. trunc_page(a) = a - r
  BY DEF trunc_page
<1> HIDE DEF q, r
<1>3. trunc_page(a) = ps * q + 0
  BY <1>1, <1>2, LoaderAssumption
<1>4. trunc_page(a) \in Int /\ trunc_page(a) <= a /\ a < trunc_page(a) + ps
  BY <1>1, <1>2, LoaderAssumption
<1>5. trunc_page(a) % ps = 0
  BY <1>1, <1>3, <1>4, ModUnique, LoaderAssumption
<1>6. ASSUME a \in Nat PROVE trunc_page(a) \in Nat
  <2>1. q \in Nat
    BY <1>1, <1>6, LoaderAssumption
  <2> QED BY <1>3, <2>1, LoaderAssumption
<1> QED BY <1>4, <1>5, <1>6

\* round_page gives the next start of a page, or the address itself if it is one.
LEMMA RoundPage ==
  ASSUME NEW a \in Int
  PROVE  /\ round_page(a) \in Int /\ a <= round_page(a) /\ round_page(a) < a + ps
         /\ round_page(a) % ps = 0
         /\ a % ps = 0 => round_page(a) = a
<1>1. a + ps - 1 \in Int
  BY LoaderAssumption
<1>2. /\ round_page(a) \in Int /\ round_page(a) <= a + ps - 1 /\ a + ps - 1 < round_page(a) + ps
      /\ round_page(a) % ps = 0
  BY <1>1, TruncPage, LoaderAssumption DEF round_page
<1>3. ASSUME a % ps = 0 PROVE round_page(a) = a
  <2>1. ((ps - 1) + a) % ps = (ps - 1) % ps
    <3>1. ps - 1 \in Int
      BY LoaderAssumption
    <3> QED BY <3>1, <1>3, ModShift, Zenon
  <2>2. (ps - 1) % ps = ps - 1
    <3>1. ps - 1 = ps * 0 + (ps - 1) /\ ps - 1 \in 0 .. ps - 1
      BY LoaderAssumption
    <3> QED BY <3>1, ModUnique, LoaderAssumption
  <2>3. (ps - 1) + a = a + ps - 1
    BY LoaderAssumption
  <2> QED BY <2>1, <2>2, <2>3, LoaderAssumption DEF round_page, trunc_page
<1> QED BY <1>2, <1>3, LoaderAssumption

\* A number of whole pages.
WholePages(b) == b % ps = 0

\* Both commute with a shift by whole pages, such as the bias of an image.
LEMMA PageShift ==
  ASSUME NEW a \in Int, NEW b \in Int, WholePages(b)
  PROVE  trunc_page(a + b) = trunc_page(a) + b /\ round_page(a + b) = round_page(a) + b
<1>1. \A c \in Int : trunc_page(c + b) = trunc_page(c) + b
  BY ModShift, ModRange DEF trunc_page, WholePages
<1>2. a + b + ps - 1 = (a + ps - 1) + b /\ a + ps - 1 \in Int
  BY LoaderAssumption
<1> QED BY <1>1, <1>2 DEF round_page

\* round_page keeps the order of addresses.
LEMMA RoundMonotone ==
  ASSUME NEW a \in Int, NEW b \in Int, a <= b
  PROVE  round_page(a) <= round_page(b)
<1> DEFINE c == round_page(b) - round_page(a)
<1>1. /\ round_page(a) \in Int /\ round_page(b) \in Int
      /\ round_page(a) < a + ps /\ b <= round_page(b)
      /\ round_page(a) % ps = 0 /\ round_page(b) % ps = 0
  BY RoundPage
<1>2. PICK p, q \in Int : round_page(a) = ps * p /\ round_page(b) = ps * q
  <2>1. round_page(a) = ps * (round_page(a) \div ps) /\ round_page(a) \div ps \in Int
    BY <1>1, DivMod, LoaderAssumption
  <2>2. round_page(b) = ps * (round_page(b) \div ps) /\ round_page(b) \div ps \in Int
    BY <1>1, DivMod, LoaderAssumption
  <2> QED BY <2>1, <2>2
<1>3. ps * p < ps * q + ps
  BY <1>1, <1>2, LoaderAssumption
<1>4. p < q + 1
  <2>1. ASSUME p >= q + 1 PROVE FALSE
    <3>1. ps * p >= ps * (q + 1)
      BY <2>1, LoaderAssumption
    <3>2. ps * (q + 1) = ps * q + ps
      BY LoaderAssumption
    <3> QED BY <1>3, <3>1, <3>2, LoaderAssumption
  <2> QED BY <2>1
<1>5. ps * p <= ps * q
  BY <1>4, LoaderAssumption
<1> QED BY <1>2, <1>5

\* A set of natural numbers has a least element.
LEMMA LeastExists ==
  ASSUME NEW S \in SUBSET Nat, S # {}
  PROVE  \E n \in S : \A m \in S : n <= m
<1>1. PICK n \in S : \A m \in S : ~(<<m, n>> \in OpToRel(<, Nat))
  BY NatLessThanWellFounded, WFMin
<1>2. \A m \in S : <<m, n>> \in Nat \X Nat
  OBVIOUS
<1>3. \A m \in S : ~(m < n)
  BY <1>1, <1>2 DEF OpToRel
<1> QED BY <1>3

\* What holds at 0 and is handed on holds up to n.
LEMMA UpTo ==
  ASSUME NEW n \in Nat, NEW S, 0 \in S, \A k \in 0 .. n - 1 : k \in S => k + 1 \in S
  PROVE  \A k \in 0 .. n : k \in S
<1> DEFINE T == {k \in 0 .. n : k \notin S}
<1>1. SUFFICES ASSUME T # {} PROVE FALSE
  OBVIOUS
<1>2. PICK m \in T : \A k \in T : m <= k
  <2>1. T \in SUBSET Nat
    OBVIOUS
  <2> QED BY <1>1, <2>1, LeastExists
<1>3. m \in 1 .. n
  BY <1>2
<1>4. m - 1 \in S
  BY <1>2, <1>3
<1> QED BY <1>2, <1>3, <1>4

\* Least finds it.
LEMMA LeastIs ==
  ASSUME NEW S \in SUBSET Nat, S # {}
  PROVE  Least(S) \in S /\ \A m \in S : Least(S) <= m
BY LeastExists DEF Least

\* Nothing but the least element is one.
LEMMA LeastUnique ==
  ASSUME NEW S \in SUBSET Nat, NEW n \in S, \A m \in S : n <= m
  PROVE  Least(S) = n
<1>1. Least(S) \in S /\ Least(S) <= n
  BY LeastIs
<1>2. n <= Least(S) /\ Least(S) \in Nat
  BY <1>1
<1> QED BY <1>1, <1>2

\* Nothing but the greatest element is one.
LEMMA GreatestUnique ==
  ASSUME NEW S \in SUBSET Nat, NEW n \in S, \A m \in S : m <= n
  PROVE  Greatest(S) = n
<1>1. Greatest(S) \in S /\ \A m \in S : m <= Greatest(S)
  BY DEF Greatest
<1>2. Greatest(S) \in Nat /\ n \in Nat /\ n <= Greatest(S) /\ Greatest(S) <= n
  BY <1>1
<1> QED BY <1>2

\* Greatest finds the greatest element of a bounded set.
LEMMA GreatestIs ==
  ASSUME NEW n \in Nat, NEW S \in SUBSET (0 .. n), S # {}
  PROVE  Greatest(S) \in S /\ \A m \in S : m <= Greatest(S)
<1> DEFINE T == {n - x : x \in S}
<1>1. T \in SUBSET Nat /\ T # {}
  <2>1. \A x \in S : x \in 0 .. n
    OBVIOUS
  <2>2. \A x \in S : n - x \in Nat
    BY <2>1
  <2> QED BY <2>2
<1>2. PICK t \in T : \A u \in T : t <= u
  BY <1>1, LeastExists
<1>3. PICK x \in S : t = n - x
  OBVIOUS
<1>4. \A y \in S : n - y \in T
  OBVIOUS
<1>5. \A y \in S : n - x <= n - y
  BY <1>2, <1>3, <1>4
<1>6. \A y \in S : y <= x
  BY <1>5
<1> QED BY <1>6 DEF Greatest

----------------------------------------------------------------------------
(* The span of an image. *)

Loadable(g) == g \in DOMAIN Files /\ Files[g].kind = "elf" /\ loads(g) # <<>>
Span(img) == img.base .. img.base + high(img.file) - low(img.file) - 1

\* The segments of a file that can be loaded are numbered and have numbers for addresses.
LEMMA SegmentType ==
  ASSUME NEW g, Loadable(g)
  PROVE  /\ Len(loads(g)) \in Nat \ {0} /\ DOMAIN loads(g) = 1 .. Len(loads(g))
         /\ \A i \in DOMAIN loads(g) :
               /\ loads(g)[i].va \in Nat /\ loads(g)[i].off \in Nat /\ loads(g)[i].filesz \in Nat
               /\ loads(g)[i].memsz \in Nat \ {0}
               /\ end(loads(g)[i]) \in Nat
<1>1. loads(g) \in Seq(Segments)
  BY ImagesAssumption DEF Loadable
<1>2. \A i \in DOMAIN loads(g) : loads(g)[i] \in Segments
  BY <1>1
<1>3. Len(loads(g)) \in Nat \ {0} /\ DOMAIN loads(g) = 1 .. Len(loads(g))
  BY <1>1 DEF Loadable
<1> QED BY <1>2, <1>3 DEF Segments, end

\* The span runs over whole pages and holds every segment.
LEMMA LowHigh ==
  ASSUME NEW g, Loadable(g)
  PROVE  /\ low(g) \in Nat /\ high(g) \in Nat /\ low(g) % ps = 0
         /\ \A i \in DOMAIN loads(g) : /\ low(g) <= trunc_page(loads(g)[i].va)
                                       /\ round_page(end(loads(g)[i])) <= high(g)
<1> DEFINE lows == {trunc_page(loads(g)[i].va) : i \in DOMAIN loads(g)}
           highs == {round_page(loads(g)[i].va + loads(g)[i].memsz) : i \in DOMAIN loads(g)}
<1>1. 1 \in DOMAIN loads(g)
  BY SegmentType
<1>2. lows \in SUBSET Nat /\ lows # {}
  <2>1. \A i \in DOMAIN loads(g) : trunc_page(loads(g)[i].va) \in Nat
    <3> TAKE i \in DOMAIN loads(g)
    <3>1. loads(g)[i].va \in Nat
      BY SegmentType
    <3> QED BY <3>1, TruncPage
  <2> QED BY <1>1, <2>1
<1>3. Pages * ps \in Nat
  BY LoaderAssumption
<1>4. highs \in SUBSET (0 .. Pages * ps) /\ highs # {}
  <2>1. \A i \in DOMAIN loads(g) : round_page(end(loads(g)[i])) \in 0 .. Pages * ps
    <3> TAKE i \in DOMAIN loads(g)
    <3>1. round_page(end(loads(g)[i])) <= Pages * ps
      BY ImagesAssumption DEF Loadable
    <3>2. end(loads(g)[i]) \in Nat
      BY SegmentType
    <3>3. round_page(end(loads(g)[i])) \in Int /\ end(loads(g)[i]) <= round_page(end(loads(g)[i]))
      BY <3>2, RoundPage
    <3> QED BY <1>3, <3>1, <3>2, <3>3
  <2> QED BY <1>1, <2>1 DEF end
<1>5. low(g) \in lows /\ \A m \in lows : low(g) <= m
  BY <1>2, LeastIs DEF low
<1>6. high(g) \in highs /\ \A m \in highs : m <= high(g)
  BY <1>3, <1>4, GreatestIs DEF high
<1>7. low(g) % ps = 0
  BY <1>5, SegmentType, TruncPage
<1> QED BY <1>2, <1>3, <1>4, <1>5, <1>6, <1>7 DEF end

----------------------------------------------------------------------------
(* What map_segment does to memory. *)

\* It leaves what is outside the segment's pages alone.
LEMMA SegmentFrame ==
  ASSUME NEW m, NEW g, NEW ph, NEW va \in Int,
         ph.filesz \in Nat, ph.memsz \in Nat, ph.filesz <= ph.memsz,
         NEW a \in Addr, a \notin trunc_page(va) .. round_page(va + ph.memsz) - 1
  PROVE  map_segment(m, g, ph, va)[a] = m[a]
<1> DEFINE file_end == va + ph.filesz
           mem_end == va + ph.memsz
<1>1. /\ file_end \in Int /\ mem_end \in Int /\ file_end <= mem_end
      /\ trunc_page(va) \in Int /\ trunc_page(va) <= va
  BY TruncPage
<1>2. /\ round_page(file_end) <= round_page(mem_end)
      /\ round_page(file_end) \in Int /\ round_page(mem_end) \in Int
      /\ file_end <= round_page(file_end)
  BY <1>1, RoundMonotone, RoundPage
<1>3. a \notin trunc_page(va) .. round_page(file_end) - 1
  BY <1>1, <1>2 DEF Addr
<1>4. a \notin round_page(file_end) .. round_page(mem_end) - 1
  BY <1>1, <1>2 DEF Addr
<1>5. map_file(m, g, ph, va, trunc_page(va), file_end)[a] = m[a]
  BY <1>3 DEF map_file, map
<1>6. \A x : map_bss(x, ph, trunc_page(va), file_end, mem_end)[a] = x[a]
  BY <1>4 DEF map_bss, map
<1> QED BY <1>5, <1>6 DEF map_segment

\* It leaves the segment as it was linked.
LEMMA SegmentMapped ==
  ASSUME NEW m, NEW g, NEW ph, NEW va \in Int,
         ph.off \in Nat, ph.filesz \in Nat, ph.memsz \in Nat, ph.filesz <= ph.memsz,
         NEW k \in 0 .. ph.memsz - 1, va + k \in Addr
  PROVE  map_segment(m, g, ph, va)[va + k] = IF k < ph.filesz THEN Byte(g, ph.off + k) ELSE Zero
<1> DEFINE file_end == va + ph.filesz
           mem_end == va + ph.memsz
           a == va + k
           mf == map_file(m, g, ph, va, trunc_page(va), file_end)
<1>1. /\ file_end \in Int /\ mem_end \in Int /\ file_end <= mem_end
      /\ trunc_page(va) \in Int /\ trunc_page(va) <= va
  BY TruncPage
<1>2. /\ round_page(file_end) \in Int /\ round_page(mem_end) \in Int
      /\ file_end <= round_page(file_end) /\ mem_end <= round_page(mem_end)
      /\ file_end % ps = 0 => round_page(file_end) = file_end
  BY <1>1, RoundPage
<1>3. ph.off + a - va = ph.off + k
  OBVIOUS
<1>4. CASE k < ph.filesz
  <2>1. /\ a \in trunc_page(va) .. round_page(file_end) - 1 /\ a < file_end /\ va <= a
        /\ ph.filesz > 0
        /\ a \notin round_page(file_end) .. round_page(mem_end) - 1
    BY <1>1, <1>2, <1>4
  <2>2. mf[a] = Byte(g, ph.off + k)
    BY <1>1, <1>3, <2>1 DEF map_file, map
  <2>3. map_bss(mf, ph, trunc_page(va), file_end, mem_end)[a] = mf[a]
    BY <2>1 DEF map_bss, map
  <2> QED BY <1>4, <2>1, <2>2, <2>3 DEF map_segment
<1>5. CASE ~(k < ph.filesz) /\ ph.filesz > 0 /\ a < round_page(file_end)
  <2>1. /\ a \in trunc_page(va) .. round_page(file_end) - 1 /\ a >= file_end
        /\ ph.memsz > ph.filesz
        /\ a \notin round_page(file_end) .. round_page(mem_end) - 1
    BY <1>1, <1>2, <1>5
  <2>2. zero_tail(ph, file_end)
    BY <1>1, <1>2, <2>1, <1>5 DEF zero_tail
  <2>3. mf[a] = Zero
    BY <1>1, <2>1, <2>2 DEF map_file, map
  <2>4. map_bss(mf, ph, trunc_page(va), file_end, mem_end)[a] = mf[a]
    BY <2>1, <1>5 DEF map_bss, map
  <2> QED BY <1>5, <2>3, <2>4 DEF map_segment
<1>6. CASE ~(k < ph.filesz) /\ ~(ph.filesz > 0 /\ a < round_page(file_end))
  <2>1. a \in (IF ph.filesz > 0 THEN round_page(file_end) ELSE trunc_page(va)) .. round_page(mem_end) - 1
    BY <1>1, <1>2, <1>6
  <2>2. \A x : map_bss(x, ph, trunc_page(va), file_end, mem_end)[a] = Zero
    BY <2>1 DEF map_bss, map
  <2> QED BY <1>6, <2>2 DEF map_segment
<1> QED BY <1>4, <1>5, <1>6

\* Mapped from the file, it shows before the segment what is before it in the file.
LEMMA SegmentBefore ==
  ASSUME NEW m, NEW g, NEW ph, NEW va \in Int,
         ph.off \in Nat, ph.filesz \in Nat, ph.memsz \in Nat, ph.filesz > 0, ph.filesz <= ph.memsz,
         (ph.off - (va - trunc_page(va))) % ps = 0,
         NEW a \in Addr, a \in trunc_page(va) .. va - 1
  PROVE  map_segment(m, g, ph, va)[a] = Byte(g, ph.off + a - va)
<1> DEFINE file_end == va + ph.filesz
           mem_end == va + ph.memsz
           mf == map_file(m, g, ph, va, trunc_page(va), file_end)
<1>1. /\ file_end \in Int /\ mem_end \in Int /\ file_end <= mem_end
      /\ trunc_page(va) \in Int /\ trunc_page(va) <= va
  BY TruncPage
<1>2. round_page(file_end) \in Int /\ file_end <= round_page(file_end) /\ round_page(mem_end) \in Int
  BY <1>1, RoundPage
<1>3. /\ a \in trunc_page(va) .. round_page(file_end) - 1 /\ ~(a >= file_end)
      /\ a \notin round_page(file_end) .. round_page(mem_end) - 1
  BY <1>1, <1>2
<1>4. mf[a] = Byte(g, ph.off + a - va)
  BY <1>3 DEF map_file, map
<1>5. map_bss(mf, ph, trunc_page(va), file_end, mem_end)[a] = mf[a]
  BY <1>3 DEF map_bss, map
<1> QED BY <1>4, <1>5 DEF map_segment

\* It gives nothing back.
LEMMA SegmentTakes ==
  ASSUME NEW m, NEW g, NEW ph, NEW va, NEW a \in Addr, m[a] # Free
  PROVE  map_segment(m, g, ph, va)[a] # Free
<1> DEFINE from == trunc_page(va)
           file_end == va + ph.filesz
           mem_end == va + ph.memsz
           mf == map_file(m, g, ph, va, from, file_end)
<1>1. \A h, o : Byte(h, o) # Free /\ Zero # Free
  BY DEF Byte, Zero, Free
<1>2. mf[a] # Free
  <2>1. mf[a] = m[a] \/ mf[a] = Zero \/ mf[a] = Byte(g, ph.off + a - va)
    BY DEF map_file, map
  <2> QED BY <1>1, <2>1
<1>3. ASSUME NEW x, x[a] # Free PROVE map_bss(x, ph, from, file_end, mem_end)[a] # Free
  <2>1. \/ map_bss(x, ph, from, file_end, mem_end)[a] = x[a]
        \/ map_bss(x, ph, from, file_end, mem_end)[a] = Zero
    BY DEF map_bss, map
  <2> QED BY <1>1, <1>3, <2>1
<1> QED BY <1>2, <1>3 DEF map_segment

----------------------------------------------------------------------------
(* Mapping one segment of an image that has its place. *)

Bias(img) == img.base - low(img.file)
\* Segment i is in place when the first n are mapped.
SegmentAt(m, img, i, n) == SegmentOf(m, img.file, i, n, Bias(img))
\* No address of the span is free.
Taken(m, img) == \A a \in Span(img) : m[a] # Free
Placed(img) == /\ Loadable(img.file) /\ img.base \in Nat /\ img.base % ps = 0
               /\ Span(img) \subseteq Addr

\* An image is shifted by whole pages from where it was linked.
LEMMA BiasFacts ==
  ASSUME NEW img, Placed(img)
  PROVE  Bias(img) \in Int /\ WholePages(Bias(img))
<1>1. low(img.file) \in Nat /\ low(img.file) % ps = 0 /\ img.base \in Nat /\ img.base % ps = 0
  BY LowHigh DEF Placed
<1>2. Bias(img) \in Int /\ Bias(img) + low(img.file) = img.base
  BY <1>1 DEF Bias
<1>3. (Bias(img) + low(img.file)) % ps = Bias(img) % ps
  BY <1>1, <1>2, ModShift
<1> QED BY <1>1, <1>2, <1>3 DEF WholePages

\* A segment's pages lie in the span of the image.
LEMMA PagesInSpan ==
  ASSUME NEW img, Placed(img), NEW i \in DOMAIN loads(img.file)
  PROVE  LET ph == loads(img.file)[i]
             va == Bias(img) + ph.va
         IN /\ va \in Int /\ va + ph.memsz \in Int
            /\ trunc_page(va) = trunc_page(ph.va) + Bias(img)
            /\ round_page(va + ph.memsz) = round_page(end(ph)) + Bias(img)
            /\ trunc_page(va) \in Int /\ round_page(va + ph.memsz) \in Int
            /\ trunc_page(va) <= va /\ va + ph.memsz <= round_page(va + ph.memsz)
            /\ trunc_page(va) .. round_page(va + ph.memsz) - 1 \subseteq Span(img)
<1> DEFINE ph == loads(img.file)[i]
           va == Bias(img) + ph.va
<1>1. Bias(img) \in Int /\ WholePages(Bias(img))
  BY BiasFacts
<1>2. ph.va \in Nat /\ ph.memsz \in Nat \ {0} /\ end(ph) \in Nat
  BY SegmentType DEF Placed
<1>3. va = ph.va + Bias(img) /\ va + ph.memsz = end(ph) + Bias(img)
  BY <1>1, <1>2 DEF end
<1>4. trunc_page(va) = trunc_page(ph.va) + Bias(img)
  <2>1. trunc_page(ph.va + Bias(img)) = trunc_page(ph.va) + Bias(img)
    BY <1>1, <1>2, PageShift
  <2> QED BY <1>3, <2>1, Zenon
<1>5. round_page(va + ph.memsz) = round_page(end(ph)) + Bias(img)
  <2>1. round_page(end(ph) + Bias(img)) = round_page(end(ph)) + Bias(img)
    BY <1>1, <1>2, PageShift
  <2> QED BY <1>3, <2>1, Zenon
<1>6. /\ low(img.file) \in Nat /\ high(img.file) \in Nat /\ low(img.file) <= trunc_page(ph.va)
      /\ round_page(end(ph)) <= high(img.file)
  BY LowHigh DEF Placed
<1>7. trunc_page(ph.va) \in Int /\ round_page(end(ph)) \in Int
  BY <1>2, TruncPage, RoundPage
<1>8. trunc_page(va) <= va /\ va + ph.memsz <= round_page(va + ph.memsz)
  BY <1>1, <1>2, TruncPage, RoundPage
<1>9. img.base \in Nat /\ Bias(img) = img.base - low(img.file)
  BY DEF Placed, Bias
<1>10. trunc_page(va) .. round_page(va + ph.memsz) - 1 \subseteq Span(img)
  BY <1>4, <1>5, <1>6, <1>7, <1>9 DEF Span
<1> QED BY <1>1, <1>2, <1>3, <1>4, <1>5, <1>7, <1>8, <1>10

\* The round of load_image's loop that maps segment s, as MapSegment does it.
Maps(img, s, m, m2, i2) ==
    /\ ~refused_segment(img.file, loads(img.file)[s])
    /\ m2 = map_segment(m, img.file, loads(img.file)[s],
                        img.base - low(img.file) + loads(img.file)[s].va)
    /\ i2 = with_segment(img, loads(img.file)[s])

\* Byte k of segment i is in memory as it was linked.
Shows(m, img, i, k) ==
    m[Bias(img) + loads(img.file)[i].va + k] =
        IF k < loads(img.file)[i].filesz THEN Byte(img.file, loads(img.file)[i].off + k) ELSE Zero

\* Mapping segment s keeps a byte of another unless it spoils it.
LEMMA MapKeeps ==
  ASSUME NEW img, Placed(img), NEW s \in DOMAIN loads(img.file), NEW m, NEW m2, NEW i2,
         Maps(img, s, m, m2, i2),
         NEW i \in DOMAIN loads(img.file), NEW k \in 0 .. loads(img.file)[i].memsz - 1,
         Shows(m, img, i, k), ~Spoils(img.file, s, i, k)
  PROVE  Shows(m2, img, i, k)
<1> DEFINE f == img.file
           ph == loads(f)[s]
           va == Bias(img) + ph.va
           other == loads(f)[i]
           at == Bias(img) + other.va
           a == at + k
<1>0. m2 = map_segment(m, f, ph, va) /\ ~refused_segment(f, ph)
  BY DEF Maps, Bias
<1>1. /\ ph.va \in Nat /\ ph.off \in Nat /\ ph.filesz \in Nat /\ ph.memsz \in Nat
      /\ other.va \in Nat /\ other.memsz \in Nat /\ other.off \in Nat /\ other.filesz \in Nat
  BY SegmentType DEF Placed
<1>2. ph.filesz <= ph.memsz
  BY <1>0, <1>1 DEF refused_segment
<1>3. /\ va \in Int /\ Bias(img) \in Int
      /\ trunc_page(va) = trunc_page(ph.va) + Bias(img)
      /\ round_page(va + ph.memsz) = round_page(end(ph)) + Bias(img)
      /\ trunc_page(va) \in Int /\ round_page(va + ph.memsz) \in Int
  BY PagesInSpan, BiasFacts
<1>4. /\ at \in Int /\ trunc_page(at) \in Int /\ round_page(at + other.memsz) \in Int
      /\ trunc_page(at) <= at /\ at + other.memsz <= round_page(at + other.memsz)
      /\ trunc_page(at) .. round_page(at + other.memsz) - 1 \subseteq Span(img)
  BY PagesInSpan
<1>5. a \in Addr /\ a \in Int /\ a = other.va + k + Bias(img)
  <2>1. a \in trunc_page(at) .. round_page(at + other.memsz) - 1
    BY <1>1, <1>4
  <2> QED BY <1>1, <1>3, <1>4, <2>1 DEF Placed
<1>6. /\ trunc_page(ph.va) \in Int /\ round_page(end(ph)) \in Int
  <2>1. end(ph) \in Int
    BY <1>1 DEF end
  <2> QED BY <1>1, <2>1, TruncPage, RoundPage
<1>7. \/ ~(trunc_page(ph.va) <= other.va + k /\ other.va + k < round_page(end(ph)))
      \/ /\ straight(ph) /\ ph.off - ph.va = other.off - other.va
         /\ other.va + k < ph.va /\ k < other.filesz
         /\ trunc_page(ph.va) <= other.va + k
  BY DEF Spoils
<1>8. CASE ~(trunc_page(ph.va) <= other.va + k /\ other.va + k < round_page(end(ph)))
  <2>1. a \notin trunc_page(va) .. round_page(va + ph.memsz) - 1
    <3> HIDE DEF ph, va, other, at, a
    <3>1. other.va + k \in Int
      BY <1>1
    <3> QED BY <1>3, <1>5, <1>6, <1>8, <3>1
  <2>2. m2[a] = m[a]
    <3> HIDE DEF ph, va, other, at, a
    <3> QED BY <1>0, <1>1, <1>2, <1>3, <1>5, <2>1, SegmentFrame
  <2> QED BY <2>2 DEF Shows
<1>9. CASE /\ straight(ph) /\ ph.off - ph.va = other.off - other.va
           /\ other.va + k < ph.va /\ k < other.filesz
           /\ trunc_page(ph.va) <= other.va + k
  <2> HIDE DEF ph, va, other, at, a
  <2>1. va = Bias(img) + ph.va /\ va - trunc_page(va) = ph.va - trunc_page(ph.va)
    BY <1>1, <1>3, <1>6 DEF va
  <2>2. ph.filesz > 0 /\ (ph.off - (va - trunc_page(va))) % ps = 0
    BY <1>9, <2>1 DEF straight
  <2>3. a \in trunc_page(va) .. va - 1
    BY <1>1, <1>3, <1>5, <1>6, <1>9, <2>1
  <2>4. m2[a] = Byte(f, ph.off + a - va)
    BY <1>0, <1>1, <1>2, <1>3, <1>5, <2>2, <2>3, SegmentBefore
  <2>5. ph.off + a - va = other.off + k
    BY <1>1, <1>3, <1>5, <1>9, <2>1
  <2>6. m2[a] = Byte(f, other.off + k)
    BY <2>4, <2>5
  <2> QED BY <1>9, <2>6 DEF Shows, a, at, other
<1> QED BY <1>7, <1>8, <1>9

\* Mapping segment s puts it in place, keeps of the others what it does not spoil, frees
\* nothing, and touches nothing outside the span.
LEMMA MapOne ==
  ASSUME NEW img, Placed(img), NEW s \in DOMAIN loads(img.file), NEW m, NEW m2, NEW i2,
         Maps(img, s, m, m2, i2)
  PROVE  /\ \A n : SegmentAt(m2, img, s, n)
         /\ \A i \in 1 .. s - 1 : SegmentAt(m, img, i, s - 1) => SegmentAt(m2, img, i, s)
         /\ \A a \in Addr \ Span(img) : m2[a] = m[a]
         /\ Taken(m, img) => Taken(m2, img)
<1> DEFINE f == img.file
           ph == loads(f)[s]
           va == Bias(img) + ph.va
<1>0. m2 = map_segment(m, f, ph, va) /\ ~refused_segment(f, ph)
  BY DEF Maps, Bias
<1>1. /\ ph.va \in Nat /\ ph.off \in Nat /\ ph.filesz \in Nat /\ ph.memsz \in Nat
  BY SegmentType DEF Placed
<1>2. ph.filesz <= ph.memsz
  BY <1>0, <1>1 DEF refused_segment
<1>3. va \in Int /\ Bias(img) \in Int
  BY PagesInSpan, BiasFacts
<1>4. trunc_page(va) .. round_page(va + ph.memsz) - 1 \subseteq Span(img)
  BY PagesInSpan
<1>5. Span(img) \subseteq Addr
  BY DEF Placed
<1>6. \A n : SegmentAt(m2, img, s, n)
  <2> HIDE DEF ph, va
  <2>1. ASSUME NEW k \in 0 .. ph.memsz - 1
        PROVE  m2[va + k] = IF k < ph.filesz THEN Byte(f, ph.off + k) ELSE Zero
    <3>1. va + k \in trunc_page(va) .. round_page(va + ph.memsz) - 1
      BY <1>1, <1>3, TruncPage, RoundPage
    <3>2. va + k \in Addr
      BY <1>4, <1>5, <3>1
    <3> QED BY <1>1, <1>2, <1>3, <3>2, SegmentMapped, <1>0
  <2> QED BY <2>1 DEF SegmentAt, SegmentOf, ph, va
<1>7. ASSUME NEW i \in 1 .. s - 1, SegmentAt(m, img, i, s - 1) PROVE SegmentAt(m2, img, i, s)
  <2>1. i \in DOMAIN loads(f) /\ s \in Nat
    BY SegmentType DEF Placed
  <2>2. ASSUME NEW k \in 0 .. loads(f)[i].memsz - 1, \A j \in i + 1 .. s : ~Spoils(f, j, i, k)
        PROVE  Shows(m2, img, i, k)
    <3>1. s \in i + 1 .. s /\ i + 1 .. s - 1 \subseteq i + 1 .. s
      BY <2>1
    <3>2. Shows(m, img, i, k)
      BY <1>7, <2>2, <3>1 DEF SegmentAt, SegmentOf, Shows
    <3>3. ~Spoils(f, s, i, k)
      BY <2>2, <3>1
    <3> QED BY <2>1, <3>2, <3>3, MapKeeps
  <2> QED BY <2>2 DEF SegmentAt, SegmentOf, Shows
<1>8. ASSUME NEW a \in Addr \ Span(img) PROVE m2[a] = m[a]
  <2>1. a \notin trunc_page(va) .. round_page(va + ph.memsz) - 1
    BY <1>4
  <2> HIDE DEF ph, va
  <2> QED BY <1>1, <1>2, <1>3, <2>1, SegmentFrame, <1>0
<1>9. Taken(m, img) => Taken(m2, img)
  <2> HIDE DEF ph, va
  <2> QED BY <1>0, <1>5, SegmentTakes DEF Taken
<1> QED BY <1>6, <1>7, <1>8, <1>9

----------------------------------------------------------------------------
(* Where the two sides stand. *)

Early == {"ready", "signals", "session", "stdio"}
Late == {"chdir", "fds", "no_new_privs", "seccomp", "exec"}
Boot == Early \cup {"sync"} \cup Late
Loading == {"map", "interp", "map_interp", "loaded"}

\* The supervisor's place, the child's place and the reported outcome fit together.
ControlInv ==
    /\ req \in Requests
    /\ sup \in {"select", "prepare", "plan", "ready", "seize", "go", "loop", "running", "finish",
                "done", "dead"}
    /\ pc \in {"none", "dead", "reaped"} \cup Boot \cup Executed
    /\ sup \in {"select", "prepare", "plan"} => pc = "none"
    /\ sup \notin {"running", "done"} => start = Pending
    /\ sup = "finish" => pc = "reaped"
    /\ sup = "running" => start.state = "ok" /\ pc \in Executed \cup {"dead"}
    /\ sup = "done" => \/ start.state = "failed" /\ pc \in {"none", "reaped"}
                       \/ start.state = "ok" /\ pc = "reaped"
    /\ pc = "none" => sup \in {"select", "prepare", "plan", "done"}
    /\ pc = "reaped" => sup \in {"finish", "done"}
    /\ pc \in Executed \ {"execev"} => sup = "running"

\* The message of the child: none while it lives, none once its exec was seen.
MessageInv ==
    /\ msg # NoMsg => pc \in {"dead", "reaped"} /\ start.state # "ok"
    /\ start.state = "failed" /\ start.code # "engine_unavailable" /\ msg # NoMsg =>
          start.stage = msg.stage /\ start.errno = msg.errno

\* The child goes past the sync pipe only when it is traced.
TracedInv == /\ sup \in {"go", "loop", "running"} => traced
             /\ go = 1 => traced
             /\ pc \in Late \cup Executed => go = 1

StartFds == [fd \in Fds |-> IF fd <= 2 THEN stdio(ParentFds, req.stdio)[fd] ELSE Closed]

\* Descriptors, privileges and filter at every place of the child.
ConfinedInv ==
    /\ pc \in Early => fds = ParentFds
    /\ pc \in {"none"} => fds = ParentFds
    /\ pc \in {"sync"} \cup Late => fds = stdio(ParentFds, req.stdio)
    /\ pc \in Executed => fds = StartFds
    /\ pc \in {"seccomp", "exec"} \cup Executed => "no_new_privs" \in secure
    /\ pc \in {"none", "sync"} \cup Early \cup (Late \ {"exec"}) => "filter" \notin secure
    /\ pc \in {"exec"} \cup Executed => ("filter" \in secure <=> use_seccomp)

\* What the host was found to offer, and what is executed on it.
HostInv ==
    /\ sup \in {"prepare", "plan"} \/ pc # "none" => create_instance(req.host)
    /\ pc # "none" /\ loader => the_plan.host_exec = LoaderFile

\* The stages follow one another as child_main runs them.
LEMMA StageFacts ==
  /\ DOMAIN Stages = 1 .. 10
  /\ \A i \in 1 .. 10 : Stages[i] \in Boot
  /\ \A i \in 1 .. 9 : After(Stages[i]) = Stages[i + 1]
<1>1. DOMAIN Stages = 1 .. 10 /\ \A i \in 1 .. 10 : Stages[i] \in Boot
  BY DEF Stages, Boot, Early, Late
<1>2. \A i, j \in 1 .. 10 : Stages[i] = Stages[j] => i = j
  BY DEF Stages
<1>3. ASSUME NEW i \in 1 .. 9 PROVE After(Stages[i]) = Stages[i + 1]
  <2> DEFINE S == {j \in DOMAIN Stages : Stages[j] = Stages[i]}
  <2>1. S = {i}
    BY <1>1, <1>2
  <2>2. S \in SUBSET Nat /\ S # {}
    BY <2>1
  <2>3. Least(S) = i
    BY <2>1, <2>2, LeastIs
  <2> QED BY <2>3 DEF After
<1> QED BY <1>1, <1>3

\* The same, stage by stage.
LEMMA AfterIs ==
  /\ After("ready") = "signals" /\ After("signals") = "session" /\ After("session") = "stdio"
  /\ After("stdio") = "sync" /\ After("sync") = "chdir" /\ After("chdir") = "fds"
  /\ After("fds") = "no_new_privs" /\ After("no_new_privs") = "seccomp" /\ After("seccomp") = "exec"
BY StageFacts DEF Stages

\* A step of the boot code, as one of its nine places.
LEMMA StageSteps ==
  ASSUME NEW i \in DOMAIN Stages, Stage(Stages[i])
  PROVE  /\ pc \in Boot \ {"exec"} /\ pc' = After(pc) /\ Effect(pc)
         /\ pc = "sync" => go = 1
         /\ UNCHANGED <<req, supervisor, msg, mem, prog, dl, seg, argv, go, traced, killed, given>>
BY StageFacts DEF Stage

\* A start that run() reports as failed carries the child's message, if it left one.
LEMMA StartResult ==
  /\ start_result.state = "failed"
  /\ msg # NoMsg => start_result.stage = msg.stage /\ start_result.errno = msg.errno
<1>1. CASE msg # NoMsg
  <2> DEFINE code == IF msg.stage = "exec" THEN "exec_failed" ELSE "internal"
  <2>1. start_result = Failed(code, msg.stage, msg.errno)
    BY <1>1 DEF start_result
  <2> HIDE DEF code
  <2>2. /\ Failed(code, msg.stage, msg.errno).state = "failed"
        /\ Failed(code, msg.stage, msg.errno).stage = msg.stage
        /\ Failed(code, msg.stage, msg.errno).errno = msg.errno
    BY DEF Failed
  <2> QED BY <2>1, <2>2, Zenon
<1>2. CASE msg = NoMsg
  <2>1. \/ start_result = Failed("cancelled", "", "")
        \/ start_result = Failed("exec_failed", "", "")
    BY <1>2 DEF start_result
  <2>2. Failed("cancelled", "", "").state = "failed" /\ Failed("exec_failed", "", "").state = "failed"
    BY DEF Failed
  <2> QED BY <1>2, <2>1, <2>2, Zenon
<1> QED BY <1>1, <1>2

\* Every step of either side keeps the places and the outcome in agreement.
LEMMA ControlStep ==
  ASSUME ControlInv, [Next]_vars
  PROVE  ControlInv'
<1> USE DEF ControlInv, Executed, Early, Late, Boot, supervisor, child
<1>1. CASE UNCHANGED vars
  BY <1>1 DEF vars
<1>2. ASSUME NEW f, f.state = "failed", FailStart(f), pc = "none" PROVE ControlInv'
  BY <1>2 DEF FailStart
<1>3. CASE Select
  BY <1>2, <1>3 DEF Select, Failed
<1>4. CASE Prepare \/ PlanFails
  BY <1>2, <1>4 DEF Prepare, PlanFails, PlanFrom, Failed
<1>5. CASE Plan
  BY <1>2, <1>5 DEF Plan, PlanFrom, Planned, Spawn, spawn_with, Failed
<1>6. CASE Ready \/ Seize \/ Go \/ Cancel \/ SupervisorDies
  BY <1>6 DEF Ready, Seize, Go, Cancel, SupervisorDies
<1>7. CASE SeizeRefused
  BY <1>7 DEF SeizeRefused, seize_refused, Failed
<1>8. CASE OnExec
  BY <1>8 DEF OnExec, Pending
<1>9. CASE OnExit \/ Finish
  BY <1>9, StartResult DEF OnExit, Finish
<1>10. CASE Dies \/ Exec
  BY <1>10 DEF Dies, Exec, Alive
<1>11. CASE LoaderStep \/ KernelLoads
  BY <1>11 DEF LoaderStep, LoadProgram, LoadInterp, MapSegment, Jump, LoaderDies, InLoader, KernelLoads
<1>12. ASSUME NEW i \in DOMAIN Stages, Stage(Stages[i]) PROVE ControlInv'
  BY <1>12, StageSteps, AfterIs
<1>13. ASSUME NEW i \in DOMAIN Stages, StageFails(Stages[i]) PROVE ControlInv'
  BY <1>13, StageFacts DEF StageFails
<1>14. CASE Over
  BY <1>14 DEF Over, vars
<1> QED BY <1>1, <1>3, <1>4, <1>5, <1>6, <1>7, <1>8, <1>9, <1>10, <1>11, <1>12, <1>13, <1>14 DEF Next

\* The child's message is written once, before it dies, and reported.
LEMMA MessageStep ==
  ASSUME ControlInv, MessageInv, [Next]_vars
  PROVE  MessageInv'
<1> USE DEF ControlInv, MessageInv, Executed, Early, Late, Boot, supervisor, child
<1>1. CASE UNCHANGED vars
  BY <1>1 DEF vars
<1>2. ASSUME NEW f, f.state = "failed", FailStart(f), pc = "none" PROVE MessageInv'
  BY <1>2 DEF FailStart
<1>3. CASE Select
  BY <1>2, <1>3 DEF Select, Failed
<1>4. CASE Prepare \/ PlanFails
  BY <1>2, <1>4 DEF Prepare, PlanFails, PlanFrom, Failed
<1>5. CASE Plan
  BY <1>2, <1>5 DEF Plan, PlanFrom, Planned, Spawn, spawn_with, Failed
<1>6. CASE Ready \/ Seize \/ Go \/ Cancel \/ SupervisorDies
  BY <1>6 DEF Ready, Seize, Go, Cancel, SupervisorDies
<1>7. CASE SeizeRefused
  BY <1>7 DEF SeizeRefused, seize_refused, Failed
<1>8. CASE OnExec
  BY <1>8 DEF OnExec, Pending
<1>9. CASE OnExit \/ Finish
  BY <1>9, StartResult DEF OnExit, Finish
<1>10. CASE Dies \/ Exec
  BY <1>10 DEF Dies, Exec, Alive
<1>11. CASE LoaderStep \/ KernelLoads
  BY <1>11 DEF LoaderStep, LoadProgram, LoadInterp, MapSegment, Jump, LoaderDies, InLoader, KernelLoads
<1>12. ASSUME NEW i \in DOMAIN Stages, Stage(Stages[i]) PROVE MessageInv'
  BY <1>12, StageSteps, AfterIs
<1>13. ASSUME NEW i \in DOMAIN Stages, StageFails(Stages[i]) PROVE MessageInv'
  <2>1. pc \in Boot /\ start' = start /\ pc' = "dead"
    BY <1>13, StageFacts DEF StageFails
  <2>2. start = Pending
    BY <2>1
  <2> QED BY <2>1, <2>2 DEF Pending
<1>14. CASE Over
  BY <1>14 DEF Over, vars
<1> QED BY <1>1, <1>3, <1>4, <1>5, <1>6, <1>7, <1>8, <1>9, <1>10, <1>11, <1>12, <1>13, <1>14 DEF Next

\* No step takes the child past the sync pipe untraced.
LEMMA TracedStep ==
  ASSUME ControlInv, TracedInv, [Next]_vars
  PROVE  TracedInv'
<1> USE DEF ControlInv, TracedInv, Executed, Early, Late, Boot, supervisor, child
<1>1. CASE UNCHANGED vars
  BY <1>1 DEF vars
<1>2. ASSUME NEW f, FailStart(f), pc = "none" PROVE TracedInv'
  BY <1>2 DEF FailStart
<1>3. CASE Select
  BY <1>2, <1>3 DEF Select
<1>4. CASE Prepare \/ PlanFails
  BY <1>2, <1>4 DEF Prepare, PlanFails, PlanFrom
<1>5. CASE Plan
  BY <1>2, <1>5 DEF Plan, PlanFrom, Planned, Spawn, spawn_with
<1>6. CASE Ready \/ Seize \/ Go \/ Cancel \/ SupervisorDies
  BY <1>6 DEF Ready, Seize, Go, Cancel, SupervisorDies
<1>7. CASE SeizeRefused
  BY <1>7 DEF SeizeRefused, seize_refused
<1>8. CASE OnExec
  BY <1>8 DEF OnExec
<1>9. CASE OnExit \/ Finish
  BY <1>9 DEF OnExit, Finish
<1>10. CASE Dies \/ Exec
  BY <1>10 DEF Dies, Exec, Alive
<1>11. CASE LoaderStep \/ KernelLoads
  BY <1>11 DEF LoaderStep, LoadProgram, LoadInterp, MapSegment, Jump, LoaderDies, InLoader, KernelLoads
<1>12. ASSUME NEW i \in DOMAIN Stages, Stage(Stages[i]) PROVE TracedInv'
  BY <1>12, StageSteps, AfterIs
<1>13. ASSUME NEW i \in DOMAIN Stages, StageFails(Stages[i]) PROVE TracedInv'
  BY <1>13, StageFacts DEF StageFails
<1>14. CASE Over
  BY <1>14 DEF Over, vars
<1> QED BY <1>1, <1>3, <1>4, <1>5, <1>6, <1>7, <1>8, <1>9, <1>10, <1>11, <1>12, <1>13, <1>14 DEF Next

\* Every stage of child_main leaves the descriptors, privileges and filter of its place.
LEMMA ConfinedStep ==
  ASSUME ControlInv, ConfinedInv, [Next]_vars
  PROVE  ConfinedInv'
<1> USE DEF ControlInv, ConfinedInv, Executed, Early, Late, Boot, supervisor, child, StartFds,
            use_seccomp
<1>1. CASE UNCHANGED vars
  BY <1>1 DEF vars
<1>2. ASSUME NEW f, FailStart(f), pc = "none" PROVE ConfinedInv'
  BY <1>2 DEF FailStart
<1>3. CASE Select
  BY <1>2, <1>3 DEF Select
<1>4. CASE Prepare \/ PlanFails
  BY <1>2, <1>4 DEF Prepare, PlanFails, PlanFrom
<1>5. CASE Plan
  BY <1>2, <1>5 DEF Plan, PlanFrom, Planned, Spawn, spawn_with
<1>6. CASE Ready \/ Seize \/ Go \/ Cancel \/ SupervisorDies
  BY <1>6 DEF Ready, Seize, Go, Cancel, SupervisorDies
<1>7. CASE SeizeRefused
  BY <1>7 DEF SeizeRefused, seize_refused
<1>8. CASE OnExec
  BY <1>8 DEF OnExec
<1>9. CASE OnExit \/ Finish
  BY <1>9 DEF OnExit, Finish
<1>10. CASE Dies \/ Exec
  BY <1>10 DEF Dies, Exec, Alive
<1>11. CASE LoaderStep \/ KernelLoads
  BY <1>11 DEF LoaderStep, LoadProgram, LoadInterp, MapSegment, Jump, LoaderDies, InLoader, KernelLoads
<1>12. ASSUME NEW i \in DOMAIN Stages, Stage(Stages[i]) PROVE ConfinedInv'
  BY <1>12, StageSteps, AfterIs DEF Effect
<1>13. ASSUME NEW i \in DOMAIN Stages, StageFails(Stages[i]) PROVE ConfinedInv'
  BY <1>13, StageFacts DEF StageFails
<1>14. CASE Over
  BY <1>14 DEF Over, vars
<1> QED BY <1>1, <1>3, <1>4, <1>5, <1>6, <1>7, <1>8, <1>9, <1>10, <1>11, <1>12, <1>13, <1>14 DEF Next

\* A child exists only where the engine offered what the session needs.
LEMMA HostStep ==
  ASSUME ControlInv, HostInv, [Next]_vars
  PROVE  HostInv'
<1> USE DEF ControlInv, HostInv, Executed, Early, Late, Boot, supervisor, child, loader,
            create_instance
<1>1. CASE UNCHANGED vars
  BY <1>1 DEF vars
<1>2. ASSUME NEW f, FailStart(f), pc = "none" PROVE HostInv'
  BY <1>2 DEF FailStart
<1>3. CASE Select
  BY <1>2, <1>3 DEF Select
<1>4. CASE Prepare \/ PlanFails
  BY <1>2, <1>4 DEF Prepare, PlanFails, PlanFrom
<1>5. CASE Plan
  <2>1. pc = "none"
    BY <1>5 DEF Plan
  <2>2. ASSUME NEW p, NEW r, spawn_with(p, r) PROVE HostInv'
    <3>1. req' = req /\ create_instance(req.host)
      BY <1>5, <2>2 DEF spawn_with, Plan
    <3>2. loader => the_plan'.host_exec = LoaderFile
      BY <2>2 DEF spawn_with, through_loader
    <3> QED BY <3>1, <3>2
  <2>3. ASSUME NEW d, NEW c, NEW a, PlanFrom(d, c, a) PROVE HostInv'
    BY <1>5, <2>3 DEF PlanFrom, Plan
  <2> QED BY <1>2, <1>5, <2>1, <2>2, <2>3 DEF Plan, Planned, Spawn
<1>6. CASE Ready \/ Seize \/ Go \/ Cancel \/ SupervisorDies
  BY <1>6 DEF Ready, Seize, Go, Cancel, SupervisorDies
<1>7. CASE SeizeRefused
  BY <1>7 DEF SeizeRefused, seize_refused
<1>8. CASE OnExec
  BY <1>8 DEF OnExec
<1>9. CASE OnExit \/ Finish
  BY <1>9 DEF OnExit, Finish
<1>10. CASE Dies \/ Exec
  BY <1>10 DEF Dies, Exec, Alive
<1>11. CASE LoaderStep \/ KernelLoads
  BY <1>11 DEF LoaderStep, LoadProgram, LoadInterp, MapSegment, Jump, LoaderDies, InLoader, KernelLoads
<1>12. ASSUME NEW i \in DOMAIN Stages, Stage(Stages[i]) PROVE HostInv'
  BY <1>12, StageSteps, AfterIs
<1>13. ASSUME NEW i \in DOMAIN Stages, StageFails(Stages[i]) PROVE HostInv'
  BY <1>13, StageFacts DEF StageFails
<1>14. CASE Over
  BY <1>14 DEF Over, vars
<1> QED BY <1>1, <1>3, <1>4, <1>5, <1>6, <1>7, <1>8, <1>9, <1>10, <1>11, <1>12, <1>13, <1>14 DEF Next

----------------------------------------------------------------------------
(* The request the loader is handed names an interpreter only for a program that has one. *)

RequestFits(r) == r.interp # <<>> => interps(Files[r.program]) # <<>>
RequestInv == RequestFits(load_request) /\ RequestFits(given)

\* A plan that was refused starts no loader.
LEMMA RefusedPlan == \A e, d : Refuse(e, d).via_loader = FALSE
BY DEF Refuse, NoPlan

\* A plan through a loader is one for a program with PT_INTERP.
LEMMA ElfPlan ==
  ASSUME NEW g, NEW h, NEW a
  PROVE  LET p == plan_elf(g, Files[g], h, a)
         IN p.via_loader => interps(Files[g]) # <<>> /\ p.guest_program = g
<1> DEFINE p == plan_elf(g, Files[g], h, a)
           static == [NoPlan EXCEPT !.err = "ok", !.host_exec = g, !.argv = a, !.guest_program = g,
                                    !.program_argv = a]
<1>1. ASSUME NEW lr
      PROVE  via_loader(g, a, lr).via_loader => via_loader(g, a, lr).guest_program = g
  BY RefusedPlan DEF via_loader
<1>2. static.via_loader = FALSE
  BY DEF NoPlan
<1>3. \/ \E e, d : p = Refuse(e, d)
      \/ p = static
      \/ interps(Files[g]) # <<>> /\ \E lr : p = via_loader(g, a, lr)
  BY Zenon DEF plan_elf
<1> HIDE DEF p, static
<1>4. p.via_loader => interps(Files[g]) # <<>> /\ p.guest_program = g
  BY <1>1, <1>2, <1>3, RefusedPlan
<1> QED BY <1>4 DEF p

\* So is the plan any round of the loop ends in.
LEMMA RoundPlan ==
  ASSUME NEW n, NEW c, NEW a, NEW cwd
  PROVE  LET p == plan_round(n, c, a, cwd).plan
         IN p.via_loader => interps(Files[p.guest_program]) # <<>>
<1> DEFINE p == plan_round(n, c, a, cwd).plan
<1>1. \A q : Decided(q).plan = q
  BY DEF Decided
<1>2. \A x, y : GoOn(x, y).plan = NoPlan
  BY DEF GoOn
<1>3. NoPlan.via_loader = FALSE
  BY DEF NoPlan
<1>4. \/ \E e, d : p = Refuse(e, d)
      \/ p = NoPlan
      \/ \E g, h : p = plan_elf(g, Files[g], h, a)
  BY <1>1, <1>2, Zenon DEF plan_round, plan_file, plan_script
<1> HIDE DEF p
<1>5. p.via_loader => interps(Files[p.guest_program]) # <<>>
  BY <1>3, <1>4, RefusedPlan, ElfPlan
<1> QED BY <1>5 DEF p

\* Every step keeps the two requests fitting their programs.
LEMMA RequestStep ==
  ASSUME RequestInv, [Next]_vars
  PROVE  RequestInv'
<1> USE DEF RequestInv, supervisor, child
<1>1. CASE UNCHANGED <<load_request, given>>
  BY <1>1 DEF RequestFits
<1>2. RequestFits(NoRequest)
  BY DEF RequestFits, NoRequest
<1>3. CASE Plan
  <2>1. given' = given
    BY <1>3 DEF Plan, PlanFrom, Planned, Spawn, spawn_with, FailStart
  <2>2. ASSUME NEW p, p.via_loader => interps(Files[p.guest_program]) # <<>>, NEW x
        PROVE  RequestFits(make_load_request(p, x))
    BY <2>2, <1>2 DEF make_load_request, RequestFits
  <2>3. ASSUME NEW p, p.via_loader => interps(Files[p.guest_program]) # <<>>, NEW c, Planned(c, p)
        PROVE  RequestFits(load_request')
    <3>1. CASE load_request' = load_request
      BY <3>1
    <3>2. CASE load_request' = IF loader THEN make_load_request(p, absolute(c.path, req.cwd)) ELSE NoRequest
      BY <3>2, <1>2, <2>2, <2>3
    <3> QED BY <2>3, <3>1, <3>2 DEF Planned, Spawn, spawn_with, FailStart
  <2>4. CASE load_request' = load_request
    BY <2>1, <2>4 DEF RequestFits
  <2>5. RequestFits(load_request')
    BY <1>3, <2>3, <2>4, RoundPlan DEF Plan, PlanFrom
  <2> QED BY <2>1, <2>5 DEF RequestFits
<1>4. CASE OnExec
  <2>1. load_request' = NoRequest /\ (given' = load_request \/ given' = given)
    BY <1>4 DEF OnExec
  <2> QED BY <1>2, <2>1 DEF RequestFits
<1>5. ASSUME NEW i \in DOMAIN Stages, Stage(Stages[i]) \/ StageFails(Stages[i])
      PROVE  UNCHANGED <<load_request, given>>
  BY <1>5 DEF Stage, StageFails
<1> QED
  BY <1>1, <1>3, <1>4, <1>5 DEF Next, vars, PlanFails, Select, Prepare, PlanFrom, FailStart, Ready, Seize,
     SeizeRefused, Go, OnExit, Finish, Cancel, SupervisorDies, Dies, Exec, LoaderStep, KernelLoads, Over

----------------------------------------------------------------------------
(* The images in memory, segment by segment. *)

InImage == pc \in Loading \/ (pc = "guest" /\ loader)
NoImageYet == {"none"} \cup Boot \cup {"execev", "image"}

\* The first n segments of the image are in place, and the program headers where the
\* record says, once a segment that holds them is.
Holds(m, img, n) == /\ \A i \in 1 .. n : SegmentAt(m, img, i, n)
                    /\ Taken(m, img)
PhdrPlaced(img, n) ==
    IF named_phdrs(img.file) = <<>>
    THEN \/ img.phdr = 0
         \/ \E i \in 1 .. n : /\ holds_phdrs(img.file, loads(img.file)[i])
                              /\ img.phdr = Bias(img) + loads(img.file)[i].va
                                            + (Files[img.file].phoff - loads(img.file)[i].off)
    ELSE img.phdr = Bias(img) + Last(named_phdrs(img.file)).va

\* The same for the segments before s.
Below(m, img, s) == Holds(m, img, s - 1)
PhdrBelow(img, s) == PhdrPlaced(img, s - 1)

Apart(img, other) == \A a \in Span(img) : a \notin Span(other)

ProgDone == IF pc = "map" THEN seg - 1 ELSE Len(loads(prog.file))
ProgInv == InImage => /\ Placed(prog) /\ prog.file = given.program
                      /\ pc = "map" => seg \in 1 .. Len(loads(prog.file))
                      /\ Holds(mem, prog, ProgDone) /\ PhdrPlaced(prog, ProgDone)

InterpInv ==
    /\ pc \in NoImageYet \cup {"map", "interp"} => dl = NoImage
    /\ pc = "map_interp" => /\ Placed(dl) /\ dl.file = given.interp /\ given.interp # <<>>
                            /\ seg \in 1 .. Len(loads(dl.file))
                            /\ Holds(mem, dl, seg - 1) /\ Apart(prog, dl)
    /\ pc = "loaded" \/ (pc = "guest" /\ loader) =>
          IF given.interp = <<>> THEN dl = NoImage /\ interps(Files[prog.file]) = <<>>
          ELSE Placed(dl) /\ dl.file = given.interp /\ Holds(mem, dl, Len(loads(dl.file)))
    /\ pc = "guest" /\ loader => prog.phdr # 0

ImageInv == ProgInv /\ InterpInv

\* Steps outside the loader.
LEMMA ImageQuiet ==
  ASSUME ImageInv, req' = req,
         \/ UNCHANGED <<pc, mem, prog, dl, seg, given>>
         \/ pc' \in {"dead", "reaped"}
         \/ dl' = dl /\ pc \in NoImageYet /\ pc' \in NoImageYet
  PROVE  ImageInv'
<1>1. CASE UNCHANGED <<pc, mem, prog, dl, seg, given>>
  BY <1>1 DEF ImageInv, ProgInv, InterpInv, InImage, ProgDone, loader
<1>2. CASE pc' \in {"dead", "reaped"}
  BY <1>2 DEF ImageInv, ProgInv, InterpInv, InImage, Loading, NoImageYet, Boot, Early, Late
<1>3. CASE dl' = dl /\ pc \in NoImageYet /\ pc' \in NoImageYet
  BY <1>3 DEF ImageInv, ProgInv, InterpInv, InImage, Loading, NoImageYet, Boot, Early, Late
<1> QED BY <1>1, <1>2, <1>3

\* An image that was just reserved has its place and no segment yet.
LEMMA JustReserved ==
  ASSUME NEW g, Loadable(g), NEW m, NEW b \in bases(m, g),
         NEW img, img = image(g, b)
  PROVE  /\ img.file = g /\ Placed(img)
         /\ Holds(reserve(m, g, b), img, 0)
         /\ PhdrPlaced(img, 0)
         /\ 1 \in 1 .. Len(loads(g))
         /\ \A a \in Span(img) : m[a] = Free
         /\ \A a \in Addr \ Span(img) : reserve(m, g, b)[a] = m[a]
<1>1. img.file = g /\ img.base = b
  BY DEF image
<1>3. b \in Nat /\ b % ps = 0 /\ \A a \in b .. b + high(g) - low(g) - 1 : a \in Addr /\ m[a] = Free
  BY DEF bases, Addr
<1>4. Placed(img) /\ \A a \in Span(img) : m[a] = Free
  BY <1>1, <1>3 DEF Placed, Span
<1>5. Holds(reserve(m, g, b), img, 0)
  <2>1. \A a \in Span(img) : a \in Addr /\ reserve(m, g, b)[a] = Reserved
    BY <1>1, <1>4 DEF reserve, map, Span, Placed
  <2>2. Reserved # Free
    BY DEF Reserved, Free
  <2> QED BY <2>1, <2>2 DEF Holds, Taken
<1>6. PhdrPlaced(img, 0)
  BY <1>1 DEF PhdrPlaced, image, Bias
<1>7. 1 \in 1 .. Len(loads(g))
  BY SegmentType
<1>8. \A a \in Addr \ Span(img) : reserve(m, g, b)[a] = m[a]
  BY <1>1 DEF reserve, map, Span
<1> QED BY <1>1, <1>4, <1>5, <1>6, <1>7, <1>8

\* with_segment changes nothing but the address of the program headers.
LEMMA WithSegment ==
  ASSUME NEW img, NEW ph
  PROVE  LET i2 == with_segment(img, ph)
         IN /\ i2.file = img.file /\ Bias(i2) = Bias(img) /\ Span(i2) = Span(img)
            /\ Placed(img) => Placed(i2)
            /\ \A m, i, n : SegmentAt(m, i2, i, n) <=> SegmentAt(m, img, i, n)
            /\ \A m : Taken(m, i2) <=> Taken(m, img)
<1> DEFINE i2 == with_segment(img, ph)
<1>1. i2.file = img.file /\ i2.base = img.base
  BY DEF with_segment
<1> HIDE DEF i2
<1>2. Bias(i2) = Bias(img) /\ Span(i2) = Span(img)
  BY <1>1 DEF Bias, Span
<1>3. Placed(img) => Placed(i2)
  BY <1>1, <1>2 DEF Placed
<1>4. /\ \A m, i, n : SegmentAt(m, i2, i, n) <=> SegmentAt(m, img, i, n)
      /\ \A m : Taken(m, i2) <=> Taken(m, img)
  BY <1>1, <1>2 DEF SegmentAt, Taken
<1> QED BY <1>1, <1>2, <1>3, <1>4 DEF i2

\* One round of load_image's loop adds a segment.
LEMMA MapRound ==
  ASSUME NEW img, Placed(img), NEW s \in DOMAIN loads(img.file), NEW m, NEW m2, NEW i2,
         Below(m, img, s), Maps(img, s, m, m2, i2)
  PROVE  /\ Placed(i2) /\ i2.file = img.file /\ Span(i2) = Span(img) /\ Bias(i2) = Bias(img)
         /\ Holds(m2, i2, s)
         /\ \A a \in Addr \ Span(img) : m2[a] = m[a]
         /\ PhdrBelow(img, s) => PhdrPlaced(i2, s)
<1> DEFINE ph == loads(img.file)[s]
<1>1. s \in 1 .. Len(loads(img.file)) /\ Len(loads(img.file)) \in Nat
  BY SegmentType DEF Placed
<1>2. i2 = with_segment(img, ph) /\ ~refused_segment(img.file, ph)
  BY DEF Maps
<1>3. /\ SegmentAt(m2, img, s, s)
      /\ \A i \in 1 .. s - 1 : SegmentAt(m, img, i, s - 1) => SegmentAt(m2, img, i, s)
      /\ \A a \in Addr \ Span(img) : m2[a] = m[a]
      /\ Taken(m, img) => Taken(m2, img)
  BY MapOne
<1>4. /\ i2.file = img.file /\ Bias(i2) = Bias(img) /\ Span(i2) = Span(img) /\ Placed(i2)
      /\ \A i : SegmentAt(m2, i2, i, s) <=> SegmentAt(m2, img, i, s)
      /\ Taken(m2, i2) <=> Taken(m2, img)
  BY <1>2, WithSegment
<1>6. \A i \in 1 .. s : i = s \/ i \in 1 .. s - 1
  BY <1>1
<1>7. Holds(m2, i2, s)
  BY <1>3, <1>4, <1>6 DEF Holds, Below
<1>8. ASSUME PhdrBelow(img, s) PROVE PhdrPlaced(i2, s)
  <2>1. CASE named_phdrs(img.file) = <<>> /\ holds_phdrs(img.file, ph)
    <3>1. i2.phdr = Bias(img) + ph.va + (Files[img.file].phoff - ph.off)
      BY <1>2, <2>1 DEF with_segment, Bias
    <3> QED BY <1>4, <2>1, <3>1 DEF PhdrPlaced
  <2>2. CASE ~(named_phdrs(img.file) = <<>> /\ holds_phdrs(img.file, ph))
    <3>1. i2.phdr = img.phdr
      BY <1>2, <2>2 DEF with_segment
    <3>2. 1 .. s - 1 \subseteq 1 .. s
      BY <1>1
    <3> QED BY <1>4, <1>8, <3>1, <3>2 DEF PhdrPlaced, PhdrBelow
  <2> QED BY <2>1, <2>2
<1> QED BY <1>3, <1>4, <1>7, <1>8

\* Memory that changes only inside another image's span keeps a segment that lies apart.
LEMMA KeepsApart ==
  ASSUME NEW img, Placed(img), NEW other, Apart(img, other), NEW m, NEW m2,
         \A a \in Addr \ Span(other) : m2[a] = m[a],
         Holds(m, img, Len(loads(img.file)))
  PROVE  Holds(m2, img, Len(loads(img.file)))
<1> DEFINE n == Len(loads(img.file))
<1>0. \A a \in Span(img) : a \in Addr /\ m2[a] = m[a]
  BY DEF Apart, Placed
<1>1. Taken(m2, img)
  BY <1>0 DEF Holds, Taken
<1>2. ASSUME NEW i \in 1 .. n PROVE SegmentAt(m2, img, i, n)
  <2> DEFINE ph == loads(img.file)[i]
             va == Bias(img) + ph.va
  <2>1. i \in DOMAIN loads(img.file) /\ ph.va \in Nat /\ ph.memsz \in Nat
    BY SegmentType DEF Placed
  <2>2. ASSUME NEW k \in 0 .. ph.memsz - 1 PROVE m2[va + k] = m[va + k]
    <3>1. /\ va \in Int /\ trunc_page(va) \in Int /\ round_page(va + ph.memsz) \in Int
          /\ trunc_page(va) <= va /\ va + ph.memsz <= round_page(va + ph.memsz)
          /\ trunc_page(va) .. round_page(va + ph.memsz) - 1 \subseteq Span(img)
      BY <2>1, PagesInSpan
    <3>2. va + k \in trunc_page(va) .. round_page(va + ph.memsz) - 1
      BY <2>1, <3>1
    <3> QED BY <1>0, <3>1, <3>2
  <2>3. SegmentAt(m, img, i, n)
    BY DEF Holds
  <2> HIDE DEF n
  <2> QED BY <2>2, <2>3 DEF SegmentAt, SegmentOf
<1> QED BY <1>1, <1>2 DEF Holds

\* The span of the program is reserved.
LEMMA ReserveStep ==
  ASSUME ImageInv, UNCHANGED <<req, given>>, pc = "image", loader, pc' = "map",
         NEW b \in Addr, Reserve(given.program, FALSE, prog, b), dl' = dl
  PROVE  ImageInv'
<1>1. /\ Loadable(given.program) /\ b \in bases(mem, given.program)
      /\ prog' = image(given.program, b) /\ seg' = 1
  BY DEF Reserve, refused_image, Loadable
<1>2. /\ prog'.file = given.program /\ Placed(prog') /\ Holds(mem', prog', 0) /\ PhdrPlaced(prog', 0)
      /\ 1 \in 1 .. Len(loads(given.program))
  BY <1>1, JustReserved DEF Reserve
<1>3. ProgInv'
  BY <1>1, <1>2 DEF ProgInv, ProgDone
<1>4. InterpInv'
  BY DEF ImageInv, InterpInv, NoImageYet, Boot, Early, Late
<1> QED BY <1>3, <1>4 DEF ImageInv

\* A segment of the program is mapped.
LEMMA MapStep ==
  ASSUME ImageInv, UNCHANGED <<req, given>>, pc = "map",
         MapSegment(prog, "interp"), dl' = dl
  PROVE  ImageInv'
<1>1. /\ Placed(prog) /\ prog.file = given.program /\ seg \in 1 .. Len(loads(prog.file))
      /\ Below(mem, prog, seg) /\ PhdrBelow(prog, seg) /\ dl = NoImage
  BY DEF ImageInv, ProgInv, InterpInv, InImage, Loading, ProgDone, Below, PhdrBelow
<1>2. seg \in DOMAIN loads(prog.file) /\ Len(loads(prog.file)) \in Nat
  BY <1>1, SegmentType DEF Placed
<1>3. /\ Maps(prog, seg, mem, mem', prog')
      /\ seg' = seg + 1
      /\ pc' = IF seg < Len(loads(prog.file)) THEN "map" ELSE "interp"
  BY DEF MapSegment, Maps
<1>4. Placed(prog') /\ prog'.file = prog.file /\ Holds(mem', prog', seg) /\ PhdrPlaced(prog', seg)
  <2>1. /\ Placed(prog) /\ seg \in DOMAIN loads(prog.file) /\ Below(mem, prog, seg)
        /\ PhdrBelow(prog, seg)
    BY <1>1, <1>2
  <2> QED BY <1>3, <2>1, MapRound
<1>5. CASE seg < Len(loads(prog.file))
  <2>1. pc' = "map" /\ seg' \in 1 .. Len(loads(prog'.file)) /\ seg' - 1 = seg
    BY <1>1, <1>2, <1>3, <1>4, <1>5
  <2>2. ProgInv'
    BY <1>1, <1>4, <2>1 DEF ProgInv, ProgDone
  <2>3. InterpInv'
    BY <1>1, <2>1 DEF InterpInv, NoImageYet, Boot, Early, Late
  <2> QED BY <2>2, <2>3 DEF ImageInv
<1>6. CASE ~(seg < Len(loads(prog.file)))
  <2>1. pc' = "interp" /\ Len(loads(prog'.file)) = seg
    BY <1>1, <1>2, <1>3, <1>4, <1>6
  <2>2. ProgInv'
    BY <1>1, <1>4, <2>1 DEF ProgInv, ProgDone
  <2>3. InterpInv'
    BY <1>1, <2>1 DEF InterpInv, NoImageYet, Boot, Early, Late
  <2> QED BY <2>2, <2>3 DEF ImageInv
<1> QED BY <1>5, <1>6

\* The span of the program's dynamic loader is reserved in free memory.
LEMMA ReserveInterpStep ==
  ASSUME ImageInv, UNCHANGED <<req, given>>, pc = "interp", given.interp # <<>>, pc' = "map_interp",
         NEW b \in Addr, Reserve(given.interp, TRUE, dl, b), prog' = prog
  PROVE  ImageInv'
<1>1. /\ Loadable(given.interp) /\ b \in bases(mem, given.interp)
      /\ dl' = image(given.interp, b) /\ seg' = 1 /\ mem' = reserve(mem, given.interp, b)
  BY DEF Reserve, refused_image, Loadable
<1>2. /\ dl'.file = given.interp /\ Placed(dl') /\ Holds(mem', dl', 0)
      /\ 1 \in 1 .. Len(loads(given.interp))
      /\ \A a \in Span(dl') : mem[a] = Free
      /\ \A a \in Addr \ Span(dl') : mem'[a] = mem[a]
  BY <1>1, JustReserved
<1>3. /\ Placed(prog) /\ prog.file = given.program
      /\ Holds(mem, prog, Len(loads(prog.file))) /\ PhdrPlaced(prog, Len(loads(prog.file)))
  BY DEF ImageInv, ProgInv, InImage, Loading, ProgDone
<1>4. Apart(prog, dl')
  BY <1>2, <1>3 DEF Apart, Holds, Taken
<1>5. Holds(mem', prog, Len(loads(prog.file)))
  BY <1>2, <1>3, <1>4, KeepsApart
<1>6. ProgInv'
  BY <1>3, <1>5 DEF ProgInv, ProgDone
<1>7. InterpInv'
  BY <1>1, <1>2, <1>4 DEF InterpInv, NoImageYet, Boot, Early, Late
<1> QED BY <1>6, <1>7 DEF ImageInv

\* A segment of the dynamic loader is mapped.
LEMMA MapInterpStep ==
  ASSUME ImageInv, UNCHANGED <<req, given>>, pc = "map_interp",
         MapSegment(dl, "loaded"), prog' = prog
  PROVE  ImageInv'
<1>1. /\ Placed(dl) /\ dl.file = given.interp /\ given.interp # <<>> /\ seg \in 1 .. Len(loads(dl.file))
      /\ Below(mem, dl, seg) /\ Apart(prog, dl)
  BY DEF ImageInv, InterpInv, Below
<1>2. /\ Placed(prog) /\ prog.file = given.program
      /\ Holds(mem, prog, Len(loads(prog.file))) /\ PhdrPlaced(prog, Len(loads(prog.file)))
  BY DEF ImageInv, ProgInv, InImage, Loading, ProgDone
<1>3. seg \in DOMAIN loads(dl.file) /\ Len(loads(dl.file)) \in Nat
  BY <1>1, SegmentType DEF Placed
<1>4. /\ Maps(dl, seg, mem, mem', dl')
      /\ seg' = seg + 1
      /\ pc' = IF seg < Len(loads(dl.file)) THEN "map_interp" ELSE "loaded"
  BY DEF MapSegment, Maps
<1>5. /\ Placed(dl') /\ dl'.file = dl.file /\ Span(dl') = Span(dl) /\ Holds(mem', dl', seg)
      /\ \A a \in Addr \ Span(dl) : mem'[a] = mem[a]
  <2>1. Placed(dl) /\ seg \in DOMAIN loads(dl.file) /\ Below(mem, dl, seg)
    BY <1>1, <1>3
  <2> QED BY <1>4, <2>1, MapRound
<1>6. Apart(prog, dl')
  BY <1>1, <1>5 DEF Apart
<1>7. Holds(mem', prog, Len(loads(prog.file)))
  BY <1>1, <1>2, <1>5, KeepsApart
<1>8. ProgInv'
  BY <1>2, <1>4, <1>7 DEF ProgInv, ProgDone
<1>9. InterpInv'
  <2>1. CASE seg < Len(loads(dl.file))
    <3>1. pc' = "map_interp" /\ seg' \in 1 .. Len(loads(dl'.file)) /\ seg' - 1 = seg
      BY <1>1, <1>3, <1>4, <1>5, <2>1
    <3> QED BY <1>1, <1>5, <1>6, <3>1 DEF InterpInv, NoImageYet, Boot, Early, Late
  <2>2. CASE ~(seg < Len(loads(dl.file)))
    <3>1. pc' = "loaded" /\ Len(loads(dl'.file)) = seg
      BY <1>1, <1>3, <1>4, <1>5, <2>2
    <3> QED BY <1>1, <1>5, <3>1 DEF InterpInv, NoImageYet, Boot, Early, Late
  <2> QED BY <2>1, <2>2
<1> QED BY <1>8, <1>9 DEF ImageInv

\* The steps of the loader that leave memory alone.
LEMMA NoInterpStep ==
  ASSUME ImageInv, UNCHANGED <<req, given, mem, prog, dl, seg>>,
         \/ /\ pc = "interp" /\ interps(Files[prog.file]) = <<>> /\ given.interp = <<>>
            /\ pc' = "loaded"
         \/ pc = "loaded" /\ prog.phdr # 0 /\ pc' = "guest"
  PROVE  ImageInv'
<1>1. ProgInv'
  BY DEF ImageInv, ProgInv, InImage, Loading, ProgDone
<1>2. InterpInv'
  BY DEF ImageInv, InterpInv, NoImageYet, Boot, Early, Late
<1> QED BY <1>1, <1>2 DEF ImageInv

\* What the loader makes is an image of the guest file it was told, however that was linked.
FileInv == InImage => prog.file \in DOMAIN Files /\ prog.file = given.program

\* Every step keeps that.
LEMMA FileStep ==
  ASSUME ControlInv, FileInv, [Next]_vars
  PROVE  FileInv'
<1> USE DEF supervisor, child, FileInv, InImage, Loading, loader
<1>1. CASE UNCHANGED vars
  BY <1>1 DEF vars
<1>2. CASE Select \/ Prepare \/ PlanFails \/ Ready \/ Seize \/ Go \/ Finish \/ Cancel \/ SupervisorDies
  BY <1>2 DEF Select, Prepare, PlanFails, PlanFrom, FailStart, Ready, Seize, Go, Finish, Cancel,
     SupervisorDies
<1>3. CASE Plan
  <2>1. req' = req /\ (UNCHANGED <<pc, prog, given>> \/ pc' = "ready")
    BY <1>3 DEF Plan, PlanFrom, Planned, Spawn, spawn_with, FailStart
  <2> QED BY <2>1
<1>4. CASE SeizeRefused \/ OnExit \/ Dies
  BY <1>4 DEF SeizeRefused, seize_refused, OnExit, Dies
<1>5. CASE OnExec \/ Exec
  BY <1>5 DEF OnExec, Exec
<1>6. CASE LoaderStep
  <2>1. req' = req /\ given' = given
    BY <1>6 DEF LoaderStep
  <2>2. ASSUME NEW b, Reserve(given.program, FALSE, prog, b)
        PROVE  prog'.file \in DOMAIN Files /\ prog'.file = given.program
    BY <2>2 DEF Reserve, refused_image, image
  <2>3. ASSUME MapSegment(prog, "interp") PROVE prog'.file = prog.file
    BY <2>3 DEF MapSegment, with_segment
  <2> QED BY <1>6, <2>1, <2>2, <2>3 DEF LoaderStep, LoadProgram, LoadInterp, Jump, LoaderDies
<1>7. CASE KernelLoads
  BY <1>7 DEF KernelLoads
<1>8. ASSUME NEW i \in DOMAIN Stages, Stage(Stages[i]) PROVE FileInv'
  <2>1. pc' \in Boot
    BY <1>8, StageSteps, AfterIs DEF Boot, Early, Late
  <2> QED BY <2>1 DEF Boot, Early, Late
<1>9. ASSUME NEW i \in DOMAIN Stages, StageFails(Stages[i]) PROVE FileInv'
  BY <1>9 DEF StageFails
<1>10. CASE Over
  BY <1>10 DEF Over, vars
<1> QED BY <1>1, <1>2, <1>3, <1>4, <1>5, <1>6, <1>7, <1>8, <1>9, <1>10 DEF Next

\* Every step keeps the images as far as they are loaded.
LEMMA ImageStep ==
  ASSUME ControlInv, ImageInv, [Next]_vars
  PROVE  ImageInv'
<1> USE DEF supervisor, child
<1>1. CASE UNCHANGED vars
  BY <1>1, ImageQuiet DEF vars
<1>2. CASE Select \/ Prepare \/ PlanFails \/ Ready \/ Seize \/ Go \/ Finish \/ Cancel \/ SupervisorDies
  BY <1>2, ImageQuiet DEF Select, Prepare, PlanFails, PlanFrom, FailStart, Ready, Seize, Go, Finish, Cancel,
     SupervisorDies
<1>3. CASE Plan
  <2>1. pc = "none"
    BY <1>3 DEF Plan, ControlInv
  <2>2. req' = req /\ dl' = dl /\ (UNCHANGED <<pc, mem, prog, dl, seg, given>> \/ pc' = "ready")
    BY <1>3 DEF Plan, PlanFrom, Planned, Spawn, spawn_with, FailStart
  <2> QED BY <2>1, <2>2, ImageQuiet DEF NoImageYet, Boot, Early
<1>4. CASE SeizeRefused \/ OnExit \/ Dies
  BY <1>4, ImageQuiet DEF SeizeRefused, seize_refused, OnExit, Dies
<1>5. CASE OnExec
  <2>1. req' = req /\ dl' = dl /\ pc = "execev"
        /\ (UNCHANGED <<pc, mem, prog, dl, seg, given>> \/ pc' = "image")
    BY <1>5 DEF OnExec
  <2> QED BY <2>1, ImageQuiet DEF NoImageYet
<1>6. CASE Exec
  BY <1>6, ImageQuiet DEF Exec, NoImageYet, Boot, Late
<1>7. CASE LoaderStep
  BY <1>7, ImageQuiet, ReserveStep, MapStep, ReserveInterpStep, MapInterpStep, NoInterpStep
     DEF LoaderStep, LoadProgram, LoadInterp, Jump, LoaderDies
<1>8. CASE KernelLoads
  <2>1. pc' = "guest" /\ ~loader'
    BY <1>8 DEF KernelLoads, loader
  <2> QED BY <2>1 DEF ImageInv, ProgInv, InterpInv, InImage, Loading, NoImageYet, Boot, Early, Late
<1>9. ASSUME NEW i \in DOMAIN Stages, Stage(Stages[i]) PROVE ImageInv'
  <2>1. pc \in Boot /\ pc' \in Boot /\ dl' = dl /\ req' = req
    BY <1>9, StageSteps, AfterIs DEF Boot, Early, Late
  <2> QED BY <2>1, ImageQuiet DEF NoImageYet
<1>10. ASSUME NEW i \in DOMAIN Stages, StageFails(Stages[i]) PROVE ImageInv'
  BY <1>10, ImageQuiet DEF StageFails
<1>11. CASE Over
  BY <1>11, ImageQuiet DEF Over, vars
<1> QED BY <1>1, <1>2, <1>3, <1>4, <1>5, <1>6, <1>7, <1>8, <1>9, <1>10, <1>11 DEF Next

----------------------------------------------------------------------------
(* plan() and the dynamic loader against execve(2). *)

\* The recursive function execve(2) is described by exists: it is there for no script, and
\* for one more script if it is there for some.
LEMMA ExecsAre ==
  ASSUME NEW e, NEW cwd
  PROVE  /\ Execs(e, cwd)[0] = e
         /\ \A k \in 1 .. kMaxShebangDepth : Execs(e, cwd)[k] = Onward(Execs(e, cwd)[k - 1], cwd)
<1> DEFINE Fits(f, n) == f = [k \in 0 .. n |-> IF k = 0 THEN e ELSE Onward(f[k - 1], cwd)]
           S == {n \in Nat : \E f : Fits(f, n)}
<1>1. 0 \in S
  <2>1. Fits([k \in 0 .. 0 |-> e], 0)
    OBVIOUS
  <2> QED BY <2>1
<1>2. ASSUME NEW n \in Nat, n \in S PROVE n + 1 \in S
  <2>1. PICK f : Fits(f, n)
    BY <1>2
  <2> DEFINE g == [k \in 0 .. n + 1 |-> IF k = n + 1 THEN Onward(f[n], cwd) ELSE f[k]]
  <2>2. ASSUME NEW k \in 0 .. n + 1 PROVE g[k] = IF k = 0 THEN e ELSE Onward(g[k - 1], cwd)
    <3>1. CASE k = n + 1
      BY <3>1
    <3>2. CASE k = 0
      BY <2>1, <3>2
    <3>3. CASE k \in 1 .. n
      <4>1. f[k] = Onward(f[k - 1], cwd)
        BY <2>1, <3>3
      <4>2. g[k] = f[k] /\ g[k - 1] = f[k - 1]
        BY <3>3
      <4> QED BY <3>3, <4>1, <4>2
    <3> QED BY <3>1, <3>2, <3>3
  <2>3. Fits(g, n + 1)
    BY <2>2
  <2>4. \E f2 : Fits(f2, n + 1)
    <3> HIDE DEF g
    <3> WITNESS g
    <3> QED BY <2>3
  <2> QED BY <2>4
<1>3. \A n \in Nat : n \in S
  <2> HIDE DEF S
  <2> TAKE n \in Nat
  <2>1. \A k \in 0 .. n - 1 : k \in S => k + 1 \in S
    BY <1>2
  <2> QED BY <1>1, <2>1, UpTo
<1>4. \E f : Fits(f, kMaxShebangDepth)
  BY <1>3, ExecAssumption
<1>5. Fits(Execs(e, cwd), kMaxShebangDepth)
  BY <1>4 DEF Execs
<1> QED BY <1>5, ExecAssumption

\* The words of a line from a position on.
SaidFrom(l, i) == {j \in i .. Len(l) : l[j] # Space}
\* What parse_shebang skips, from position i on.
LEMMA Skipped ==
  ASSUME NEW l \in Seq(Paths), NEW i \in 0 .. Len(l), NEW s, s = SubSeq(l, i + 1, Len(l))
  PROVE  skip_blanks(s) = IF SaidFrom(l, i + 1) = {} THEN <<>>
                          ELSE SubSeq(l, Least(SaidFrom(l, i + 1)), Len(l))
<1> USE DEF SaidFrom
<1> DEFINE n == SaidFrom(l, i + 1)
           m == {k \in DOMAIN s : s[k] # Space}
<1>1. s \in Seq(Paths) /\ Len(s) = Len(l) - i /\ \A k \in 1 .. Len(s) : s[k] = l[i + k]
  OBVIOUS
<1>2. \A k \in m : i + k \in n
  BY <1>1
<1>3. \A j \in n : j - i \in m
  BY <1>1
<1>4. CASE n = {}
  BY <1>2, <1>4 DEF skip_blanks
<1>5. CASE n # {}
  <2>1. PICK j \in n : \A x \in n : j <= x
    <3>1. n \in SUBSET Nat
      OBVIOUS
    <3> QED BY <1>5, <3>1, LeastExists
  <2>2. Least(n) = j
    <3>1. n \in SUBSET Nat
      OBVIOUS
    <3> QED BY <2>1, <3>1, LeastUnique
  <2>3. Least(m) = j - i
    <3>1. m \in SUBSET Nat /\ j - i \in m
      BY <1>1, <1>3
    <3>2. \A k \in m : j - i <= k
      BY <1>1, <1>2, <2>1
    <3> HIDE DEF m, n
    <3> QED BY <3>1, <3>2, LeastUnique
  <2>4. SubSeq(s, j - i, Len(s)) = SubSeq(l, j, Len(l))
    <3>1. j \in i + 1 .. Len(l)
      OBVIOUS
    <3> HIDE DEF n, m
    <3> QED BY <1>1, <3>1
  <2>5. m # {}
    BY <1>3, <1>5
  <2>6. skip_blanks(s) = SubSeq(s, Least(m), Len(s))
    BY <2>5 DEF skip_blanks
  <2>7. skip_blanks(s) = SubSeq(l, Least(n), Len(l))
    BY <2>2, <2>3, <2>4, <2>6
  <2> QED BY <1>5, <2>7
<1> QED BY <1>4, <1>5

\* trim_end keeps what ends with the last word, without its carriage returns.
LEMMA Trimmed ==
  ASSUME NEW l \in Seq(Paths), NEW i \in 1 .. Len(l), NEW s, s = SubSeq(l, i, Len(l)),
         NEW e, e = {j \in i .. Len(l) : Solid(l[j])}
  PROVE  trim_end(s) = IF e = {} THEN <<>>
                       ELSE Append(SubSeq(l, i, Greatest(e) - 1), chomp(l[Greatest(e)]))
<1> DEFINE m == {k \in DOMAIN s : Solid(s[k])}
<1>1. s \in Seq(Paths) /\ Len(s) = Len(l) - i + 1 /\ \A k \in 1 .. Len(s) : s[k] = l[i - 1 + k]
  OBVIOUS
<1>2. \A k \in m : i - 1 + k \in e
  BY <1>1
<1>3. \A j \in e : j - i + 1 \in m
  BY <1>1
<1>4. CASE e = {}
  BY <1>2, <1>4 DEF trim_end
<1>5. CASE e # {}
  <2>0. e \in SUBSET (0 .. Len(l)) /\ m \in SUBSET Nat /\ Len(l) \in Nat
    BY <1>1
  <2>1. Greatest(e) \in e /\ \A x \in e : x <= Greatest(e)
    BY <1>5, <2>0, GreatestIs
  <2> DEFINE j == Greatest(e)
  <2>2. j \in i .. Len(l) /\ j \in e
    BY <2>1
  <2>3. Greatest(m) = j - i + 1
    <3>1. j - i + 1 \in m
      BY <1>3, <2>1
    <3>2. \A k \in m : i - 1 + k <= j /\ k \in Nat
      BY <1>2, <2>0, <2>1
    <3>3. \A k \in m : k <= j - i + 1
      <4> HIDE DEF m, j
      <4> QED BY <2>2, <3>2
    <3> HIDE DEF m, j
    <3> QED BY <2>0, <3>1, <3>3, GreatestUnique
  <2>4. ASSUME NEW q \in Int, q = j - i + 1
        PROVE  SubSeq(s, 1, q - 1) = SubSeq(l, i, j - 1) /\ s[q] = l[j]
    <3> HIDE DEF j, m
    <3>1. q \in 1 .. Len(s) /\ i - 1 + q = j /\ q - 1 = j - i
      BY <1>1, <2>2, <2>4
    <3>2. s[q] = l[j]
      BY <1>1, <3>1
    <3>3. SubSeq(s, 1, j - i) = SubSeq(l, i, j - 1)
      BY <1>1, <2>2
    <3>4. SubSeq(s, 1, q - 1) = SubSeq(s, 1, j - i)
      BY <3>1, Zenon
    <3> QED BY <3>2, <3>3, <3>4, Zenon
  <2>5. m # {}
    BY <1>3, <1>5
  <2>6. trim_end(s) = Append(SubSeq(s, 1, Greatest(m) - 1), chomp(s[Greatest(m)]))
    BY <2>5 DEF trim_end
  <2>7. trim_end(s) = Append(SubSeq(l, i, j - 1), chomp(l[j]))
    <3> DEFINE q == Greatest(m)
    <3>1. q = j - i + 1 /\ q \in Int
      <4>1. j - i + 1 \in Int
        <5> HIDE DEF j, m
        <5> QED BY <2>2
      <4> QED BY <2>3, <4>1
    <3> HIDE DEF q, j, m
    <3>2. SubSeq(s, 1, q - 1) = SubSeq(l, i, j - 1) /\ s[q] = l[j]
      BY <2>4, <3>1
    <3>3. trim_end(s) = Append(SubSeq(s, 1, q - 1), chomp(s[q]))
      BY <2>6 DEF q
    <3> QED BY <3>2, <3>3
  <2> QED BY <1>5, <2>7
<1> QED BY <1>4, <1>5

\* A sequence with an element appended is not empty, whatever the element.
LEMMA AppendedTo ==
  ASSUME NEW S, NEW s \in Seq(S), NEW x
  PROVE  Append(s, x) # <<>>
<1> DEFINE T == S \cup {x}
<1>1. s \in Seq(T) /\ x \in T
  OBVIOUS
<1> HIDE DEF T
<1> QED BY <1>1

\* A word that does not end in a carriage return keeps all its parts.
LEMMA Unchomped ==
  ASSUME NEW w \in Paths, Last(w) # CR
  PROVE  chomp(w) = w
<1> DEFINE n == {i \in DOMAIN w : w[i] # CR}
<1>1. Len(w) \in Nat /\ w \in Seq(STRING) /\ Len(w) >= 1 /\ DOMAIN w = 1 .. Len(w)
  BY DEF Paths
<1>2. Len(w) \in n /\ \A i \in n : i <= Len(w)
  BY <1>1 DEF Last
<1>3. n \in SUBSET Nat
  BY <1>1
<1>4. Greatest(n) = Len(w)
  <2> HIDE DEF n
  <2> QED BY <1>2, <1>3, GreatestUnique
<1>5. chomp(w) = SubSeq(w, 1, Len(w))
  BY <1>2, <1>4 DEF chomp
<1> QED BY <1>1, <1>5

\* Without a carriage return at the end of its option, a line is read as Linux reads it.
LEMMA NoneTaken ==
  ASSUME NEW l \in Seq(Paths), ~EndsInCR(l)
  PROVE  WithoutCR(l) = Others(l)
<1> DEFINE o == Option(l)
           solid == {i \in o : Solid(l[i])}
           g == Greatest(o)
           a == Least(o)
<1>1. o \in SUBSET (0 .. Len(l)) /\ o \in SUBSET (1 .. Len(l)) /\ o \in SUBSET Nat /\ Len(l) \in Nat
      /\ \A i \in o : l[i] # Space
  BY DEF Option, Said
<1>2. CASE o = {}
  BY <1>2 DEF WithoutCR, Others
<1>3. CASE o # {}
  <2>1. g \in o /\ (\A x \in o : x <= g) /\ a \in o /\ \A x \in o : a <= x
    <3> HIDE DEF o
    <3> QED BY <1>1, <1>3, GreatestIs, LeastIs
  <2>2. Last(l[g]) # CR /\ l[g] \in Paths
    BY <1>1, <1>3, <2>1 DEF EndsInCR
  <2>3. chomp(l[g]) = l[g]
    BY <2>2, Unchomped
  <2>4. g \in solid
    BY <1>1, <2>1, <2>2, <2>3 DEF Solid, Paths
  <2>5. Greatest(solid) = g
    <3>1. solid \in SUBSET Nat /\ \A x \in solid : x <= g
      BY <1>1, <2>1
    <3> HIDE DEF solid, g
    <3> QED BY <2>4, <3>1, GreatestUnique
  <2>6. WithoutCR(l) = <<FlattenSeq(Append(SubSeq(l, a, Greatest(solid) - 1), chomp(l[Greatest(solid)])))>>
    BY <2>4 DEF WithoutCR
  <2>7. Others(l) = <<FlattenSeq(SubSeq(l, a, g))>>
    BY <1>3 DEF Others
  <2>8. Append(SubSeq(l, a, g - 1), l[g]) = SubSeq(l, a, g)
    <3>1. a \in 1 .. Len(l) /\ g \in 1 .. Len(l) /\ a <= g
      BY <1>1, <2>1
    <3> HIDE DEF a, g
    <3>2. SubSeq(l, a, g - 1) \in Seq(Paths) /\ Len(SubSeq(l, a, g - 1)) = g - a /\ l[g] \in Paths
      BY <3>1
    <3>3. SubSeq(l, a, g) \in Seq(Paths) /\ Len(SubSeq(l, a, g)) = g - a + 1
      BY <3>1
    <3> DEFINE u == SubSeq(l, a, g - 1)
               v == SubSeq(l, a, g)
               x == l[g]
    <3>4. \A k \in 1 .. g - a : u[k] = l[a - 1 + k]
      BY <3>1
    <3>5. \A k \in 1 .. g - a + 1 : v[k] = l[a - 1 + k]
      BY <3>1
    <3>6. v[g - a + 1] = x
      <4>1. g - a + 1 \in 1 .. g - a + 1 /\ a - 1 + (g - a + 1) = g
        BY <3>1
      <4> QED BY <3>5, <4>1
    <3>7. Len(u) = g - a /\ Len(v) = g - a + 1 /\ u \in Seq(Paths) /\ v \in Seq(Paths) /\ x \in Paths
      BY <3>2, <3>3
    <3> HIDE DEF u, v, x
    <3>8. Append(u, x) = v
      <4> DEFINE n == g - a
                 w == Append(u, x)
      <4>1. n \in Nat /\ Len(u) = n /\ Len(v) = n + 1
        BY <3>1, <3>7
      <4>2. w \in Seq(Paths) /\ Len(w) = n + 1 /\ w[n + 1] = x /\ \A k \in 1 .. n : w[k] = u[k]
        BY <3>7, <4>1
      <4>3. ASSUME NEW k \in 1 .. n PROVE u[k] = v[k]
        <5>1. k \in 1 .. g - a /\ k \in 1 .. g - a + 1
          BY <4>1
        <5>2. u[k] = l[a - 1 + k] /\ v[k] = l[a - 1 + k]
          BY <3>4, <3>5, <5>1, Zenon
        <5> QED BY <5>2, Zenon
      <4>4. v[n + 1] = x
        BY <3>6
      <4> HIDE DEF n, w
      <4>5. \A k \in 1 .. n + 1 : w[k] = v[k]
        BY <4>1, <4>2, <4>3, <4>4
      <4>6. w = v
        BY <3>7, <4>1, <4>2, <4>5
      <4> QED BY <4>6 DEF w
    <3> QED BY <3>8 DEF u, v, x
  <2> HIDE DEF solid, g, a
  <2> QED BY <2>3, <2>5, <2>6, <2>7, <2>8
<1> QED BY <1>2, <1>3

\* parse_shebang finds the first word of a line, and as its argument the rest.
LEMMA Parsed ==
  ASSUME NEW l \in Seq(Paths)
  PROVE  /\ parse_shebang(l).interp # <<>> <=> Said(l) # {}
         /\ Said(l) # {} => /\ parse_shebang(l).interp = First(l)
                            /\ parse_shebang(l).args = WithoutCR(l)
<1>0. /\ l = SubSeq(l, 1, Len(l)) /\ Said(l) = SaidFrom(l, 1)
      /\ Said(l) \in SUBSET (1 .. Len(l)) /\ Said(l) \in SUBSET Nat
  BY DEF Said, SaidFrom
<1>1. skip_blanks(l) = IF Said(l) = {} THEN <<>> ELSE SubSeq(l, Least(Said(l)), Len(l))
  BY <1>0, Skipped
<1>2. CASE Said(l) = {}
  BY <1>1, <1>2 DEF parse_shebang
<1>3. CASE Said(l) # {}
  <2> DEFINE i == Least(Said(l))
             rest == SubSeq(l, i, Len(l))
             t == SubSeq(l, i + 1, Len(l))
             after == Said(l) \ {i}
             ends == {j \in after : Solid(l[j])}
  <2>1. i \in Said(l) /\ i \in 1 .. Len(l) /\ \A j \in Said(l) : i <= j
    BY <1>0, <1>3, LeastIs
  <2>2. rest # <<>> /\ Head(rest) = l[i] /\ Tail(rest) = t
    <3> HIDE DEF i
    <3>1. rest \in Seq(Paths) /\ Len(rest) = Len(l) - i + 1 /\ Len(rest) >= 1
          /\ \A k \in 1 .. Len(rest) : rest[k] = l[i - 1 + k]
      BY <2>1
    <3>2. t \in Seq(Paths) /\ Len(t) = Len(l) - i /\ \A k \in 1 .. Len(t) : t[k] = l[i + k]
      BY <2>1
    <3>3. rest # <<>> /\ Head(rest) = l[i]
      <4>1. rest[1] = l[i]
        BY <2>1, <3>1
      <4> HIDE DEF rest
      <4> QED BY <3>1, <4>1
    <3>4. Tail(rest) \in Seq(Paths) /\ Len(Tail(rest)) = Len(l) - i
          /\ \A k \in 1 .. Len(l) - i : Tail(rest)[k] = rest[k + 1]
      <4> HIDE DEF rest
      <4> QED BY <2>1, <3>1
    <3>5. \A k \in 1 .. Len(l) - i : Tail(rest)[k] = t[k]
      <4> TAKE k \in 1 .. Len(l) - i
      <4>1. k + 1 \in 1 .. Len(rest) /\ i - 1 + (k + 1) = i + k
        <5> HIDE DEF rest, t
        <5> QED BY <2>1, <3>1
      <4>2. Tail(rest)[k] = l[i + k] /\ t[k] = l[i + k]
        <5> HIDE DEF rest, t
        <5> QED BY <3>1, <3>2, <3>4, <4>1
      <4> QED BY <4>2
    <3> HIDE DEF rest, t
    <3> QED BY <3>2, <3>3, <3>4, <3>5
  <2>3. l[i] # <<>>
    BY <2>1 DEF Paths
  <2>4. /\ parse_shebang(l).interp = l[i]
        /\ parse_shebang(l).args = optional(trim_end(skip_blanks(t)))
    BY <1>1, <1>3, <2>2 DEF parse_shebang
  <2>5. after = SaidFrom(l, i + 1)
    <3> HIDE DEF i
    <3> QED BY <2>1 DEF Said, SaidFrom
  <2>6. skip_blanks(t) = IF after = {} THEN <<>> ELSE SubSeq(l, Least(after), Len(l))
    <3> HIDE DEF i, after
    <3>1. i \in 0 .. Len(l)
      BY <2>1
    <3> QED BY <2>5, <3>1, Skipped
  <2>7. WithoutCR(l) = IF ends = {} THEN <<>>
                       ELSE <<FlattenSeq(Append(SubSeq(l, Least(after), Greatest(ends) - 1),
                                                chomp(l[Greatest(ends)])))>>
    BY DEF WithoutCR, Option
  <2>8. CASE after = {}
    <3>1. trim_end(<<>>) = <<>>
      BY DEF trim_end
    <3> QED BY <2>4, <2>6, <2>7, <2>8, <3>1, <1>3, <2>3 DEF optional, First
  <2>9. CASE after # {}
    <3> DEFINE a == Least(after)
    <3>1. a \in after /\ \A j \in after : a <= j
      <4>1. after \in SUBSET Nat
        BY <1>0
      <4> HIDE DEF after
      <4> QED BY <2>9, <4>1, LeastIs
    <3>2. a \in 1 .. Len(l)
      BY <1>0, <3>1
    <3>3. ends = {j \in a .. Len(l) : Solid(l[j])}
      <4>1. \A j \in ends : j \in a .. Len(l) /\ Solid(l[j])
        <5>1. ASSUME NEW j \in ends PROVE j \in after /\ j \in 1 .. Len(l) /\ Solid(l[j])
          BY <1>0
        <5> HIDE DEF a, after, ends
        <5> QED BY <3>1, <3>2, <5>1
      <4>2. ASSUME NEW j \in a .. Len(l), Solid(l[j]) PROVE j \in ends
        <5>1. l[j] # Space
          BY <4>2 DEF Solid
        <5> QED BY <2>1, <2>5, <3>1, <3>2, <4>2, <5>1 DEF SaidFrom
      <4> QED BY <4>1, <4>2
    <3> DEFINE kept == Append(SubSeq(l, a, Greatest(ends) - 1), chomp(l[Greatest(ends)]))
    <3>4. trim_end(SubSeq(l, a, Len(l))) = IF ends = {} THEN <<>> ELSE kept
      <4> HIDE DEF a, ends
      <4> QED BY <3>2, <3>3, Trimmed
    <3>5. ASSUME ends # {} PROVE kept # <<>>
      <4>1. ends \in SUBSET (0 .. Len(l)) /\ Len(l) \in Nat
        BY <1>0
      <4>2. Greatest(ends) \in ends
        <5> HIDE DEF ends
        <5> QED BY <3>5, <4>1, GreatestIs
      <4>3. Greatest(ends) \in a .. Len(l)
        <5> HIDE DEF a
        <5> QED BY <3>3, <4>2
      <4>4. SubSeq(l, a, Greatest(ends) - 1) \in Seq(Paths)
        <5> HIDE DEF a, ends
        <5> QED BY <3>2, <4>3
      <4> HIDE DEF a, ends
      <4> QED BY <4>4, AppendedTo
    <3>6. optional(trim_end(skip_blanks(t))) = WithoutCR(l)
      <4> HIDE DEF ends, after, t, kept
      <4>1. WithoutCR(l) = IF ends = {} THEN <<>> ELSE <<FlattenSeq(kept)>>
        BY <2>7 DEF kept
      <4> QED BY <2>6, <2>9, <3>4, <3>5, <4>1 DEF optional
    <3> QED BY <1>3, <2>3, <2>4, <3>6 DEF First
  <2> QED BY <2>8, <2>9
<1> QED BY <1>2, <1>3

\* An argument vector with at least one argument.
Args(a) == \E S : a \in Seq(S) \ {<<>>}

\* The plan that runs guest file g with arguments a.
PlanOf(p, g, a) ==
    /\ g \in DOMAIN Files /\ p.guest_program = g /\ p.program_argv = a
    /\ IF p.via_loader
       THEN p.argv = <<Head(a)>> \o (IF p.loader_argv0 THEN <<<<"--argv0">>, Head(a)>> ELSE <<>>)
                     \o <<g>> \o Tail(a)
       ELSE p.argv = a /\ p.host_exec = g

\* A refusal is a plan with an error.
LEMMA Refused == \A e, d : Refuse(e, d).err = e
BY DEF Refuse, NoPlan

\* What exec looks at of a lookup.
LEMMA Resolves ==
  ASSUME NEW p
  PROVE  /\ resolve(p).err \in {"ok", "ELOOP", "ENOENT"}
         /\ resolve(p).err = "ok" => resolve(p).guest \in DOMAIN Files
BY DEF resolve

\* The plan for a file that is no script: a refusal, or one that runs it.
LEMMA ElfPlanOf ==
  ASSUME NEW g \in DOMAIN Files, NEW a
  PROVE  LET p == plan_elf(g, Files[g], parse_header(Files[g]), a)
         IN /\ p.err # ""
            /\ p.err = "ok" => PlanOf(p, g, a) /\ Files[g].kind = "elf"
<1> DEFINE h == parse_header(Files[g])
           p == plan_elf(g, Files[g], h, a)
           static == [NoPlan EXCEPT !.err = "ok", !.host_exec = g, !.argv = a, !.guest_program = g,
                                    !.program_argv = a]
           dyn(lr) == via_loader(g, a, lr)
<1>1. static.err = "ok" /\ PlanOf(static, g, a)
  BY DEF NoPlan, PlanOf
<1>2. ASSUME NEW x
      PROVE  dyn(resolve(x)).err # "" /\ (dyn(resolve(x)).err = "ok" => PlanOf(dyn(resolve(x)), g, a))
  BY Resolves, Refused DEF via_loader, PlanOf
<1>3. /\ \/ \E d : p = Refuse("ENOEXEC", d)
         \/ p = static
         \/ \E x : p = dyn(resolve(x))
      /\ Files[g].kind # "elf" => \E d : p = Refuse("ENOEXEC", d)
  <2>1. Files[g].kind # "elf" => h.err = "not_elf" \/ (h.err = "truncated" /\ Files[g].size < 4)
    BY DEF parse_header, Header
  <2> HIDE DEF h
  <2>2. Files[g].kind # "elf" => \E d : p = Refuse("ENOEXEC", d)
    BY <2>1, Zenon DEF plan_elf
  <2>3. \/ \E d : p = Refuse("ENOEXEC", d)
        \/ p = static
        \/ \E x : p = dyn(resolve(x))
    BY Zenon DEF plan_elf
  <2> QED BY <2>2, <2>3
<1> HIDE DEF p, static, dyn
<1>4. CASE \E d : p = Refuse("ENOEXEC", d)
  <2>1. PICK d : p = Refuse("ENOEXEC", d)
    BY <1>4
  <2>2. p.err = "ENOEXEC"
    BY <2>1, Refused
  <2> QED BY <2>2 DEF p
<1>5. CASE p = static /\ Files[g].kind = "elf"
  BY <1>1, <1>5, Zenon DEF p
<1>6. CASE (\E x : p = dyn(resolve(x))) /\ Files[g].kind = "elf"
  BY <1>2, <1>6, Zenon DEF p
<1> QED BY <1>3, <1>4, <1>5, <1>6

\* One round of plan()'s loop: it goes on through a script as execve(2) does, and ends in
\* a plan that runs the file only when that is no script.
LEMMA RoundOf ==
  ASSUME NEW n, NEW e, NEW cwd,
         NEW r, r = plan_round(n, e.file, e.taken, cwd)
  PROVE  /\ r.plan = NoPlan => Script(e.file) /\ r.current = Through(e, cwd).file /\ r.argv = Through(e, cwd).taken
         /\ r.plan.err = "ok" => ~Script(e.file) /\ PlanOf(r.plan, resolve(e.file).guest, e.taken)
         /\ n > kMaxShebangDepth => r.plan.err = "ELOOP"
<1> DEFINE found == resolve(e.file)
           g == found.guest
           f == Files[g]
           s == parse_shebang(f.line)
           elf == plan_elf(g, f, parse_header(f), e.taken)
<1>1. \A q : Decided(q).plan = q
  BY DEF Decided
<1>2. NoPlan.err = ""
  BY DEF NoPlan
<1>3. CASE \E x, d : x \notin {"", "ok"} /\ r = Decided(Refuse(x, d)) /\ (n > kMaxShebangDepth => x = "ELOOP")
  <2>1. PICK x, d : x \notin {"", "ok"} /\ r = Decided(Refuse(x, d)) /\ (n > kMaxShebangDepth => x = "ELOOP")
    BY <1>3
  <2>2. r.plan = Refuse(x, d)
    BY <1>1, <2>1, Zenon
  <2>3. r.plan.err = x
    BY <2>2, Refused, Zenon
  <2> QED BY <1>2, <2>1, <2>3
<1>4. CASE /\ ~(n > kMaxShebangDepth) /\ found.err = "ok" /\ f.kind = "script" /\ s.interp # <<>>
           /\ r = GoOn(absolute(s.interp, cwd), <<s.interp>> \o s.args \o <<e.file>> \o Tail(e.taken))
  <2>1. f.line \in Seq(Paths)
    BY <1>4, Resolves, ExecAssumption
  <2>2. s.interp = First(f.line) /\ s.args = WithoutCR(f.line) /\ Said(f.line) # {}
    BY <1>4, <2>1, Parsed
  <2>3. Script(e.file)
    BY <1>4, <2>2 DEF Script, Line, Said
  <2>4. r.current = Through(e, cwd).file /\ r.argv = Through(e, cwd).taken /\ r.plan = NoPlan
    <3>1. \A c, v : GoOn(c, v).current = c /\ GoOn(c, v).argv = v /\ GoOn(c, v).plan = NoPlan
      BY DEF GoOn
    <3>2. /\ Through(e, cwd).file = absolute(First(Line(e.file)), cwd)
          /\ Through(e, cwd).taken = <<First(Line(e.file))>> \o WithoutCR(Line(e.file)) \o <<e.file>> \o Tail(e.taken)
      BY DEF Through
    <3>3. Line(e.file) = f.line
      BY DEF Line
    <3>4. /\ r.current = absolute(s.interp, cwd) /\ r.plan = NoPlan
          /\ r.argv = <<s.interp>> \o s.args \o <<e.file>> \o Tail(e.taken)
      <4> DEFINE c0 == absolute(s.interp, cwd)
                 v0 == <<s.interp>> \o s.args \o <<e.file>> \o Tail(e.taken)
      <4>1. r = GoOn(c0, v0)
        BY <1>4
      <4> HIDE DEF c0, v0
      <4>2. r.current = c0 /\ r.argv = v0 /\ r.plan = NoPlan
        BY <4>1, SMT DEF GoOn
      <4> QED BY <4>2 DEF c0, v0
    <3>5. s.interp = First(Line(e.file)) /\ s.args = WithoutCR(Line(e.file))
      BY <2>2, <3>3
    <3> HIDE DEF s, f
    <3> QED BY <3>2, <3>4, <3>5
  <2> QED BY <1>2, <1>4, <2>3, <2>4
<1>5. CASE ~(n > kMaxShebangDepth) /\ found.err = "ok" /\ r = Decided(elf)
  <2>1. elf.err # "" /\ (elf.err = "ok" => PlanOf(elf, g, e.taken) /\ f.kind = "elf")
    <3>1. g \in DOMAIN Files
      BY <1>5, Resolves
    <3> QED BY <3>1, ElfPlanOf
  <2>2. f.kind = "elf" => ~Script(e.file)
    BY DEF Script
  <2> HIDE DEF elf
  <2> QED BY <1>1, <1>2, <1>5, <2>1, <2>2
<1> QED
  <2>1. \/ \E x, d : x \notin {"", "ok"} /\ r = Decided(Refuse(x, d)) /\ (n > kMaxShebangDepth => x = "ELOOP")
        \/ /\ ~(n > kMaxShebangDepth) /\ found.err = "ok" /\ f.kind = "script" /\ s.interp # <<>>
           /\ r = GoOn(absolute(s.interp, cwd), <<s.interp>> \o s.args \o <<e.file>> \o Tail(e.taken))
        \/ ~(n > kMaxShebangDepth) /\ found.err = "ok" /\ r = Decided(elf)
    <3>1. CASE n > kMaxShebangDepth
      <4>1. r = Decided(Refuse("ELOOP", "shebang_loop"))
        BY <3>1 DEF plan_round
      <4> QED BY <4>1
    <3>2. CASE ~(n > kMaxShebangDepth) /\ found.err # "ok"
      <4>1. r = Decided(Refuse(found.err, ""))
        BY <3>2 DEF plan_round, plan_file
      <4> QED BY <3>2, <4>1, Resolves
    <3>3. CASE ~(n > kMaxShebangDepth) /\ found.err = "ok"
      <4>1. \/ \E d : r = Decided(Refuse("EACCES", d))
            \/ r = plan_script(g, f, s, e.file, e.taken, cwd)
        BY <3>3, Zenon DEF plan_round, plan_file
      <4>2. CASE \E d : r = Decided(Refuse("EACCES", d))
        BY <3>3, <4>2
      <4>3. CASE r = plan_script(g, f, s, e.file, e.taken, cwd)
        BY <3>3, <4>3, Zenon DEF plan_script
      <4> QED BY <4>1, <4>2, <4>3
    <3> QED BY <3>1, <3>2, <3>3
  <2> QED BY <1>3, <1>4, <1>5, <2>1

\* The guest's dynamic loader takes program and arguments off its command line again.
LEMMA LdSoRuns ==
  ASSUME NEW p, NEW g, NEW a, Args(a), PlanOf(p, g, a), p.via_loader
  PROVE  /\ LdSo(p.argv).file = g
         /\ p.loader_argv0 => LdSo(p.argv).argv = a
         /\ ~p.loader_argv0 => Tail(LdSo(p.argv).argv) = Tail(a)
<1>1. PICK S : a \in Seq(S) /\ a # <<>>
  BY DEF Args
<1>2. g \in Paths /\ Head(g) = "/"
  BY ExecAssumption DEF PlanOf
<1>3. g # <<"--argv0">>
  BY <1>2
<1> DEFINE T == S \cup {g, <<"--argv0">>}
           h == Head(a)
           t == Tail(a)
<1>4. h \in T /\ g \in T /\ <<"--argv0">> \in T /\ t \in Seq(T)
  BY <1>1
<1>5. a = <<h>> \o t
  BY <1>1
<1> HIDE DEF T, h, t
<1>6. CASE p.loader_argv0
  <2>1. p.argv = <<h>> \o <<<<"--argv0">>, h>> \o <<g>> \o t
    BY <1>6 DEF PlanOf, h, t
  <2>2. /\ p.argv \in Seq(T) /\ Len(p.argv) = Len(t) + 4
        /\ p.argv[2] = <<"--argv0">> /\ p.argv[3] = h /\ p.argv[4] = g
        /\ \A k \in 1 .. Len(t) : p.argv[k + 4] = t[k]
    BY <1>4, <2>1
  <2>3. SubSeq(p.argv, 5, Len(p.argv)) = t
    BY <1>4, <2>2
  <2>4. LdSo(p.argv).file = g /\ LdSo(p.argv).argv = <<h>> \o t
    BY <2>2, <2>3 DEF LdSo
  <2> QED BY <1>5, <1>6, <2>4
<1>7. CASE ~p.loader_argv0
  <2>1. p.argv = <<h>> \o <<>> \o <<g>> \o t
    BY <1>7 DEF PlanOf, h, t
  <2>2. /\ p.argv \in Seq(T) /\ Len(p.argv) = Len(t) + 2 /\ p.argv[2] = g
        /\ \A k \in 1 .. Len(t) : p.argv[k + 2] = t[k]
    BY <1>4, <2>1
  <2>3. LdSo(p.argv).file = g /\ LdSo(p.argv).argv = Tail(p.argv)
    BY <1>3, <2>2 DEF LdSo
  <2>4. Tail(Tail(p.argv)) = t
    <3> DEFINE u == Tail(p.argv)
    <3>1. /\ u \in Seq(T) /\ Len(u) = Len(t) + 1
          /\ \A k \in 1 .. Len(t) : u[k + 1] = t[k]
      BY <1>4, <2>2
    <3> HIDE DEF u
    <3>2. /\ Tail(u) \in Seq(T) /\ Len(Tail(u)) = Len(t)
          /\ \A k \in 1 .. Len(t) : Tail(u)[k] = t[k]
      BY <1>4, <3>1
    <3>3. Tail(u) = t
      BY <1>4, <3>2
    <3> QED BY <3>3 DEF u
  <2> QED BY <1>7, <2>3, <2>4 DEF t
<1> QED BY <1>6, <1>7

\* A script's interpreter is given arguments, too.
LEMMA ArgsThrough ==
  ASSUME NEW e, NEW cwd, Args(e.taken)
  PROVE  Args(Through(e, cwd).taken)
<1>1. PICK S : e.taken \in Seq(S) /\ e.taken # <<>>
  BY DEF Args
<1> DEFINE i == First(Line(e.file))
           o == WithoutCR(Line(e.file))
           v == Through(e, cwd).taken
<1>2. v = <<i>> \o o \o <<e.file>> \o Tail(e.taken)
  BY DEF Through
<1>3. o = <<>> \/ \E x : o = <<x>>
  BY DEF WithoutCR
<1> HIDE DEF i, o, v
<1>4. CASE o = <<>>
  <2> DEFINE T == S \cup {i, e.file}
  <2>1. i \in T /\ e.file \in T /\ Tail(e.taken) \in Seq(T)
    BY <1>1
  <2> HIDE DEF T
  <2>2. v \in Seq(T) /\ v # <<>>
    BY <1>2, <1>4, <2>1
  <2> QED BY <2>2 DEF Args, v
<1>5. CASE \E x : o = <<x>>
  <2>1. PICK x : o = <<x>>
    BY <1>5
  <2> DEFINE T == S \cup {i, e.file, x}
  <2>2. i \in T /\ e.file \in T /\ x \in T /\ Tail(e.taken) \in Seq(T)
    BY <1>1
  <2> HIDE DEF T
  <2>3. v \in Seq(T) /\ v # <<>>
    BY <1>2, <2>1, <2>2
  <2> QED BY <2>3 DEF Args, v
<1> QED BY <1>3, <1>4, <1>5

\* A path keeps its last name when it is made absolute.
LEMMA LastOfAbsolute ==
  ASSUME NEW p \in Paths, NEW cwd \in Paths
  PROVE  Last(absolute(p, cwd)) = Last(p)
BY DEF absolute, join, Last, Paths

\* The command that is looked up is a path.
LEMMA CommandPath ==
  ASSUME req \in Requests, command.err = "ok"
  PROVE  command.path \in Paths /\ Args(start_argv(command)) /\ req.cwd \in Paths
<1>1. /\ req.argv \in Seq(Seq(STRING)) /\ (req.argv # <<>> => req.argv[1] # <<>>)
      /\ req.cwd \in Paths /\ req.path \in Seq(Seq(STRING))
  BY LaunchAssumption
<1>2. CASE req.argv = <<>>
  <2> DEFINE found == {i \in DOMAIN Shells : is_file(resolve(Shells[i]))}
  <2>1. found # {} /\ command.path = Shells[Least(found)]
    BY <1>2 DEF command
  <2>2. Shells \in Seq(Paths) /\ found \in SUBSET (1 .. Len(Shells))
    BY LaunchAssumption
  <2>3. Least(found) \in found
    <3>1. found \in SUBSET Nat
      BY <2>2
    <3> QED BY <2>1, <3>1, LeastIs
  <2>4. command.path \in Paths
    BY <2>1, <2>2, <2>3
  <2>5. start_argv(command) = <<command.path>>
    BY <1>2 DEF start_argv
  <2>6. start_argv(command) \in Seq(Paths) \ {<<>>}
    BY <2>4, <2>5
  <2> QED BY <1>1, <2>4, <2>6 DEF Args
<1>3. CASE req.argv # <<>>
  <2>1. start_argv(command) = req.argv /\ Args(req.argv)
    BY <1>1, <1>3 DEF start_argv, Args
  <2>2. req.argv[1] \in Paths
    BY <1>1, <1>3 DEF Paths
  <2>3. CASE Len(req.argv[1]) # 1
    <3>1. command.path = req.argv[1]
      BY <1>3, <2>3 DEF command
    <3> QED BY <1>1, <2>1, <2>2, <3>1
  <2>4. CASE Len(req.argv[1]) = 1
    <3>1. command = search_path(req.argv[1], req.path, req.cwd)
      BY <1>3, <2>4 DEF command
    <3> DEFINE c == candidates(req.argv[1], req.path, req.cwd)
               files == {i \in DOMAIN c : is_file(resolve(c[i]))}
               usable == {i \in files : Files[resolve(c[i]).guest].x}
    <3>2. usable # {} /\ command.path = c[Least(usable)]
      BY <3>1 DEF search_path
    <3>3. DOMAIN c = 1 .. Len(req.path) /\ \A i \in DOMAIN c : c[i] \in Paths
      <4>1. DOMAIN c = DOMAIN req.path /\ DOMAIN req.path = 1 .. Len(req.path)
        BY <1>1 DEF candidates
      <4>2. ASSUME NEW d \in Seq(STRING) PROVE d \o req.argv[1] \in Paths
        BY <2>2 DEF Paths
      <4>3. ASSUME NEW i \in DOMAIN req.path
            PROVE  (IF req.path[i] = <<>> THEN req.cwd ELSE absolute(req.path[i], req.cwd)) \in Seq(STRING)
        <5>1. req.path[i] \in Seq(STRING) /\ req.cwd \in Seq(STRING)
          BY <1>1 DEF Paths
        <5> DEFINE d == req.path[i]
        <5>2. req.cwd \o d \in Seq(STRING)
          BY <5>1
        <5>3. absolute(d, req.cwd) \in {d, req.cwd \o d}
          BY DEF absolute, join
        <5> QED BY <5>1, <5>2, <5>3
      <4> QED BY <4>1, <4>2, <4>3 DEF candidates, join
    <3>4. Least(usable) \in usable
      <4>1. usable \in SUBSET Nat
        <5>1. DOMAIN c \in SUBSET Nat
          BY <1>1, <3>3
        <5> HIDE DEF c
        <5> QED BY <5>1
      <4> HIDE DEF usable
      <4> QED BY <3>2, <4>1, LeastIs
    <3> QED BY <1>1, <2>1, <3>2, <3>3, <3>4
  <2> QED BY <2>3, <2>4
<1> QED BY <1>2, <1>3

\* Once a file is no script, nothing comes after it.
LEMMA Settled ==
  ASSUME NEW e, NEW cwd, NEW d \in 0 .. kMaxShebangDepth, ~Script(Execs(e, cwd)[d].file)
  PROVE  Execs(e, cwd)[kMaxShebangDepth] = Execs(e, cwd)[d]
<1> DEFINE at == Execs(e, cwd)
           S == {k \in Nat : at[d + k] = at[d]}
           n == kMaxShebangDepth - d
<1>1. kMaxShebangDepth \in Nat /\ n \in Nat /\ d \in Nat
  BY ExecAssumption
<1>2. 0 \in S
  BY <1>1
<1>3. ASSUME NEW k \in 0 .. n - 1, k \in S PROVE k + 1 \in S
  <2>1. d + (k + 1) \in 1 .. kMaxShebangDepth /\ d + (k + 1) - 1 = d + k
    BY <1>1, <1>3
  <2>2. at[d + (k + 1)] = Onward(at[d + (k + 1) - 1], cwd)
    BY <2>1, ExecsAre
  <2>3. at[d + k] = at[d] /\ Onward(at[d], cwd) = at[d]
    BY <1>3 DEF Onward
  <2>4. at[d + (k + 1)] = at[d]
    BY <2>1, <2>2, <2>3
  <2> QED BY <1>1, <2>4
<1>4. \A k \in 0 .. n : k \in S
  <2> HIDE DEF S, n
  <2> QED BY <1>1, <1>2, <1>3, UpTo
<1>5. n \in S /\ d + n = kMaxShebangDepth
  BY <1>1, <1>4
<1> QED BY <1>5

----------------------------------------------------------------------------
(* The launch against execve(2). *)

\* What the session asks execve(2) for, and what that owes it.
Asked == Asks(absolute(command.path, req.cwd), start_argv(command))
Owed == Execs(Asked, req.cwd)[kMaxShebangDepth]

\* execve(2) would be at file p, with arguments a but for the carriage returns of options.
Faithful(e) == ~e.cr => e.argv = e.taken
Stands(e, p, a) == e.file = p /\ e.taken = a /\ Faithful(e)

\* The loop of plan() is as far as it has looked where execve(2) would be.
RoundInv ==
    sup = "plan" => /\ command.err = "ok" /\ round.depth \in Nat /\ Args(round.argv)
                    /\ round.depth <= kMaxShebangDepth =>
                          Stands(Execs(Asked, req.cwd)[round.depth], round.current, round.argv)

\* The plan the child was cloned with runs what is owed.
PlanInv ==
    pc # "none" => /\ command.err = "ok" /\ Args(Owed.taken) /\ Faithful(Owed)
                   /\ IF loader THEN the_plan.argv = Owed.taken
                      ELSE PlanOf(the_plan, resolve(Owed.file).guest, Owed.taken)

\* So does the request for the loader, on its way and once it was handed over.
RequestOwed(r) == /\ r.program = resolve(Owed.file).guest
                  /\ r.execfn = absolute(command.path, req.cwd)
                  /\ r.name = Last(absolute(command.path, req.cwd))
HandedInv ==
    loader => /\ sup \in {"ready", "seize", "go", "loop"} => RequestOwed(load_request)
              /\ pc \in Executed \ {"execev"} => RequestOwed(given)

\* The arguments on the stack are the plan's until the guest's own loader takes its part.
ArgvInv ==
    /\ pc \in Executed /\ (loader \/ pc # "guest") => argv = the_plan.argv
    /\ pc \in Loading => loader
    /\ pc = "guest" /\ ~loader => prog.file = resolve(Owed.file).guest /\ SameArgv(argv, Owed.taken)

\* What is owed depends on the request alone.
LEMMA OwedSame ==
  ASSUME req' = req
  PROVE  Asked' = Asked /\ Owed' = Owed /\ command' = command /\ loader' = loader
<1>1. command' = command /\ loader' = loader
  BY DEF command, loader
<1>2. Asked' = Asked
  BY <1>1 DEF Asked, start_argv
<1> QED BY <1>1, <1>2 DEF Owed

\* No step changes the request.
LEMMA RequestKept ==
  ASSUME [Next]_vars
  PROVE  req' = req
<1>1. ASSUME NEW i \in DOMAIN Stages, Stage(Stages[i]) \/ StageFails(Stages[i]) PROVE req' = req
  BY <1>1 DEF Stage, StageFails
<1>2. CASE Plan \/ PlanFails \/ Prepare \/ Select
  BY <1>2 DEF Plan, PlanFails, PlanFrom, Planned, Spawn, spawn_with, FailStart, Prepare, Select
<1> QED
  BY <1>1, <1>2 DEF Next, vars, Ready, Seize, SeizeRefused, Go, OnExec, OnExit, Finish, Cancel,
     SupervisorDies, Dies, Exec, LoaderStep, KernelLoads, Over

\* A script whose line has no such carriage return keeps the arguments Linux would give.
LEMMA FaithfulThrough ==
  ASSUME NEW e, NEW cwd, Faithful(e), Line(e.file) \in Seq(Paths)
  PROVE  Faithful(Through(e, cwd))
<1> DEFINE l == Line(e.file)
           t == Through(e, cwd)
<1>1. /\ t.cr = (e.cr \/ EndsInCR(l))
      /\ t.argv = <<First(l)>> \o Others(l) \o <<e.file>> \o Tail(e.argv)
      /\ t.taken = <<First(l)>> \o WithoutCR(l) \o <<e.file>> \o Tail(e.taken)
  BY DEF Through
<1> HIDE DEF l, t
<1>2. ASSUME ~t.cr PROVE t.argv = t.taken
  <2>1. ~e.cr /\ ~EndsInCR(l)
    BY <1>1, <1>2
  <2>2. WithoutCR(l) = Others(l) /\ e.argv = e.taken
    BY <2>1, NoneTaken DEF Faithful, l
  <2> QED BY <1>1, <2>2
<1> QED BY <1>2 DEF Faithful, t

\* A round of plan() that goes on keeps up with execve(2); one that ends in a plan has
\* found what execve(2) would run.
LEMMA OneRound ==
  ASSUME ControlInv, RoundInv, sup = "plan",
         NEW r, r = plan_round(round.depth, round.current, round.argv, req.cwd)
  PROVE  /\ r.plan = NoPlan =>
               /\ Args(r.argv)
               /\ round.depth + 1 <= kMaxShebangDepth =>
                     Stands(Execs(Asked, req.cwd)[round.depth + 1], r.current, r.argv)
         /\ r.plan.err = "ok" =>
               Args(Owed.taken) /\ Faithful(Owed) /\ PlanOf(r.plan, resolve(Owed.file).guest, Owed.taken)
<1> DEFINE at == Execs(Asked, req.cwd)
           e == IF round.depth <= kMaxShebangDepth THEN at[round.depth]
                ELSE Asks(round.current, round.argv)
           t == Through(e, req.cwd)
<1>1. e.file = round.current /\ e.taken = round.argv /\ Faithful(e) /\ Args(e.taken) /\ round.depth \in Nat
  <2>1. \A p, a : Asks(p, a).file = p /\ Asks(p, a).taken = a /\ Asks(p, a).argv = a
    BY DEF Asks
  <2>2. \A p, a : Stands(Asks(p, a), p, a)
    BY <2>1 DEF Stands, Faithful
  <2>3. Args(round.argv) /\ round.depth \in Nat
        /\ (round.depth <= kMaxShebangDepth => Stands(at[round.depth], round.current, round.argv))
    BY DEF RoundInv
  <2>4. Stands(e, round.current, round.argv)
    BY <2>2, <2>3
  <2> HIDE DEF e
  <2> QED BY <2>3, <2>4 DEF Stands
<1>2. round.depth <= kMaxShebangDepth => at[round.depth] = e
  OBVIOUS
<1>3. kMaxShebangDepth \in Nat
  BY ExecAssumption
<1> HIDE DEF e, t
<1>4. r = plan_round(round.depth, e.file, e.taken, req.cwd)
  BY <1>1
<1>5. /\ r.plan = NoPlan => Script(e.file) /\ r.current = t.file /\ r.argv = t.taken
      /\ r.plan.err = "ok" => ~Script(e.file) /\ PlanOf(r.plan, resolve(e.file).guest, e.taken)
      /\ round.depth > kMaxShebangDepth => r.plan.err = "ELOOP"
  BY <1>4, RoundOf DEF t
<1>6. NoPlan.err = ""
  BY DEF NoPlan
<1>7. ASSUME r.plan = NoPlan
      PROVE  Args(r.argv) /\ (round.depth + 1 <= kMaxShebangDepth => Stands(at[round.depth + 1], r.current, r.argv))
  <2>1. Args(r.argv)
    BY <1>1, <1>5, <1>7, ArgsThrough DEF t
  <2>2. ASSUME round.depth + 1 <= kMaxShebangDepth PROVE at[round.depth + 1] = t
    <3>1. round.depth + 1 \in 1 .. kMaxShebangDepth /\ round.depth + 1 - 1 = round.depth
          /\ round.depth <= kMaxShebangDepth
      BY <1>1, <1>3, <2>2
    <3>2. at[round.depth + 1] = Onward(at[round.depth], req.cwd)
      <4>1. \A k \in 1 .. kMaxShebangDepth : at[k] = Onward(at[k - 1], req.cwd)
        BY ExecsAre
      <4> DEFINE n == round.depth + 1
      <4>2. n \in 1 .. kMaxShebangDepth
        BY <3>1
      <4> HIDE DEF at, n
      <4>3. at[n] = Onward(at[n - 1], req.cwd)
        BY <4>1, <4>2
      <4>4. n - 1 = round.depth
        BY <1>1 DEF n
      <4>5. at[n] = Onward(at[round.depth], req.cwd)
        BY <4>3, <4>4
      <4> QED BY <4>5, Zenon DEF n
    <3>3. at[round.depth + 1] = Onward(e, req.cwd)
      BY <1>2, <3>1, <3>2
    <3> QED BY <1>5, <1>7, <3>3 DEF Onward, t
  <2>3. Faithful(t)
    <3>1. Line(e.file) \in Seq(Paths)
      BY <1>5, <1>7, Resolves, ExecAssumption DEF Script, Line
    <3> QED BY <1>1, <3>1, FaithfulThrough DEF t
  <2> QED BY <1>5, <1>7, <2>1, <2>2, <2>3 DEF Stands
<1>8. ASSUME r.plan.err = "ok"
      PROVE  Args(Owed.taken) /\ Faithful(Owed) /\ PlanOf(r.plan, resolve(Owed.file).guest, Owed.taken)
  <2>1. round.depth \in 0 .. kMaxShebangDepth
    BY <1>1, <1>3, <1>5, <1>8
  <2>2. at[round.depth] = e /\ ~Script(at[round.depth].file)
    BY <1>2, <1>5, <1>8, <2>1
  <2>3. Owed = e
    BY <2>1, <2>2, Settled DEF Owed
  <2> QED BY <1>1, <1>5, <1>8, <2>3
<1> QED BY <1>7, <1>8

\* Every step of the loop keeps it where execve(2) would be.
LEMMA RoundStep ==
  ASSUME ControlInv, RoundInv, [Next]_vars
  PROVE  RoundInv'
<1> USE DEF supervisor, child
<1>0. req' = req /\ Asked' = Asked /\ command' = command
  BY RequestKept, OwedSame
<1>1. CASE UNCHANGED <<sup, round>>
  BY <1>0, <1>1 DEF RoundInv
<1>2. CASE sup' # "plan"
  BY <1>2 DEF RoundInv
<1>3. CASE Prepare
  <2>1. CASE sup' = "plan"
    <3>1. command.err = "ok" /\ round' = [depth |-> 0, current |-> absolute(command.path, req.cwd), argv |-> start_argv(command)]
      BY <1>3, <2>1 DEF Prepare, PlanFrom, FailStart
    <3>2. Args(start_argv(command))
      BY <3>1, CommandPath DEF ControlInv
    <3>3. Execs(Asked, req.cwd)[0] = Asked
      BY ExecsAre
    <3>4. round'.depth = 0 /\ Args(round'.argv) /\ Stands(Asked, round'.current, round'.argv)
      BY <3>1, <3>2 DEF Asked, Asks, Stands, Faithful
    <3> QED BY <1>0, <3>1, <3>3, <3>4 DEF RoundInv
  <2> QED BY <1>2, <2>1
<1>4. CASE Plan
  <2>1. CASE sup' = "plan"
    <3> DEFINE r == plan_round(round.depth, round.current, round.argv, req.cwd)
    <3>1. sup = "plan" /\ r.plan = NoPlan /\ round' = [depth |-> round.depth + 1, current |-> r.current, argv |-> r.argv]
      <4> HIDE DEF r
      <4>1. sup = "plan" /\ (IF r.plan = NoPlan THEN PlanFrom(round.depth + 1, r.current, r.argv)
                             ELSE Planned(command, r.plan))
        BY <1>4 DEF Plan, r
      <4> QED BY <2>1, <4>1 DEF PlanFrom, Planned, Spawn, spawn_with, FailStart
    <3>2. /\ Args(r.argv)
          /\ round.depth + 1 <= kMaxShebangDepth =>
                Stands(Execs(Asked, req.cwd)[round.depth + 1], r.current, r.argv)
      BY <3>1, OneRound
    <3> HIDE DEF r
    <3>3. round'.depth = round.depth + 1 /\ round'.current = r.current /\ round'.argv = r.argv
      BY <3>1
    <3> QED BY <1>0, <3>1, <3>2, <3>3 DEF RoundInv
  <2> QED BY <1>2, <2>1
<1>5. ASSUME NEW i \in DOMAIN Stages, Stage(Stages[i]) \/ StageFails(Stages[i])
      PROVE  UNCHANGED <<sup, round>>
  BY <1>5 DEF Stage, StageFails
<1> QED
  BY <1>1, <1>2, <1>3, <1>4, <1>5 DEF Next, vars, PlanFails, Select, FailStart, Ready, Seize,
     SeizeRefused, Go, OnExec, OnExit, Finish, Cancel, SupervisorDies, Dies, Exec, LoaderStep, KernelLoads, Over

\* prepare_and_spawn clones the child with a plan for what is owed.
LEMMA PlanStep ==
  ASSUME ControlInv, RoundInv, PlanInv, [Next]_vars
  PROVE  PlanInv'
<1> USE DEF supervisor, child
<1>0. req' = req /\ Owed' = Owed /\ command' = command /\ loader' = loader
  BY RequestKept, OwedSame
<1>1. CASE the_plan' = the_plan /\ (pc' = pc \/ pc # "none")
  BY <1>0, <1>1 DEF PlanInv
<1>2. CASE Plan
  <2> DEFINE r == plan_round(round.depth, round.current, round.argv, req.cwd)
  <2>1. \/ the_plan' = the_plan /\ pc' = pc
        \/ /\ sup = "plan" /\ r.plan.err = "ok"
           /\ the_plan' = IF loader THEN through_loader(r.plan) ELSE r.plan
    <3> HIDE DEF r
    <3>1. sup = "plan" /\ (IF r.plan = NoPlan THEN PlanFrom(round.depth + 1, r.current, r.argv)
                           ELSE Planned(command, r.plan))
      BY <1>2 DEF Plan, r
    <3> QED BY <3>1 DEF PlanFrom, Planned, Spawn, spawn_with, FailStart
  <2>2. CASE sup = "plan" /\ r.plan.err = "ok" /\ the_plan' = IF loader THEN through_loader(r.plan) ELSE r.plan
    <3>1. command.err = "ok"
      BY <2>2 DEF RoundInv
    <3>2. Args(Owed.taken) /\ Faithful(Owed) /\ PlanOf(r.plan, resolve(Owed.file).guest, Owed.taken)
      BY <2>2, OneRound
    <3> HIDE DEF r
    <3>3. loader => the_plan'.argv = Owed.taken
      BY <2>2, <3>2 DEF through_loader, PlanOf
    <3>4. ~loader => PlanOf(the_plan', resolve(Owed.file).guest, Owed.taken)
      BY <2>2, <3>2
    <3> QED BY <1>0, <3>1, <3>2, <3>3, <3>4 DEF PlanInv
  <2> QED BY <1>1, <2>1, <2>2
<1>3. ASSUME NEW i \in DOMAIN Stages, Stage(Stages[i]) \/ StageFails(Stages[i])
      PROVE  the_plan' = the_plan /\ pc # "none"
  <2>1. pc \in Boot /\ the_plan' = the_plan
    BY <1>3, StageFacts DEF Stage, StageFails
  <2> QED BY <2>1 DEF Boot, Early, Late
<1> QED
  BY <1>1, <1>2, <1>3 DEF Next, vars, PlanFails, Select, Prepare, PlanFrom, FailStart, Ready, Seize,
     SeizeRefused, Go, OnExec, OnExit, Finish, Cancel, SupervisorDies, Dies, Alive, Exec, LoaderStep,
     LoadProgram, LoadInterp, Jump, InLoader, KernelLoads, Over, ControlInv

\* The request reaches the new image as it was made.
LEMMA HandedStep ==
  ASSUME ControlInv, RoundInv, HandedInv, [Next]_vars
  PROVE  HandedInv'
<1> USE DEF supervisor, child
<1> DEFINE Sent == {"ready", "seize", "go", "loop"}
<1>0. req' = req /\ Owed' = Owed /\ command' = command /\ loader' = loader
  BY RequestKept, OwedSame
<1>1. CASE /\ load_request' = load_request /\ given' = given
           /\ sup' \in Sent => sup \in Sent
           /\ pc' \in Executed \ {"execev"} => pc \in Executed \ {"execev"}
  <2>1. load_request' = load_request => (RequestOwed(load_request)' <=> RequestOwed(load_request))
    BY <1>0 DEF RequestOwed
  <2>2. given' = given => (RequestOwed(given)' <=> RequestOwed(given))
    BY <1>0 DEF RequestOwed
  <2> QED BY <1>0, <1>1, <2>1, <2>2 DEF HandedInv
<1>2. CASE Plan
  <2> DEFINE r == plan_round(round.depth, round.current, round.argv, req.cwd)
             q == make_load_request(r.plan, absolute(command.path, req.cwd))
  <2>1. \/ /\ load_request' = load_request /\ given' = given /\ sup' \notin Sent /\ pc' = pc
        \/ /\ sup = "plan" /\ r.plan.err = "ok" /\ pc' = "ready" /\ given' = given
           /\ loader => load_request' = q /\ q # NoRequest
    <3> HIDE DEF r
    <3>1. sup = "plan" /\ (IF r.plan = NoPlan THEN PlanFrom(round.depth + 1, r.current, r.argv)
                           ELSE Planned(command, r.plan))
      BY <1>2 DEF Plan, r
    <3> HIDE DEF q
    <3>2. CASE r.plan = NoPlan
      BY <3>1, <3>2 DEF PlanFrom
    <3>3. ASSUME NEW f, FailStart(f) PROVE load_request' = load_request /\ given' = given /\ sup' \notin Sent /\ pc' = pc
      BY <3>3 DEF FailStart
    <3>4. CASE Planned(command, r.plan)
      <4>1. CASE r.plan.err # "ok"
        BY <3>3, <3>4, <4>1 DEF Planned
      <4>2. CASE r.plan.err = "ok"
        <5> DEFINE x == IF loader THEN q ELSE NoRequest
        <5>1. Spawn(r.plan, x)
          BY <3>4, <4>2 DEF Planned, q
        <5> HIDE DEF x
        <5>2. (\E f : FailStart(f)) \/ (~(loader /\ x = NoRequest) /\ spawn_with(r.plan, x))
          BY <5>1 DEF Spawn
        <5>3. CASE ~(loader /\ x = NoRequest) /\ spawn_with(r.plan, x)
          BY <3>1, <4>2, <5>3 DEF spawn_with, x
        <5> QED BY <3>3, <5>2, <5>3
      <4> QED BY <4>1, <4>2
    <3> QED BY <3>1, <3>2, <3>4
  <2>2. CASE load_request' = load_request /\ given' = given /\ sup' \notin Sent /\ pc' = pc
    BY <1>1, <2>2
  <2>3. CASE /\ sup = "plan" /\ r.plan.err = "ok" /\ pc' = "ready" /\ given' = given
             /\ loader => load_request' = q /\ q # NoRequest
    <3>1. PlanOf(r.plan, resolve(Owed.file).guest, Owed.taken)
      BY <2>3, OneRound
    <3> HIDE DEF r
    <3>2. ASSUME loader PROVE RequestOwed(load_request)'
      <4>1. load_request' = q /\ q # NoRequest
        BY <2>3, <3>2
      <4>2. /\ q.program = r.plan.guest_program /\ q.execfn = absolute(command.path, req.cwd)
            /\ q.name = Last(absolute(command.path, req.cwd))
        BY <4>1 DEF make_load_request
      <4> HIDE DEF q
      <4> QED BY <1>0, <3>1, <4>1, <4>2 DEF RequestOwed, PlanOf
    <3>3. pc' \notin Executed
      BY <2>3 DEF Executed
    <3> QED BY <1>0, <3>2, <3>3 DEF HandedInv
  <2> QED BY <2>1, <2>2, <2>3
<1>3. CASE OnExec
  <2>1. /\ sup = "loop" /\ sup' = "running" /\ pc = "execev"
        /\ \/ pc' = pc
           \/ pc' = "image" /\ given' = load_request
    BY <1>3 DEF OnExec
  <2>2. CASE pc' = "image" /\ given' = load_request
    <3>1. loader => RequestOwed(load_request)
      BY <2>1 DEF HandedInv
    <3>2. RequestOwed(load_request) => RequestOwed(given)'
      BY <1>0, <2>2 DEF RequestOwed
    <3> QED BY <1>0, <2>1, <3>1, <3>2 DEF HandedInv
  <2> QED BY <2>1, <2>2 DEF HandedInv
<1>4. CASE Select \/ Prepare \/ PlanFails \/ Ready \/ Seize \/ Go \/ Finish \/ Cancel \/ SupervisorDies
  BY <1>1, <1>4 DEF Select, Prepare, PlanFails, PlanFrom, FailStart, Ready, Seize, Go, Finish, Cancel,
     SupervisorDies
<1>5. CASE SeizeRefused \/ OnExit \/ Dies
  BY <1>1, <1>5 DEF SeizeRefused, seize_refused, OnExit, Dies, Executed
<1>6. CASE Exec
  BY <1>1, <1>6 DEF Exec, Executed
<1>7. CASE LoaderStep \/ KernelLoads
  BY <1>1, <1>7 DEF LoaderStep, LoadProgram, LoadInterp, Jump, InLoader, LoaderDies, KernelLoads,
     Executed
<1>8. ASSUME NEW i \in DOMAIN Stages, Stage(Stages[i]) PROVE HandedInv'
  <2>1. pc' \in Boot
    BY <1>8, StageSteps, AfterIs DEF Boot, Early, Late
  <2>2. pc' \notin Executed
    BY <2>1 DEF Boot, Early, Late, Executed
  <2> QED BY <1>1, <1>8, <2>2 DEF Stage
<1>9. ASSUME NEW i \in DOMAIN Stages, StageFails(Stages[i]) PROVE HandedInv'
  BY <1>1, <1>9 DEF StageFails, Executed
<1>10. CASE UNCHANGED vars \/ Over
  BY <1>1, <1>10 DEF Over, vars
<1> QED BY <1>2, <1>3, <1>4, <1>5, <1>6, <1>7, <1>8, <1>9, <1>10 DEF Next

\* The arguments reach the guest as they are owed.
LEMMA ArgvStep ==
  ASSUME ControlInv, PlanInv, ArgvInv, [Next]_vars
  PROVE  ArgvInv'
<1> USE DEF supervisor, child
<1>0. req' = req /\ Owed' = Owed /\ loader' = loader
  BY RequestKept, OwedSame
<1>1. CASE pc' \notin Executed
  BY <1>1 DEF ArgvInv, Executed, Loading
<1>2. CASE UNCHANGED <<argv, the_plan, prog, pc>>
  BY <1>0, <1>2 DEF ArgvInv, SameArgv
<1>3. CASE Plan
  <2>1. UNCHANGED <<argv, the_plan, prog, pc>> \/ pc' = "ready"
    BY <1>3 DEF Plan, PlanFrom, Planned, Spawn, spawn_with, FailStart
  <2> QED BY <1>1, <1>2, <2>1 DEF Executed
<1>4. CASE OnExec
  <2>1. UNCHANGED <<argv, the_plan>> /\ pc = "execev" /\ pc' \in {"execev", "image"}
    BY <1>4 DEF OnExec
  <2> QED BY <2>1 DEF ArgvInv, Executed, Loading
<1>5. CASE Exec
  <2>1. pc' = "execev" /\ argv' = the_plan.argv /\ the_plan' = the_plan
    BY <1>5 DEF Exec
  <2> QED BY <2>1 DEF ArgvInv, Loading
<1>6. CASE LoaderStep
  <2>1. /\ UNCHANGED <<argv, the_plan>> /\ pc \in Executed /\ pc # "guest"
        /\ pc' = "guest" => pc = "loaded"
        /\ pc' \in Loading => pc \in Loading \/ loader
    BY <1>6 DEF LoaderStep, LoadProgram, LoadInterp, MapSegment, Jump, InLoader, LoaderDies, Executed,
       Loading
  <2>2. pc = "loaded" => loader
    BY DEF ArgvInv, Loading
  <2> QED BY <1>0, <2>1, <2>2 DEF ArgvInv
<1>7. CASE KernelLoads
  <2> DEFINE g == resolve(Owed.file).guest
             f == IF the_plan.via_loader THEN LdSo(argv).file ELSE the_plan.host_exec
  <2>1. pc = "image" /\ ~loader /\ pc' = "guest" /\ the_plan' = the_plan /\ prog' = [NoImage EXCEPT !.file = f]
        /\ argv' = IF the_plan.via_loader THEN LdSo(argv).argv ELSE argv
    BY <1>7 DEF KernelLoads
  <2>2. argv = the_plan.argv /\ Args(Owed.taken) /\ PlanOf(the_plan, g, Owed.taken)
    BY <2>1 DEF ArgvInv, PlanInv, Executed
  <2>3. prog'.file = f
    <3> HIDE DEF f
    <3> QED BY <2>1 DEF NoImage
  <2>4. CASE the_plan.via_loader
    <3>1. /\ LdSo(the_plan.argv).file = g
          /\ the_plan.loader_argv0 => LdSo(the_plan.argv).argv = Owed.taken
          /\ ~the_plan.loader_argv0 => Tail(LdSo(the_plan.argv).argv) = Tail(Owed.taken)
      BY <2>2, <2>4, LdSoRuns
    <3> QED BY <1>0, <2>1, <2>2, <2>3, <2>4, <3>1 DEF ArgvInv, SameArgv, Loading
  <2>5. CASE ~the_plan.via_loader
    <3>1. f = g /\ argv' = Owed.taken
      BY <2>1, <2>2, <2>5 DEF PlanOf
    <3> QED BY <1>0, <2>1, <2>3, <2>5, <3>1 DEF ArgvInv, SameArgv, Loading
  <2> QED BY <2>4, <2>5
<1>8. ASSUME NEW i \in DOMAIN Stages, Stage(Stages[i]) PROVE ArgvInv'
  <2>1. pc' \in Boot
    BY <1>8, StageSteps, AfterIs DEF Boot, Early, Late
  <2>2. pc' \notin Executed
    BY <2>1 DEF Boot, Early, Late, Executed
  <2> QED BY <1>1, <2>2
<1>9. ASSUME NEW i \in DOMAIN Stages, StageFails(Stages[i]) PROVE ArgvInv'
  BY <1>1, <1>9 DEF StageFails, Executed
<1>10. CASE SeizeRefused \/ OnExit \/ Dies
  BY <1>1, <1>10 DEF SeizeRefused, seize_refused, OnExit, Dies, Executed
<1>11. CASE Select \/ Prepare \/ PlanFails \/ Ready \/ Seize \/ Go \/ Finish \/ Cancel \/ SupervisorDies
  BY <1>2, <1>11 DEF Select, Prepare, PlanFails, PlanFrom, FailStart, Ready, Seize, Go, Finish, Cancel,
     SupervisorDies
<1>12. CASE UNCHANGED vars \/ Over
  BY <1>2, <1>12 DEF Over, vars
<1> QED BY <1>3, <1>4, <1>5, <1>6, <1>7, <1>8, <1>9, <1>10, <1>11, <1>12 DEF Next

----------------------------------------------------------------------------
Inv == /\ ControlInv /\ MessageInv /\ TracedInv /\ ConfinedInv /\ HostInv /\ RequestInv /\ FileInv
       /\ RoundInv /\ PlanInv /\ HandedInv /\ ArgvInv

\* The invariant holds before the launch.
LEMMA InitInv == Init => Inv
<1> SUFFICES ASSUME Init PROVE Inv
  OBVIOUS
<1>1. ControlInv
  BY DEF Init, ControlInv, Executed
<1>5. MessageInv
  BY DEF Init, MessageInv, Pending
<1>6. TracedInv
  <2>1. sup = "select" /\ go = 0 /\ pc = "none"
    BY DEF Init
  <2> QED BY <2>1 DEF TracedInv, Late, Executed
<1>2. ConfinedInv /\ HostInv
  BY DEF Init, ConfinedInv, HostInv, Early, Late, Boot, Executed
<1>3. RequestInv
  BY DEF Init, RequestInv, RequestFits, NoRequest
<1>4. FileInv
  BY DEF Init, FileInv, InImage, Loading
<1>7. RoundInv /\ PlanInv /\ HandedInv /\ ArgvInv
  BY DEF Init, RoundInv, PlanInv, HandedInv, ArgvInv, Executed, Loading
<1> QED BY <1>1, <1>2, <1>3, <1>4, <1>5, <1>6, <1>7 DEF Inv

\* Every step keeps it.
LEMMA NextInv == Inv /\ [Next]_vars => Inv'
BY ControlStep, MessageStep, TracedStep, ConfinedStep, HostStep, RequestStep, FileStep, RoundStep,
   PlanStep, HandedStep, ArgvStep DEF Inv

\* The inductive invariant of the launch.
THEOREM Invariant == Spec => []Inv
BY InitInv, NextInv, PTL DEF Spec

\* What run() and prepare_and_spawn report is what happened, wherever either side fails,
\* is killed or is cancelled: a start that succeeded has executed its image, one that
\* failed leaves no process and names the step at which the child gave up.
THEOREM OutcomesAreReported == Spec => []OutcomeReported
<1>1. Inv => OutcomeReported
  <2> SUFFICES ASSUME Inv PROVE OutcomeReported
    OBVIOUS
  <2>1. CASE sup \in {"running", "done"}
    BY <2>1 DEF Inv, ControlInv, MessageInv, OutcomeReported, Executed
  <2>2. CASE start = Pending
    BY <2>2 DEF OutcomeReported, Pending
  <2> QED BY <2>1, <2>2 DEF Inv, ControlInv
<1> QED BY <1>1, Invariant, PTL

\* Whatever the guest's first instruction is, child_main has put its descriptors in place
\* and closed the others, it is traced, without new privileges and filtered as asked; and
\* no app executes a program of the guest itself.
THEOREM GuestsAreConfined == Spec => [](pc = "guest" => StartsConfined)
<1>1. Inv /\ pc = "guest" => StartsConfined
  <2> SUFFICES ASSUME Inv, pc = "guest" PROVE StartsConfined
    OBVIOUS
  <2>1. req \in Requests /\ traced /\ "no_new_privs" \in secure /\ fds = StartFds
        /\ ("filter" \in secure <=> use_seccomp) /\ create_instance(req.host)
    BY DEF Inv, ControlInv, TracedInv, ConfinedInv, HostInv, Executed
  <2>2. /\ req.host \in Hosts /\ req.seccomp \in {"on", "off", "auto"}
        /\ req.stdio \in [1 .. 3 -> -1 .. HIGH_FD_BASE - 1]
    BY <2>1, LaunchAssumption
  <2>3. ASSUME NEW i \in 0 .. 2
        PROVE  fds[i] = ParentFds[IF req.stdio[i + 1] < 0 THEN i ELSE req.stdio[i + 1]]
    <3>1. req.stdio[i + 1] \in -1 .. HIGH_FD_BASE - 1 /\ i \in Fds /\ i <= 2
      BY <2>2 DEF Fds, HIGH_FD_BASE
    <3>2. fds[i] = stdio(ParentFds, req.stdio)[i]
      BY <2>1, <3>1 DEF StartFds
    <3>3. i + HIGH_FD_BASE \in Fds /\ i + HIGH_FD_BASE - HIGH_FD_BASE + 1 = i + 1
      BY DEF Fds, HIGH_FD_BASE
    <3> QED BY <3>1, <3>2, <3>3 DEF stdio, HIGH_FD_BASE
  <2>4. \A fd \in Fds : fd > 2 => fds[fd] = Closed
    BY <2>1 DEF StartFds, Fds, HIGH_FD_BASE
  <2>5. ("filter" \in secure) = (req.seccomp # "off" /\ req.host.seccomp)
    BY <2>1, <2>2 DEF use_seccomp, create_instance, compute, Hosts
  <2>6. req.host.app => prog.file # the_plan.host_exec
    <3> SUFFICES ASSUME req.host.app PROVE prog.file # the_plan.host_exec
      OBVIOUS
    <3>1. loader
      BY <2>1, <2>2 DEF create_instance, compute, loader, Hosts
    <3>2. prog.file \in DOMAIN Files
      BY <3>1 DEF Inv, FileInv, InImage
    <3>3. the_plan.host_exec = LoaderFile
      BY <3>1 DEF Inv, HostInv
    <3>4. Head(prog.file) = "/"
      BY <3>2, ExecAssumption
    <3> QED BY <3>3, <3>4 DEF LoaderFile
  <2> QED BY <2>1, <2>3, <2>4, <2>5, <2>6 DEF StartsConfined
<1> QED BY <1>1, Invariant, PTL

\* The guest's first instruction belongs to the program execve(2) would have run, with the
\* arguments it would have been given, and in the confinement asked for: for every request,
\* every chain of #! lines up to the limit and every set of links, with the userland loader
\* and without, whatever fails or is killed on the way.
THEOREM GuestsStartAsExecve == Spec => []StartsAsExecve
<1>1. Inv /\ pc = "guest" => RunsCommand(command)
  <2> SUFFICES ASSUME Inv, pc = "guest" PROVE RunsCommand(command)
    OBVIOUS
  <2>1. command.err = "ok" /\ req \in Requests
    BY DEF Inv, ControlInv, PlanInv
  <2>2. Owed = Execve(absolute(command.path, req.cwd), start_argv(command), req.cwd)
    BY DEF Owed, Asked, Execve
  <2>3. prog.file = resolve(Owed.file).guest /\ SameArgv(argv, Owed.taken) /\ Faithful(Owed)
    <3>1. CASE loader
      BY <3>1 DEF Inv, FileInv, InImage, HandedInv, RequestOwed, PlanInv, ArgvInv, SameArgv, Executed
    <3>2. CASE ~loader
      BY <3>2 DEF Inv, ArgvInv, PlanInv
    <3> QED BY <3>1, <3>2
  <2>4. loader => /\ given.execfn = absolute(command.path, req.cwd)
                  /\ given.name = Last(command.path)
    <3>1. Last(absolute(command.path, req.cwd)) = Last(command.path)
      BY <2>1, CommandPath, LastOfAbsolute
    <3> QED BY <3>1 DEF Inv, HandedInv, RequestOwed, Executed
  <2> QED BY <2>2, <2>3, <2>4 DEF RunsCommand, Faithful
<1>2. (pc = "guest" => StartsConfined) /\ Inv => StartsAsExecve
  BY <1>1 DEF StartsAsExecve
<1> QED BY <1>2, Invariant, GuestsAreConfined, PTL

\* vhdp_loader_main jumps only when both images are in memory as they were linked, for
\* every page size and every place they may be given, with copied segments, .bss inside a
\* page or outside, and with the program headers found either way.  Nothing is assumed of
\* the files: the bytes a later segment on the same page replaces are those the property
\* excepts, and what is mapped over them from the same place of the file is not.
THEOREM ImagesAreAsLinked == Spec => []ImageAsLinked
<1>1. Inv /\ ImageInv => ImageAsLinked
  <2> SUFFICES ASSUME Inv, ImageInv, pc = "guest", loader
               PROVE  /\ Linked(mem, prog) /\ PhdrsShown(prog)
                      /\ dl # NoImage => Linked(mem, dl)
                      /\ prog.file = given.program
                      /\ (dl = NoImage) = (interps(Files[prog.file]) = <<>>)
    BY DEF ImageAsLinked
  <2>1. /\ Placed(prog) /\ prog.file = given.program
        /\ Holds(mem, prog, Len(loads(prog.file))) /\ PhdrPlaced(prog, Len(loads(prog.file)))
    BY DEF ImageInv, ProgInv, InImage, ProgDone
  <2>2. /\ IF given.interp = <<>> THEN dl = NoImage /\ interps(Files[prog.file]) = <<>>
           ELSE Placed(dl) /\ dl.file = given.interp /\ Holds(mem, dl, Len(loads(dl.file)))
        /\ prog.phdr # 0
    BY DEF ImageInv, InterpInv
  <2>3. ASSUME NEW img, Placed(img), Holds(mem, img, Len(loads(img.file))) PROVE Linked(mem, img)
    BY <2>3, SegmentType DEF Placed, Holds, Linked, SegmentAt, Bias
  <2>4. PhdrsShown(prog)
    <3> DEFINE f == prog.file
               x == prog.phdr - Bias(prog)
    <3>1. Files[f].phoff \in Nat /\ Bias(prog) \in Int
      BY <2>1, ImagesAssumption, BiasFacts DEF Placed, Loadable
    <3>2. CASE named_phdrs(f) = <<>>
      <4>1. PICK i \in 1 .. Len(loads(f)) :
               /\ holds_phdrs(f, loads(f)[i])
               /\ prog.phdr = Bias(prog) + loads(f)[i].va + (Files[f].phoff - loads(f)[i].off)
        BY <2>1, <2>2, <3>2 DEF PhdrPlaced
      <4>2. /\ i \in DOMAIN loads(f) /\ loads(f)[i].off \in Nat /\ loads(f)[i].filesz \in Nat
            /\ loads(f)[i].va \in Nat
        BY <2>1, SegmentType DEF Placed
      <4>3. Files[f].phoff - loads(f)[i].off \in 0 .. loads(f)[i].filesz - 1
        BY <3>1, <4>1, <4>2 DEF holds_phdrs
      <4>4. x = loads(f)[i].va + (Files[f].phoff - loads(f)[i].off)
        BY <3>1, <4>1, <4>2
      <4>5. Puts(f, i, x)
        BY <4>3, <4>4 DEF Puts
      <4> QED BY <4>2, <4>5 DEF PhdrsShown, Bias
    <3>3. CASE named_phdrs(f) # <<>>
      <4> DEFINE at == Last(named_phdrs(f)).va
      <4>1. at \in Int /\ prog.phdr = Bias(prog) + at
        BY <2>1, <3>3, ImagesAssumption DEF Placed, Loadable, PhdrPlaced
      <4> HIDE DEF at
      <4>2. x = at
        BY <3>1, <4>1
      <4> QED BY <3>3, <4>2 DEF PhdrsShown, Bias, at
    <3> QED BY <3>2, <3>3
  <2>5. ASSUME given.interp # <<>> PROVE dl # NoImage /\ interps(Files[prog.file]) # <<>>
    <3>1. dl.file # <<>>
      BY <2>2, <2>5
    <3>2. interps(Files[prog.file]) # <<>>
      BY <2>1, <2>5 DEF Inv, RequestInv, RequestFits
    <3> QED BY <3>1, <3>2 DEF NoImage
  <2> QED BY <2>1, <2>2, <2>3, <2>4, <2>5
<1>2. Init => ImageInv
  BY DEF Init, ImageInv, ProgInv, InterpInv, InImage, Loading
<1>3. Inv /\ ImageInv /\ [Next]_vars => ImageInv'
  BY ImageStep DEF Inv
<1> QED BY <1>1, <1>2, <1>3, Invariant, PTL DEF Spec
=============================================================================
