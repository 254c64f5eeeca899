------------------------------- MODULE Paging -------------------------------
(***************************************************************************)
(* Address spaces and page frames: arch/i686/{paging,mmhelper,pfalloc}.c.  *)
(*                                                                         *)
(* An address space (struct mm_struct) has one page directory, the array   *)
(* page_tables of the virtual addresses of its page tables, and in the     *)
(* directory their physical addresses.  The kernel works with page_tables, *)
(* the processor with the directory.  Directories and tables are pages of  *)
(* the early heap.  Pages and frames are numbers here (address / PageSize) *)
(* except in the arguments of mm_map; flags are left out.                  *)
(*                                                                         *)
(* asked and refs are the callers' side: the mappings they asked for, and  *)
(* the references to frames that they hold.  setup_paging runs at boot;    *)
(* nothing in the tree calls the other functions yet.  kmalloc is reduced  *)
(* to handing out unused pages; the small structures are left out.         *)
(*                                                                         *)
(* status is "wild" after an access outside of an array or through NULL or *)
(* an uninitialised pointer; nothing is modelled from there on.            *)
(***************************************************************************)
EXTENDS Naturals, FiniteSets

CONSTANTS Entries,     \* of a page table, of the directory and of page_tables
          PageSize,
          BssEnd,      \* &_bss_end, where the kernel's memory ends
          HeapPages,   \* free pages of the early heap when paging is set up
          Spaces,      \* addresses of mm_structs
          Default,     \* mm_default
          NULL,
          Garbage,     \* an uninitialised pointer, or what is read through one
          MapCalls,    \* arguments of callers of mm_map: addresses and size
          Frames,      \* __ram_size / PAGESIZE
          RefMax,      \* the values of ref_count are 0 .. RefMax - 1
          MaxShare,    \* bound on the references to one frame
          Zeroed       \* whether kmalloc happens to return zeroed memory

PageCount(n) == n \div PageSize + (IF n % PageSize = 0 THEN 0 ELSE 1)
KernelPages == PageCount(BssEnd)

Slots == 0 .. Entries - 1
Pages == 0 .. Entries * Entries - 1

\* The pages that a call of mm_map is about.
VirtPages(c) == LET first == c.virt \div PageSize
                IN  first .. first + PageCount(c.n) - 1

\* The early heap lies below 512K, which one page table maps and the kernel
\* covers; callers leave the kernel's own pages alone.
ASSUME PagingAssumption ==
    /\ Entries \in Nat \ {0} /\ PageSize \in Nat \ {0}
    /\ BssEnd \in Nat /\ KernelPages <= Entries * Entries
    /\ HeapPages \subseteq Slots /\ IsFiniteSet(HeapPages)
    /\ \A h \in HeapPages : h < KernelPages
    /\ NULL \notin Nat /\ Garbage \notin Nat /\ NULL # Garbage
    /\ Default \in Spaces /\ NULL \notin Spaces
    /\ MapCalls \subseteq [virt : Nat, phys : Nat, n : Nat]
    /\ \A c \in MapCalls : c.virt >= KernelPages * PageSize
    /\ Frames \in Nat /\ RefMax \in Nat \ {0} /\ MaxShare \in Nat \ {0}
    /\ Zeroed \in BOOLEAN

VARIABLES mm,         \* address spaces made so far
          pt,         \* the entries of every page table, by its address
          used,       \* pages of the heap that kmalloc has handed out
          current_mm,
          pframes,    \* the ref_count of every frame
          status,     \* "ok", "panic" or "wild"
          asked,      \* callers: the frame every page was last mapped to
          refs        \* callers: the references they hold to every frame

vars == <<mm, pt, used, current_mm, pframes, status, asked, refs>>

Init ==
    /\ mm = [s \in {} |-> NULL]
    /\ pt = [t \in {} |-> NULL]
    /\ used = {}
    /\ current_mm = NULL
    /\ pframes = [f \in 0 .. Frames - 1 |-> 0]
    /\ status = "ok"
    /\ asked = [s \in {} |-> NULL]
    /\ refs = [f \in 0 .. Frames - 1 |-> 0]

-----------------------------------------------------------------------------
(* mmhelper.c                                                              *)

\* mm_physical in the address space s, NULL before the first one is applied.
\* It splits an address as without PAE: 10 bits for the entry, not 9.
mm_physical(s, page) ==
    IF s = NULL THEN page
    ELSE LET table == page \div (2 * Entries)
             entry == page % (2 * Entries)
         IN  IF table \in Slots /\ entry \in Slots /\ mm[s].tables[table] \in DOMAIN pt
             THEN IF pt[mm[s].tables[table]][entry] = NULL THEN 0
                  ELSE pt[mm[s].tables[table]][entry]
             ELSE Garbage

\* Mutant: the processor is given the table of the next entry.
get_pt_entry_shifted(m, at, cur) ==
    [page_dir |-> m.page_dir, ptr_table |-> m.ptr_table,
     dir |-> [d \in Slots |-> IF d + 1 \in DOMAIN at THEN mm_physical(cur, at[d + 1]) ELSE m.dir[d]],
     tables |-> [d \in Slots |-> IF d \in DOMAIN at THEN at[d] ELSE m.tables[d]]]

\* get_pt_entry links new tables, at[d] for the entry d, into both arrays.
get_pt_entry(m, at, cur) ==
    [page_dir |-> m.page_dir, ptr_table |-> m.ptr_table,
     dir |-> [d \in Slots |-> IF d \in DOMAIN at THEN mm_physical(cur, at[d]) ELSE m.dir[d]],
     tables |-> [d \in Slots |-> IF d \in DOMAIN at THEN at[d] ELSE m.tables[d]]]

\* Mutant: new tables are not cleared.
cleared_not(at) ==
    [t \in DOMAIN pt \cup {at[d] : d \in DOMAIN at} |->
        IF t \in DOMAIN pt THEN pt[t] ELSE [e \in Slots |-> Garbage]]

\* The tables in memory with the new ones, which are cleared.
cleared(at) ==
    [t \in DOMAIN pt \cup {at[d] : d \in DOMAIN at} |->
        IF t \in DOMAIN pt THEN pt[t] ELSE [e \in Slots |-> NULL]]

\* Mutant: pd_offset stays the same behind the last entry of a table.
map_pages_one_table(tables, m, P, first, frame) ==
    [t \in DOMAIN tables |-> [e \in Slots |->
        LET written == {p \in P : m.tables[first \div Entries] = t /\ p % Entries = e}
        IN  IF written = {} THEN tables[t][e]
            ELSE frame + ((CHOOSE p \in written : TRUE) - first)]]

\* map_pages: consecutive frames for the pages P, from first on.
map_pages(tables, m, P, first, frame) ==
    [t \in DOMAIN tables |-> [e \in Slots |->
        LET written == {p \in P : m.tables[p \div Entries] = t /\ p % Entries = e}
        IN  IF written = {} THEN tables[t][e]
            ELSE frame + ((CHOOSE p \in written : TRUE) - first)]]

\* Directory entries of the pages P that still need a page table.
Missing(m, P) == {d \in {p \div Entries : p \in P} : m.tables[d] = NULL}

\* Where kmalloc may put page tables for the directory entries D.
Places(D, free) == {at \in [D -> free] : \A d, e \in D : at[d] = at[e] => d = e}

\* The pages lie under the one directory, no table is an uninitialised
\* pointer, and there is memory for the tables.
map_fits(m, P, free) ==
    /\ P \subseteq Pages
    /\ \A p \in P : m.tables[p \div Entries] # Garbage
    /\ Cardinality(Missing(m, P)) <= Cardinality(free)

Aligned(c) == c.virt % PageSize = 0 /\ c.phys % PageSize = 0

\* The mappings of a space after the call c.
Remembered(a, c) ==
    [p \in Pages |-> IF p \in VirtPages(c)
                     THEN c.phys \div PageSize + (p - c.virt \div PageSize) ELSE a[p]]

Wild ==
    /\ status' = "wild"
    /\ UNCHANGED <<mm, pt, used, current_mm, pframes, asked, refs>>

-----------------------------------------------------------------------------
(* Setup and address spaces                                                *)

\* mk_mmap: a space with one cleared directory, at the page d.  Its entry in
\* ptr_table is the address of the directory as the kernel sees it.
new_space(d, tables) ==
    [page_dir |-> d, ptr_table |-> d, dir |-> [i \in Slots |-> NULL], tables |-> tables]

\* page_tables is never cleared.
page_tables == [Slots -> IF Zeroed THEN {NULL} ELSE {NULL, Garbage}]

Nothing == [p \in Pages |-> NULL]

\* setup_paging without PAE.
setup_paging_panics ==
    /\ status = "ok" /\ current_mm = NULL
    /\ status' = "panic"
    /\ UNCHANGED <<mm, pt, used, current_mm, pframes, asked, refs>>

\* setup_paging: frames, the first space, the kernel's pages, CR3.
setup_paging ==
    /\ status = "ok" /\ current_mm = NULL
    /\ \E d \in HeapPages, tables \in page_tables :
         LET call == [virt |-> 0, phys |-> 0, n |-> BssEnd]
             P    == VirtPages(call)
             new  == new_space(d, tables)
             free == HeapPages \ {d}
         IN \/ ~map_fits(new, P, free) /\ Wild
            \/ /\ map_fits(new, P, free)
               /\ \E at \in Places(Missing(new, P), free),
                     counts \in [0 .. Frames - 1 -> IF Zeroed THEN {0} ELSE 0 .. RefMax - 1] :
                    LET m == get_pt_entry(new, at, current_mm)
                    IN  /\ mm' = [s \in {Default} |-> m]
                        /\ pt' = map_pages(cleared(at), m, P, 0, 0)
                        /\ used' = {d} \cup {at[i] : i \in DOMAIN at}
                        /\ pframes' = counts
               /\ current_mm' = Default
               /\ asked' = [s \in {Default} |-> Remembered(Nothing, call)]
               /\ UNCHANGED <<status, refs>>

\* mk_mmap.
mk_mmap(s) ==
    /\ status = "ok" /\ current_mm # NULL /\ s \notin DOMAIN mm
    /\ \E d \in HeapPages \ used, tables \in page_tables :
         /\ mm' = [x \in DOMAIN mm \cup {s} |-> IF x = s THEN new_space(d, tables) ELSE mm[x]]
         /\ used' = used \cup {d}
    /\ asked' = [x \in DOMAIN asked \cup {s} |-> IF x = s THEN Nothing ELSE asked[x]]
    /\ UNCHANGED <<pt, current_mm, pframes, status, refs>>

\* mk_mmap without memory for the directory clears memory through NULL.
mk_mmap_strays(s) ==
    /\ status = "ok" /\ current_mm # NULL /\ s \notin DOMAIN mm
    /\ HeapPages \subseteq used
    /\ Wild

\* mm_map that says nothing or only prints.
mm_map_ignored(s, c) ==
    /\ status = "ok" /\ s \in DOMAIN mm
    /\ ~Aligned(c) \/ c.n = 0
    /\ UNCHANGED vars

mm_map(s, c) ==
    /\ status = "ok" /\ s \in DOMAIN mm
    /\ Aligned(c) /\ c.n > 0
    /\ LET P == VirtPages(c) IN
         /\ map_fits(mm[s], P, HeapPages \ used)
         /\ \E at \in Places(Missing(mm[s], P), HeapPages \ used) :
              LET m == get_pt_entry(mm[s], at, current_mm)
              IN  /\ mm' = [mm EXCEPT ![s] = m]
                  /\ pt' = map_pages(cleared(at), m, P, c.virt \div PageSize, c.phys \div PageSize)
                  /\ used' = used \cup {at[d] : d \in DOMAIN at}
    /\ asked' = [asked EXCEPT ![s] = Remembered(@, c)]
    /\ UNCHANGED <<current_mm, pframes, status, refs>>

mm_map_strays(s, c) ==
    /\ status = "ok" /\ s \in DOMAIN mm
    /\ Aligned(c) /\ c.n > 0
    /\ ~map_fits(mm[s], VirtPages(c), HeapPages \ used)
    /\ Wild

-----------------------------------------------------------------------------
(* pfalloc.c, once setup_pfalloc has run                                   *)

\* Mutant: the scan stops at a frame with a single reference.
free_frames_single(counts) == {f \in DOMAIN counts : counts[f] <= 1}
\* The frames at which the scan of get_free_page may stop.
free_frames(counts) == {f \in DOMAIN counts : counts[f] = 0}

\* ref_count is eight bits wide.
counted(counts, f) == [counts EXCEPT ![f] = (@ + 1) % RefMax]

get_free_page ==
    /\ status = "ok" /\ current_mm # NULL
    /\ \E f \in free_frames(pframes) :
         /\ \A g \in free_frames(pframes) : f <= g
         /\ pframes' = counted(pframes, f)
         /\ refs' = [refs EXCEPT ![f] = @ + 1]
    /\ UNCHANGED <<mm, pt, used, current_mm, status, asked>>

\* The scan runs past the array.
get_free_page_strays ==
    /\ status = "ok" /\ current_mm # NULL
    /\ free_frames(pframes) = {}
    /\ Wild

\* alloc_page at an address: another reference to that frame, and NULL for an
\* address inside of a page.
alloc_page(address) ==
    /\ status = "ok" /\ current_mm # NULL
    /\ LET f == address \div PageSize IN
         \/ /\ address % PageSize = 0
            /\ refs[f] < MaxShare
            /\ pframes' = counted(pframes, f)
            /\ refs' = [refs EXCEPT ![f] = @ + 1]
         \/ /\ address % PageSize # 0
            /\ UNCHANGED <<pframes, refs>>
    /\ UNCHANGED <<mm, pt, used, current_mm, status, asked>>

\* Mutant: the count is cleared.
dropped_all(counts, f) == [counts EXCEPT ![f] = 0]
\* release_page leaves a count of 0 alone.
dropped(counts, f) == [counts EXCEPT ![f] = IF @ # 0 THEN @ - 1 ELSE 0]

\* release_page(id): callers release what they hold.
release_page(f) ==
    /\ status = "ok" /\ refs[f] > 0
    /\ pframes' = dropped(pframes, f)
    /\ refs' = [refs EXCEPT ![f] = @ - 1]
    /\ UNCHANGED <<mm, pt, used, current_mm, status, asked>>

-----------------------------------------------------------------------------
Next ==
    \/ setup_paging \/ setup_paging_panics
    \/ \E s \in Spaces : mk_mmap(s) \/ mk_mmap_strays(s)
    \/ \E s \in Spaces, c \in MapCalls :
         mm_map(s, c) \/ mm_map_ignored(s, c) \/ mm_map_strays(s, c)
    \/ get_free_page \/ get_free_page_strays
    \/ \E a \in 0 .. Frames * PageSize - 1 : alloc_page(a)
    \/ \E f \in 0 .. Frames - 1 : release_page(f)

Spec == Init /\ [][Next]_vars

-----------------------------------------------------------------------------
(* Properties                                                              *)

\* Spaces, tables and counts have their types, and a page that is the
\* directory of one space is no other directory and no page table.
TypeOK ==
    /\ DOMAIN mm \subseteq Spaces /\ DOMAIN asked = DOMAIN mm
    /\ used \subseteq HeapPages /\ DOMAIN pt \subseteq used
    /\ \A s \in DOMAIN mm :
         /\ mm[s].page_dir \in used \ DOMAIN pt
         /\ \A d \in Slots : mm[s].tables[d] \in DOMAIN pt \cup {NULL, Garbage}
         /\ \A r \in DOMAIN mm : mm[r].page_dir = mm[s].page_dir => r = s
    /\ \A t \in DOMAIN pt, e \in Slots : pt[t][e] \in Nat \cup {NULL}
    /\ current_mm \in {NULL} \cup DOMAIN mm
    /\ pframes \in [0 .. Frames - 1 -> 0 .. RefMax - 1]
    /\ refs \in [0 .. Frames - 1 -> 0 .. MaxShare]
    /\ status \in {"ok", "panic", "wild"}

\* The page of kernel memory behind a physical address.
Behind(frame) == {h \in HeapPages : asked[current_mm][h] = frame}

\* Where the processor finds a page: through ptr_table, the directory and a
\* page table, by physical addresses alone.
Walk(s, p) ==
    IF \E h \in Behind(mm[s].ptr_table) : h = mm[s].page_dir
    THEN LET tables == Behind(mm[s].dir[p \div Entries]) \cap DOMAIN pt
         IN  IF tables = {} THEN NULL ELSE pt[CHOOSE t \in tables : TRUE][p % Entries]
    ELSE NULL

\* get_pt_entry writes a table's address twice, for the kernel and for the
\* processor, mm_map crosses from one table to the next, and calls for several
\* spaces alternate.  The processor finds every page of every space where the
\* last call of mm_map about that page put it, and nothing else.
HardwareAgrees ==
    current_mm # NULL => \A s \in DOMAIN mm, p \in Pages : Walk(s, p) = asked[s][p]

\* Comment at arch/i686/paging.c:78: the kernel is mapped before paging is
\* enabled, otherwise the processor cannot reach the page fault handler.
\* From then on every page of the kernel is found at its own address.
KernelMapped ==
    current_mm # NULL => \A p \in 0 .. KernelPages - 1 : Walk(current_mm, p) = p

\* Comment at arch/i686/pfalloc.c:6: the page manager keeps track of all page
\* frames.  A frame's count is the number of references that callers hold,
\* whatever the order of allocation, sharing and release.
CountsHold == current_mm # NULL => pframes = refs

\* get_free_page never hands out a frame somebody still holds.
FreshFrames ==
    [][get_free_page => \A f \in DOMAIN refs : refs'[f] # refs[f] => refs[f] = 0]_vars

\* Comment at arch/i686/paging.h:28: mm_physical() translates a virtual address
\* into a physical address, here for the pages that are mapped.
TranslateRight ==
    current_mm # NULL =>
        \A p \in Pages : asked[current_mm][p] # NULL =>
            mm_physical(current_mm, p) = asked[current_mm][p]
=============================================================================
