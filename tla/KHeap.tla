------------------------------- MODULE KHeap -------------------------------
(***************************************************************************)
(* The kernel heap of ULMIX: kernel/memory/{heap,kmalloc,kfree}.c.         *)
(*                                                                         *)
(* The heap is one doubly linked list of headers (struct kheape_struct),   *)
(* each followed by its payload.  hdr maps the address of every linked     *)
(* header to its fields (the description string is left out).  blocks is   *)
(* the callers' side: the blocks kmalloc has returned and no caller has    *)
(* passed to kfree.  Calls are atomic here: the boot code is the only      *)
(* caller; KernelLocks models what the mutex does when it is not.          *)
(*                                                                         *)
(* status is "panic" after a failed ASSERT and "wild" after a store that   *)
(* hits memory the list does not own (through NULL, or over another        *)
(* header): what the program does from there on is not modelled.           *)
(***************************************************************************)
EXTENDS Naturals

CONSTANTS Hdr,         \* sizeof(struct kheape_struct)
          HeapBase,    \* start_addr of setup_heap
          HeapSize,    \* max_size of setup_heap
          Sizes,       \* sizes the callers of kmalloc ask for
          Aligns,      \* alignments the callers of kmalloc ask for
          FreeAligns,  \* alignments of the blocks that callers give back
          FreeNull,    \* whether a caller passes NULL to kfree
          Debug        \* built with _DEBUG_: ASSERT panics

ASSUME HeapAssumption ==
    /\ Hdr \in Nat \ {0}
    /\ HeapBase \in Nat \ {0}
    /\ HeapSize \in Nat /\ Hdr <= HeapSize
    /\ Sizes \subseteq Nat
    /\ Aligns \subseteq Nat \ {0}
    /\ FreeAligns \subseteq Aligns
    /\ FreeNull \in BOOLEAN /\ Debug \in BOOLEAN

VARIABLES hdr,      \* linked headers, by address
          locked,   \* _heap_mtx.locked
          status,   \* "ok", "panic" or "wild"
          blocks    \* blocks the callers own

vars == <<hdr, locked, status, blocks>>

NULL == 0
HeapEnd == HeapBase + HeapSize

Header == [available : BOOLEAN, size : Nat, start : Nat,
           next : Nat, previous : Nat]
Block == [ptr : Nat, size : Sizes, align : Aligns]

\* Where the entry at e has to end: at the next header or at the end of the heap.
Limit(h, e) == IF h[e].next = NULL THEN HeapEnd ELSE h[e].next

\* The list of headers in h: next and previous are inverse, it starts at the
\* first header, runs through every header and in address order.
Linked(h) ==
    /\ HeapBase \in DOMAIN h /\ h[HeapBase].previous = NULL
    /\ \A e \in DOMAIN h :
         /\ h[e].next # NULL =>
              /\ h[e].next \in DOMAIN h /\ e < h[e].next
              /\ h[h[e].next].previous = e
         /\ e # HeapBase =>
              /\ h[e].previous \in DOMAIN h
              /\ h[h[e].previous].next = e
         /\ \A f \in DOMAIN h : e < f => h[e].next # NULL /\ h[e].next <= f


-----------------------------------------------------------------------------
(* setup_heap                                                              *)

Init ==
    /\ hdr = [e \in {HeapBase} |->
                [available |-> TRUE, size |-> HeapSize - Hdr,
                 start |-> HeapBase + Hdr, next |-> NULL, previous |-> NULL]]
    /\ locked = FALSE
    /\ status = "ok"
    /\ blocks = {}

-----------------------------------------------------------------------------
(* kmalloc                                                                 *)

\* Mutant: the request for an alignment is forgotten.
next_aligned_addr_same(addr, align) == addr

next_aligned_addr(addr, align) ==
    IF addr % align = 0 THEN addr ELSE addr + (align - (addr % align))

start_offset(h, e, align) == next_aligned_addr(h[e].start, align) - h[e].start

\* Mutant: prev->next->previous is not updated.
link_new_entry_one_way(h, addr, prev, avail, size, start) ==
    [e \in DOMAIN h \cup {addr} |->
        IF e = addr THEN [available |-> avail, size |-> size, start |-> start,
                          next |-> h[prev].next, previous |-> prev]
        ELSE IF e = prev THEN [h[e] EXCEPT !.next = addr]
        ELSE h[e]]

\* The header at addr, linked after prev, with what alloc_entry stores in it.
link_new_entry(h, addr, prev, avail, size, start) ==
    [e \in DOMAIN h \cup {addr} |->
        IF e = addr THEN [available |-> avail, size |-> size, start |-> start,
                          next |-> h[prev].next, previous |-> prev]
        ELSE IF e = prev THEN [h[e] EXCEPT !.next = addr]
        ELSE IF e = h[prev].next THEN [h[e] EXCEPT !.previous = addr]
        ELSE h[e]]

\* Padding of at least four headers becomes a free entry of its own; less
\* padding only moves start away from the header.
place_entry(h, e, offset) ==
    LET new_entry == (h[e].start + offset) - Hdr IN
    IF offset >= 4 * Hdr
    THEN link_new_entry([h EXCEPT ![e].size = new_entry - h[e].start],
                        new_entry, e, FALSE, h[e].size, h[e].start + offset)
    ELSE [h EXCEPT ![e] = [available |-> FALSE, size |-> @.size,
                           start |-> @.start + offset,
                           next |-> @.next, previous |-> @.previous]]

placed_at(h, e, offset) ==
    IF offset >= 4 * Hdr THEN (h[e].start + offset) - Hdr ELSE e

\* The test compares with the whole entry: the padding is not subtracted.
splits(h, e, size) == h[e].size - size > 4 * Hdr

alloc_entry(h, e, offset, size) ==
    LET new_entry == placed_at(h, e, offset)
        start     == h[e].start + offset
        placed    == place_entry(h, e, offset)
    IN  IF splits(h, e, size)
        THEN link_new_entry([placed EXCEPT ![new_entry].size = size],
                            start + size, new_entry, TRUE,
                            h[e].size - offset - size - Hdr, start + size + Hdr)
        ELSE placed

\* Mutant: a rest of any size takes a header.
overruns_never(h, e, offset, size) == FALSE

\* The header of the rest would be written over whatever follows the entry.
overruns(h, e, offset, size) ==
    splits(h, e, size) /\ h[e].size - (offset + size) < Hdr

Fits(size, align) ==
    {e \in DOMAIN hdr : /\ hdr[e].available
                        /\ hdr[e].size >= size + start_offset(hdr, e, align)}

Ready == status = "ok" /\ ~locked

\* The list is in address order, so the first fit is the lowest one.
kmalloc(size, align) ==
    \E e \in Fits(size, align) :
        LET offset == start_offset(hdr, e, align) IN
        /\ Ready
        /\ \A f \in Fits(size, align) : e <= f
        /\ IF overruns(hdr, e, offset, size)
           THEN status' = "wild" /\ UNCHANGED <<hdr, blocks>>
           ELSE /\ hdr' = alloc_entry(hdr, e, offset, size)
                /\ blocks' = blocks \cup {[ptr |-> hdr[e].start + offset,
                                           size |-> size, align |-> align]}
                /\ UNCHANGED status
        /\ UNCHANGED locked

\* No entry is large enough: an error is printed and NULL is returned.
kmalloc_fails(size, align) ==
    /\ Ready
    /\ Fits(size, align) = {}
    /\ UNCHANGED vars

-----------------------------------------------------------------------------
(* kfree                                                                   *)

\* kfree(NULL): the early return leaves the mutex locked.
kfree_null ==
    /\ Ready
    /\ FreeNull
    /\ locked' = TRUE
    /\ UNCHANGED <<hdr, status, blocks>>

\* The caller no longer owns what it passed to kfree.
GiveUp(p) == blocks' = {b \in blocks : b.ptr # p}

\* Pointers that callers pass: their own blocks, or one they freed before.
Freeable == {b.ptr : b \in {c \in blocks : c.align \in FreeAligns}}
FreedBefore == {hdr[e].start : e \in {f \in DOMAIN hdr : hdr[f].available}}

\* Mutant: the entry is not marked.
mark_free_forgotten(h, e) == h

mark_free(h, e) == [h EXCEPT ![e].available = TRUE]

\* Mutant: the payloads are added up, the header between them is forgotten.
merge_entries_loses_header(h, first, second) ==
    [e \in DOMAIN h \ {second} |->
        IF e = first
        THEN [h[e] EXCEPT !.next = h[second].next,
                          !.size = @ + h[second].size]
        ELSE IF e = h[second].next THEN [h[e] EXCEPT !.previous = first]
        ELSE h[e]]

merge_entries(h, first, second) ==
    [e \in DOMAIN h \ {second} |->
        IF e = first
        THEN [available |-> h[e].available,
              size      |-> (h[second].start + h[second].size) - (first + Hdr),
              start     |-> first + Hdr,
              next      |-> h[second].next,
              previous  |-> h[e].previous]
        ELSE IF e = h[second].next THEN [h[e] EXCEPT !.previous = first]
        ELSE h[e]]

\* An available or empty header at the expected place: nothing is done.
kfree_ignored(p) ==
    /\ Ready
    /\ p - Hdr \in DOMAIN hdr
    /\ hdr[p - Hdr].available \/ hdr[p - Hdr].size = 0
    /\ GiveUp(p)
    /\ UNCHANGED <<hdr, locked, status>>

\* start was moved away from its header, so kfree reads a header out of
\* payload bytes: they look invalid, or they send it astray.
kfree_displaced(p) ==
    /\ Ready
    /\ p - Hdr \notin DOMAIN hdr
    /\ GiveUp(p)
    /\ \E st \in {"ok", "wild"} : status' = st
    /\ UNCHANGED <<hdr, locked>>

Merges(h, e) == e # NULL /\ h[e].available

\* The two merges of kfree, when neither goes through NULL.
merge_left(h, e) ==
    IF Merges(h, h[e].previous) THEN merge_entries(h, h[e].previous, e) ELSE h
survivor(h, e) == IF Merges(h, h[e].previous) THEN h[e].previous ELSE e
\* Mutant: only the left neighbour is merged.
merge_right_never(h, e) == h

merge_right(h, e) ==
    IF Merges(h, h[e].next) THEN merge_entries(h, e, h[e].next) ELSE h

\* A merge stores to second->next->previous, whatever second->next is.
left_stores_to_null(h, e)  == Merges(h, h[e].previous) /\ h[e].next = NULL
right_stores_to_null(h, e) == Merges(h, h[e].next) /\ h[h[e].next].next = NULL

Allocated(p) ==
    /\ p - Hdr \in DOMAIN hdr
    /\ ~hdr[p - Hdr].available
    /\ hdr[p - Hdr].size # 0

\* null_available is what reading NULL->available yields at a missing neighbour.
kfree_merged(p, null_available) ==
    LET e == p - Hdr IN
    /\ Ready
    /\ Allocated(p)
    /\ ~left_stores_to_null(hdr, e)
    /\ ~right_stores_to_null(hdr, e)
    /\ NULL \in {hdr[e].previous, hdr[e].next} => ~null_available
    /\ hdr' = LET h == mark_free(hdr, e)
              IN  merge_right(merge_left(h, e), survivor(h, e))
    /\ GiveUp(p)
    /\ UNCHANGED <<locked, status>>

\* A merge with NULL, or one that stores through NULL.  merge_entries checks
\* first < second, so only a NULL second is caught, in a debug build.
kfree_astray(p, null_available) ==
    LET e == p - Hdr
        left == \/ hdr[e].previous = NULL /\ null_available
                \/ left_stores_to_null(hdr, e)
        null_second == hdr[e].next = NULL /\ null_available
    IN
    /\ Ready
    /\ Allocated(p)
    /\ left \/ right_stores_to_null(hdr, e) \/ null_second
    /\ status' = IF Debug /\ null_second /\ ~left THEN "panic" ELSE "wild"
    /\ GiveUp(p)
    /\ UNCHANGED <<hdr, locked>>

kfree(p) ==
    \/ kfree_ignored(p)
    \/ kfree_displaced(p)
    \/ \E null_available \in BOOLEAN :
           kfree_merged(p, null_available) \/ kfree_astray(p, null_available)

-----------------------------------------------------------------------------

Next ==
    \/ \E size \in Sizes, align \in Aligns :
           kmalloc(size, align) \/ kmalloc_fails(size, align)
    \/ \E p \in Freeable \cup FreedBefore : kfree(p)
    \/ kfree_null

Spec == Init /\ [][Next]_vars

-----------------------------------------------------------------------------
(* Properties.  A panic or a wild store is not repaired: hdr and blocks keep *)
(* their last values, so the invariants speak of the states before it.       *)

\* Types of the variables.
TypeOK ==
    /\ hdr \in [DOMAIN hdr -> Header]
    /\ DOMAIN hdr \subseteq HeapBase .. HeapEnd
    /\ locked \in BOOLEAN
    /\ status \in {"ok", "panic", "wild"}
    /\ blocks \subseteq Block

\* What the walk of kmalloc and the neighbours read by kfree rely on: the list
\* reaches every header, in address order, and next and previous are inverse.
ListLinked == Linked(hdr)

\* Free entries fill the space up to the next header exactly: kmalloc and
\* merge_entries compute new headers from size and start alone.
FreeExact ==
    \A e \in DOMAIN hdr :
        hdr[e].available => /\ hdr[e].start = e + Hdr
                            /\ hdr[e].start + hdr[e].size = Limit(hdr, e)

\* The bytes a caller asked for lie inside the heap, and they overlap neither
\* another caller's bytes nor any header of the list.
BlocksDisjoint ==
    \A b \in blocks :
        /\ HeapBase + Hdr <= b.ptr /\ b.ptr + b.size <= HeapEnd
        /\ \A e \in DOMAIN hdr : b.ptr + b.size <= e \/ e + Hdr <= b.ptr
        /\ \A c \in blocks :
              c = b \/ (c.ptr # b.ptr /\
                        (b.ptr + b.size <= c.ptr \/ c.ptr + c.size <= b.ptr))

\* kfree merges continuous free blocks, so the list never holds two of them
\* in a row and a large request fails only for want of room.
Coalesced ==
    \A e \in DOMAIN hdr :
        hdr[e].available /\ hdr[e].next # NULL => ~hdr[hdr[e].next].available

\* Every allocated entry still has an owner who can free it, unless kfree
\* cannot tell it from an invalid pointer (size 0, or moved by padding).
NoLeak ==
    status = "ok" =>
        \A e \in DOMAIN hdr :
            ~hdr[e].available /\ hdr[e].size # 0 /\ hdr[e].start = e + Hdr
                => \E b \in blocks : b.ptr = hdr[e].start

\* kfree.c:47, freed blocks are merged with their free neighbours: doing so
\* never stores outside of the heap's own headers.
NoWildStore == status # "wild"

\* The list implements the abstract allocator over the space behind the
\* first header.
Abstract == INSTANCE Allocator WITH Lo <- HeapBase + Hdr, Hi <- HeapEnd,
                                    owned <- blocks
ImplementsAllocator == Abstract!Spec
=============================================================================
