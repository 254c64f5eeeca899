---------------------------- MODULE KHeap_proofs ----------------------------
(***************************************************************************)
(* Proofs about KHeap for every heap size, header size and set of sizes.   *)
(* They first say what the two list operations, link_new_entry and         *)
(* merge_entries, do to a well-formed list, and then follow each action.   *)
(***************************************************************************)
EXTENDS KHeap, TLAPS

\* The callers give back no block aligned to more than four headers: larger
\* padding can leave a header whose size is too large by the padding (splits
\* compares with the whole entry), which kfree would then merge.
SmallFreeAligns == \A n \in FreeAligns : n <= 4 * Hdr

HeapOK(h) == h \in [DOMAIN h -> Header] /\ DOMAIN h \subseteq HeapBase .. HeapEnd

-----------------------------------------------------------------------------
(* The list operations                                                     *)

\* k is h with a header at addr, linked after prev: it takes the end of the
\* space of prev, and no other entry notices.
LinkedIn(h, addr, prev, avail, size, start, k) ==
    /\ DOMAIN k = DOMAIN h \cup {addr}
    /\ addr \notin DOMAIN h
    /\ HeapOK(k)
    /\ Linked(k)
    /\ k[addr].available = avail /\ k[addr].size = size
    /\ k[addr].start = start
    /\ k[addr].next = h[prev].next /\ k[prev].next = addr
    /\ Limit(k, prev) = addr /\ Limit(k, addr) = Limit(h, prev)
    /\ \A e \in DOMAIN h : /\ k[e].available = h[e].available
                           /\ k[e].size = h[e].size
                           /\ k[e].start = h[e].start
                           /\ e # prev => k[e].next = h[e].next
                           /\ e # prev => Limit(k, e) = Limit(h, e)

\* A header stored inside the space of prev (link_new_entry) keeps the list
\* well-formed and splits that space in two.
LEMMA LinkNew ==
    ASSUME NEW h, HeapOK(h), Linked(h),
           NEW prev \in DOMAIN h,
           NEW addr \in Nat, prev < addr, addr < Limit(h, prev),
           NEW avail \in BOOLEAN, NEW size \in Nat, NEW start \in Nat,
           NEW k, k = link_new_entry(h, addr, prev, avail, size, start)
    PROVE  LinkedIn(h, addr, prev, avail, size, start, k)
<1> USE HeapAssumption
<1>1. /\ HeapBase \in Nat \ {0} /\ HeapEnd \in Nat /\ DOMAIN h \subseteq Nat \ {0}
      /\ \A e \in DOMAIN h : h[e] \in Header
  BY DEF HeapOK, HeapEnd
<1>2. Limit(h, prev) <= HeapEnd /\ Limit(h, prev) \in Nat
  BY <1>1 DEF HeapOK, Limit, Linked
<1>3. addr \notin DOMAIN h
  BY <1>1, <1>2 DEF Linked, Limit
<1>4. /\ DOMAIN k = DOMAIN h \cup {addr}
      /\ k[addr] = [available |-> avail, size |-> size, start |-> start,
                    next |-> h[prev].next, previous |-> prev]
      /\ \A e \in DOMAIN h :
           k[e] = IF e = prev THEN [h[e] EXCEPT !.next = addr]
                  ELSE IF e = h[prev].next THEN [h[e] EXCEPT !.previous = addr]
                  ELSE h[e]
      /\ k = [e \in DOMAIN k |-> k[e]]
  BY <1>3 DEF link_new_entry
<1>5. \A e \in DOMAIN k : k[e] \in Header
  BY <1>1, <1>3, <1>4 DEF Header
<1>6. HeapOK(k)
  BY <1>1, <1>2, <1>4, <1>5 DEF HeapOK
<1>7. /\ \A e \in DOMAIN h : /\ k[e].available = h[e].available
                             /\ k[e].size = h[e].size
                             /\ k[e].start = h[e].start
                             /\ k[e].next = IF e = prev THEN addr ELSE h[e].next
                             /\ k[e].previous =
                                  IF e # prev /\ e = h[prev].next THEN addr
                                  ELSE h[e].previous
      /\ k[addr].next = h[prev].next /\ k[addr].previous = prev
  BY <1>1, <1>4 DEF Header
<1>8. h[prev].next # prev
  BY <1>1 DEF Linked, NULL
<1>9. Linked(k)
  <2>1. HeapBase \in DOMAIN k /\ k[HeapBase].previous = NULL
    BY <1>1, <1>4, <1>7 DEF Linked, NULL
  <2>2. ASSUME NEW e \in DOMAIN k, k[e].next # NULL
        PROVE  k[e].next \in DOMAIN k /\ e < k[e].next /\ k[k[e].next].previous = e
    <3>1. CASE e = addr
      BY <3>1, <2>2, <1>1, <1>3, <1>4, <1>7, <1>8 DEF Linked, Limit
    <3>2. CASE e = prev
      BY <3>2, <1>1, <1>3, <1>4, <1>7
    <3>3. CASE e \in DOMAIN h /\ e # prev
      BY <3>3, <2>2, <1>1, <1>3, <1>4, <1>7 DEF Linked
    <3> QED BY <3>1, <3>2, <3>3, <1>4
  <2>3. ASSUME NEW e \in DOMAIN k, e # HeapBase
        PROVE  k[e].previous \in DOMAIN k /\ k[k[e].previous].next = e
    <3>1. CASE e = addr
      BY <3>1, <1>3, <1>4, <1>7
    <3>2. CASE e \in DOMAIN h /\ e = h[prev].next
      BY <3>2, <1>3, <1>4, <1>7, <1>8
    <3>3. CASE e \in DOMAIN h /\ e # h[prev].next
      BY <3>3, <2>3, <1>1, <1>3, <1>4, <1>7 DEF Linked
    <3> QED BY <3>1, <3>2, <3>3, <1>4
  <2>4. ASSUME NEW e \in DOMAIN k, NEW f \in DOMAIN k, e < f
        PROVE  k[e].next # NULL /\ k[e].next <= f
    <3>1. CASE e \in DOMAIN h /\ f \in DOMAIN h
      BY <3>1, <2>4, <1>1, <1>2, <1>4, <1>7 DEF Linked, Limit, NULL
    <3>2. CASE e = addr /\ f \in DOMAIN h
      BY <3>2, <2>4, <1>1, <1>2, <1>4, <1>7 DEF Linked, Limit, NULL
    <3>3. CASE e = prev /\ f = addr
      BY <3>3, <1>1, <1>4, <1>7 DEF NULL
    <3>4. CASE e \in DOMAIN h /\ e # prev /\ f = addr
      <4>1. e < prev
        <5>1. SUFFICES ASSUME prev < e PROVE FALSE
          BY <3>4, <1>1
        <5>2. h[prev].next # NULL /\ h[prev].next <= e
          BY <5>1, <3>4 DEF Linked
        <5> QED BY <5>2, <3>4, <2>4, <1>1 DEF Limit, Header
      <4>2. h[e].next # NULL /\ h[e].next <= prev
        BY <4>1, <3>4 DEF Linked
      <4> QED BY <4>2, <3>4, <1>1, <1>7 DEF Header
    <3>5. ~(e = addr /\ f = addr)
      BY <2>4
    <3> QED BY <3>1, <3>2, <3>3, <3>4, <3>5, <1>4
  <2> QED BY <2>1, <2>2, <2>3, <2>4 DEF Linked
<1>10. Limit(k, prev) = addr /\ Limit(k, addr) = Limit(h, prev)
  BY <1>1, <1>7 DEF Limit, NULL
<1> QED BY <1>3, <1>4, <1>6, <1>7, <1>9, <1>10 DEF Limit, LinkedIn

\* k is h without the header second, whose space now belongs to first.
SpaceJoined(h, first, second, k) ==
    /\ DOMAIN k = DOMAIN h \ {second}
    /\ first # second
    /\ HeapOK(k)
    /\ Linked(k)
    /\ k[first].available = h[first].available
    /\ k[first].start = first + Hdr
    /\ k[first].start + k[first].size = Limit(k, first)
    /\ Limit(k, first) = Limit(h, second)
    /\ k[first].next = h[second].next
    /\ k[first].previous = h[first].previous
    /\ \A e \in DOMAIN k : /\ k[e].available = h[e].available
                           /\ e # first => /\ k[e].size = h[e].size
                                           /\ k[e].start = h[e].start
                                           /\ k[e].next = h[e].next
                                           /\ Limit(k, e) = Limit(h, e)

\* merge_entries(first, second), where second follows first and is not the
\* last header, removes second and gives its space to first.
LEMMA MergeEntries ==
    ASSUME NEW h, HeapOK(h), Linked(h),
           NEW first \in DOMAIN h, NEW second \in DOMAIN h,
           h[first].next = second, h[second].next # NULL,
           h[second].start + h[second].size = h[second].next,
           first + Hdr <= h[second].next,
           NEW k, k = merge_entries(h, first, second)
    PROVE  SpaceJoined(h, first, second, k)
<1> USE HeapAssumption
<1>1. /\ HeapBase \in Nat \ {0} /\ HeapEnd \in Nat /\ DOMAIN h \subseteq Nat \ {0}
      /\ \A e \in DOMAIN h : h[e] \in Header
      /\ Hdr \in Nat
  BY DEF HeapOK, HeapEnd
<1> DEFINE third == h[second].next
<1>2. /\ third \in DOMAIN h /\ first < second /\ second < third
      /\ h[second].previous = first /\ h[third].previous = second
      /\ second # HeapBase
  BY <1>1 DEF Linked, NULL
<1> DEFINE room == (h[second].start + h[second].size) - (first + Hdr)
<1>3. room \in Nat /\ first + Hdr + room = third
  BY <1>1, <1>2 DEF Header
<1>4. /\ DOMAIN k = DOMAIN h \ {second}
      /\ \A e \in DOMAIN h \ {second} :
           k[e] = IF e = first
                  THEN [available |-> h[e].available, size |-> room,
                        start |-> first + Hdr, next |-> third,
                        previous |-> h[e].previous]
                  ELSE IF e = third THEN [h[e] EXCEPT !.previous = first]
                  ELSE h[e]
  BY DEF merge_entries
<1>40. k = [e \in DOMAIN k |-> k[e]]
  BY DEF merge_entries
<1> HIDE DEF third, room
<1>5. \A e \in DOMAIN k : k[e] \in Header
  BY <1>1, <1>2, <1>3, <1>4 DEF Header
<1>6. HeapOK(k)
  BY <1>4, <1>40, <1>5, <1>1 DEF HeapOK
<1>7. \A e \in DOMAIN k :
        /\ k[e].available = h[e].available
        /\ k[e].size = IF e = first THEN room ELSE h[e].size
        /\ k[e].start = IF e = first THEN first + Hdr ELSE h[e].start
        /\ k[e].next = IF e = first THEN third ELSE h[e].next
        /\ k[e].previous = IF e = third THEN first ELSE h[e].previous
  BY <1>1, <1>2, <1>4 DEF Header
<1>8. first \in DOMAIN k /\ third \in DOMAIN k /\ third # NULL
  BY <1>1, <1>2, <1>4 DEF NULL
<1>9. Linked(k)
  <2>1. HeapBase \in DOMAIN k /\ k[HeapBase].previous = NULL
    BY <1>1, <1>2, <1>4, <1>7 DEF Linked, NULL
  <2>2. ASSUME NEW e \in DOMAIN k, k[e].next # NULL
        PROVE  k[e].next \in DOMAIN k /\ e < k[e].next /\ k[k[e].next].previous = e
    <3>1. CASE e = first
      BY <3>1, <1>1, <1>2, <1>7, <1>8
    <3>2. CASE e # first
      <4>1. /\ h[e].next \in DOMAIN h /\ e < h[e].next
            /\ h[h[e].next].previous = e
        BY <3>2, <2>2, <1>4, <1>7 DEF Linked
      <4>2. h[e].next # second /\ h[e].next # third
        BY <4>1, <3>2, <1>2, <1>4
      <4> QED BY <4>1, <4>2, <3>2, <1>4, <1>7
    <3> QED BY <3>1, <3>2
  <2>3. ASSUME NEW e \in DOMAIN k, e # HeapBase
        PROVE  k[e].previous \in DOMAIN k /\ k[k[e].previous].next = e
    <3>1. CASE e = third
      BY <3>1, <1>7, <1>8
    <3>2. CASE e # third
      <4>1. h[e].previous \in DOMAIN h /\ h[h[e].previous].next = e
        BY <2>3, <1>4 DEF Linked
      <4>2. h[e].previous # second /\ h[e].previous # first
        BY <4>1, <3>2, <1>2, <1>4 DEF third
      <4> QED BY <4>1, <4>2, <3>2, <1>4, <1>7
    <3> QED BY <3>1, <3>2
  <2>4. ASSUME NEW e \in DOMAIN k, NEW f \in DOMAIN k, e < f
        PROVE  k[e].next # NULL /\ k[e].next <= f
    <3>1. CASE e = first
      <4>1. second <= f
        BY <3>1, <2>4, <1>4 DEF Linked
      <4>2. second < f
        BY <4>1, <1>1, <1>4
      <4>3. third <= f
        BY <4>2, <1>4 DEF Linked, third
      <4> QED BY <4>3, <3>1, <1>7, <1>8
    <3>2. CASE e # first
      BY <3>2, <2>4, <1>4, <1>7 DEF Linked
    <3> QED BY <3>1, <3>2
  <2> QED BY <2>1, <2>2, <2>3, <2>4 DEF Linked
<1>10. /\ Limit(k, first) = third /\ Limit(h, second) = third
       /\ k[first].start + k[first].size = third
  BY <1>1, <1>2, <1>3, <1>7, <1>8 DEF Limit, third
<1> QED BY <1>2, <1>4, <1>6, <1>7, <1>8, <1>9, <1>10 DEF Limit, third, SpaceJoined

\* Storing to available, size and start alone leaves the list as it is.
LEMMA SameLinks ==
    ASSUME NEW h, Linked(h), NEW k, DOMAIN k = DOMAIN h,
           \A e \in DOMAIN h : k[e].next = h[e].next /\ k[e].previous = h[e].previous
    PROVE  Linked(k) /\ \A e \in DOMAIN h : Limit(k, e) = Limit(h, e)
BY HeapAssumption DEF Linked, Limit

\* The space of an entry ends at or before every later header.
LEMMA LimitBeforeNext ==
    ASSUME NEW h, HeapOK(h), Linked(h), NEW e \in DOMAIN h
    PROVE  /\ e \in Nat \ {0} /\ Limit(h, e) \in Nat /\ Limit(h, e) <= HeapEnd
           /\ HeapBase <= e /\ e <= HeapEnd
           /\ h[e] \in Header
           /\ \A f \in DOMAIN h : e < f => Limit(h, e) <= f
BY HeapAssumption DEF HeapOK, Linked, Limit, HeapEnd

\* next_aligned_addr rounds up to a multiple of align.
LEMMA Aligned ==
    ASSUME NEW addr \in Nat, NEW align \in Nat \ {0}
    PROVE  /\ next_aligned_addr(addr, align) \in Nat
           /\ addr <= next_aligned_addr(addr, align)
           /\ next_aligned_addr(addr, align) < addr + align
           /\ next_aligned_addr(addr, align) % align = 0
<1>1. addr % align \in 0 .. align - 1
  OBVIOUS
<1>2. CASE addr % align = 0
  BY <1>2 DEF next_aligned_addr
<1>3. CASE addr % align # 0
  <2> DEFINE q == addr \div align
  <2>1. q \in Nat /\ addr = (q * align) + (addr % align)
    OBVIOUS
  <2>2. next_aligned_addr(addr, align) = (q + 1) * align
    BY <2>1, <1>1, <1>3 DEF next_aligned_addr
  <2>3. ((q + 1) * align) % align = 0
    BY <2>1
  <2> QED BY <2>2, <2>3, <1>1, <1>3 DEF next_aligned_addr
<1> QED BY <1>2, <1>3

-----------------------------------------------------------------------------
(* The inductive invariant                                                 *)

Exact(h) == \A e \in DOMAIN h :
    h[e].available => h[e].start = e + Hdr /\ h[e].start + h[e].size = Limit(h, e)

Behind(h) == \A e \in DOMAIN h : e + Hdr <= h[e].start /\ e + Hdr <= Limit(h, e)

Good(h) == HeapOK(h) /\ Linked(h) /\ Exact(h) /\ Behind(h)

\* x is the only free entry that may be followed by a free entry.
DoublesOnlyAt(h, X) == \A e \in DOMAIN h :
    h[e].available /\ h[e].next # NULL /\ h[h[e].next].available => e \in X

\* The entry e that belongs to block b: the bytes of b lie in its space, and
\* its size is right if b can be passed to kfree and is found there.
OwnedAt(h, b, e) ==
    /\ e \in DOMAIN h /\ ~h[e].available /\ h[e].start = b.ptr
    /\ b.ptr + b.size <= Limit(h, e)
    /\ b.align <= 4 * Hdr /\ b.ptr = e + Hdr => b.ptr + h[e].size = Limit(h, e)

Owned(h, b) == \E e \in DOMAIN h : OwnedAt(h, b, e)

\* What is allocated at e in r has been so in h, with the same space.
Inherited(h, r, e) ==
    /\ e \in DOMAIN h /\ ~h[e].available
    /\ r[e].size = h[e].size /\ r[e].start = h[e].start

DistinctBlocks(B) == \A b, c \in B : b.ptr = c.ptr => b = c

IInv ==
    /\ TypeOK
    /\ Good(hdr)
    /\ DoublesOnlyAt(hdr, {})
    /\ \A b \in blocks : Owned(hdr, b)
    /\ DistinctBlocks(blocks)
    /\ NoLeak

-----------------------------------------------------------------------------
(* kmalloc                                                                 *)

\* What alloc_entry has done in k when it comes to the split: entry n is
\* allocated at h[e].start + offset, and the padding before it belongs to e.
Placed(h, e, offset, k, n) ==
    /\ DOMAIN k = DOMAIN h \cup {n}
    /\ HeapOK(k) /\ Linked(k)
    /\ n = e \/ (n \notin DOMAIN h /\ offset >= 4 * Hdr)
    /\ n = e \/ (k[n].start = n + Hdr)
    /\ ~k[n].available /\ k[n].start = h[e].start + offset
    /\ k[n].size = h[e].size /\ n + Hdr <= k[n].start
    /\ k[n].next = h[e].next /\ Limit(k, n) = Limit(h, e)
    /\ n # e => /\ k[e].available /\ k[e].start = h[e].start
                /\ k[e].start + k[e].size = n
                /\ k[e].next = n /\ Limit(k, e) = n
    /\ \A f \in DOMAIN h \ {e} : /\ k[f].available = h[f].available
                                 /\ k[f].size = h[f].size
                                 /\ k[f].start = h[f].start
                                 /\ k[f].next = h[f].next
                                 /\ Limit(k, f) = Limit(h, f)

\* The first half of alloc_entry, for a free entry with room for the request.
LEMMA PlaceEntry ==
    ASSUME NEW h, Good(h), NEW e \in DOMAIN h, h[e].available,
           NEW offset \in Nat, NEW size \in Nat, size + offset <= h[e].size,
           NEW k, k = place_entry(h, e, offset),
           NEW n, n = placed_at(h, e, offset)
    PROVE  Placed(h, e, offset, k, n)
<1> USE HeapAssumption
<1>1. /\ e \in Nat \ {0} /\ Limit(h, e) \in Nat /\ h[e] \in Header
      /\ Hdr \in Nat \ {0}
      /\ h[e].start = e + Hdr /\ h[e].start + h[e].size = Limit(h, e)
  BY LimitBeforeNext DEF Good, Exact
<1>2. CASE offset >= 4 * Hdr
  <2>1. n = (h[e].start + offset) - Hdr /\ n \in Nat /\ e + Hdr <= n
        /\ n < Limit(h, e)
    BY <1>1, <1>2 DEF placed_at, Header
  <2> DEFINE g == [h EXCEPT ![e].size = n - h[e].start]
  <2>2. n - h[e].start \in Nat /\ h[e].start + (n - h[e].start) = n
    BY <1>1, <2>1
  <2>3. /\ DOMAIN g = DOMAIN h
        /\ g[e].available /\ g[e].start = h[e].start
        /\ g[e].size = n - h[e].start /\ g[e].next = h[e].next
        /\ g[e].previous = h[e].previous
        /\ \A f \in DOMAIN h \ {e} : g[f] = h[f]
        /\ g \in [DOMAIN g -> Header]
    BY <1>1, <2>2 DEF Good, HeapOK, Header
  <2>4. /\ HeapOK(g) /\ Linked(g)
        /\ \A f \in DOMAIN h : Limit(g, f) = Limit(h, f)
    <3>1. HeapOK(g)
      BY <2>3 DEF Good, HeapOK
    <3>2. \A f \in DOMAIN h : g[f].next = h[f].next /\ g[f].previous = h[f].previous
      BY <2>3
    <3>3. Linked(g) /\ \A f \in DOMAIN h : Limit(g, f) = Limit(h, f)
      <4> HIDE DEF g
      <4> QED BY <2>3, <3>2, SameLinks DEF Good
    <3> QED BY <3>1, <3>3
  <2> DEFINE no == FALSE
  <2>5. k = link_new_entry(g, n, e, no, h[e].size, h[e].start + offset)
    BY <1>2, <2>1 DEF place_entry
  <2>6. h[e].size \in Nat /\ h[e].start + offset \in Nat /\ no \in BOOLEAN
    BY <1>1 DEF Header
  <2> HIDE DEF g, no
  <2>7. e < n /\ n < Limit(g, e) /\ e \in DOMAIN g
    BY <2>1, <2>3, <2>4, <1>1
  <2>8. LinkedIn(g, n, e, no, h[e].size, h[e].start + offset, k)
    BY <2>1, <2>4, <2>5, <2>6, <2>7, LinkNew
  <2>9. k[n].start = n + Hdr
    BY <2>8, <2>1, <1>1 DEF LinkedIn
  <2> QED BY <2>1, <2>2, <2>3, <2>4, <2>7, <2>8, <2>9, <1>1, <1>2 DEF no, LinkedIn, Placed
<1>3. CASE ~(offset >= 4 * Hdr)
  <2>1. n = e
    BY <1>3 DEF placed_at
  <2>2. k = [h EXCEPT ![e] = [available |-> FALSE, size |-> @.size,
                              start |-> @.start + offset,
                              next |-> @.next, previous |-> @.previous]]
    BY <1>3 DEF place_entry
  <2>3. /\ DOMAIN k = DOMAIN h
        /\ ~k[e].available /\ k[e].start = h[e].start + offset
        /\ k[e].size = h[e].size /\ k[e].next = h[e].next
        /\ k[e].previous = h[e].previous
        /\ \A f \in DOMAIN h \ {e} : k[f] = h[f]
        /\ k \in [DOMAIN k -> Header]
    BY <2>2, <1>1 DEF Good, HeapOK, Header
  <2>4. HeapOK(k)
    BY <2>3 DEF Good, HeapOK
  <2>5. Linked(k) /\ \A f \in DOMAIN h : Limit(k, f) = Limit(h, f)
    <3>1. \A f \in DOMAIN h : k[f].next = h[f].next /\ k[f].previous = h[f].previous
      BY <2>3
    <3> QED BY <2>3, <3>1, SameLinks DEF Good
  <2> QED BY <2>1, <2>3, <2>4, <2>5, <1>1 DEF Header, Placed
<1> QED BY <1>2, <1>3

\* alloc_entry keeps the list good, the blocks in their places, and gives the
\* new block a place of its own.
LEMMA AllocEntry ==
    ASSUME NEW h, Good(h), DoublesOnlyAt(h, {}),
           NEW e \in DOMAIN h, h[e].available,
           NEW offset \in Nat, NEW size \in Nat, size + offset <= h[e].size,
           ~overruns(h, e, offset, size),
           NEW r, r = alloc_entry(h, e, offset, size),
           NEW c, c.ptr = h[e].start + offset, c.size = size,
           c.align \in Nat, offset < c.align
    PROVE  /\ Good(r) /\ DoublesOnlyAt(r, {})
           /\ Owned(r, c)
           /\ \A b : Owned(h, b) => Owned(r, b)
           /\ \A f \in DOMAIN r :
                 ~r[f].available => r[f].start = c.ptr \/ Inherited(h, r, f)
<1> USE HeapAssumption
<1>1. /\ e \in Nat \ {0} /\ Limit(h, e) \in Nat /\ h[e] \in Header
      /\ Hdr \in Nat \ {0}
      /\ h[e].start = e + Hdr /\ h[e].start + h[e].size = Limit(h, e)
      /\ \A f \in DOMAIN h : f \in Nat \ {0} /\ h[f] \in Header
  BY LimitBeforeNext DEF Good, Exact
<1> DEFINE k == place_entry(h, e, offset)
           n == placed_at(h, e, offset)
           start == h[e].start + offset
<1>2. Placed(h, e, offset, k, n)
  BY PlaceEntry
<1>3. /\ start \in Nat /\ e + Hdr <= start /\ start + size <= Limit(h, e)
      /\ n \in Nat /\ n < start /\ n + Hdr <= start
  BY <1>1, <1>2 DEF Placed, HeapOK, Header
<1>30. n # e => e + Hdr <= n
  BY <1>1, <1>2, <1>3 DEF Placed
<1>4. r = IF splits(h, e, size)
          THEN link_new_entry([k EXCEPT ![n].size = size],
                              start + size, n, TRUE,
                              h[e].size - offset - size - Hdr, start + size + Hdr)
          ELSE k
  BY Zenon DEF alloc_entry
<1> HIDE DEF k, n, start
<1>5. CASE ~splits(h, e, size)
  <2>1. r = k
    BY <1>4, <1>5
  <2>2. Exact(k)
    BY <1>1, <1>2 DEF Placed, Good, Exact
  <2>3. Behind(k)
    BY <1>1, <1>2, <1>3, <1>30 DEF Placed, Good, Behind, start
  <2>4. DoublesOnlyAt(k, {})
    BY <1>1, <1>2 DEF Placed, DoublesOnlyAt, Good, Linked
  <2>5. OwnedAt(k, c, n)
    BY <1>1, <1>2, <1>3 DEF Placed, OwnedAt, start, Header
  <2>6. ASSUME NEW b, Owned(h, b) PROVE Owned(k, b)
    <3>1. PICK f \in DOMAIN h : OwnedAt(h, b, f)
      BY <2>6 DEF Owned
    <3>2. f # e
      BY <3>1 DEF OwnedAt
    <3>3. OwnedAt(k, b, f)
      BY <3>1, <3>2, <1>2 DEF OwnedAt, Placed
    <3> QED BY <3>3 DEF Owned, OwnedAt
  <2>7. ASSUME NEW f \in DOMAIN k, ~k[f].available
        PROVE  k[f].start = c.ptr \/ Inherited(h, k, f)
    BY <2>7, <1>2 DEF Placed, Inherited
  <2> QED BY <2>1, <2>2, <2>3, <2>4, <2>5, <2>6, <2>7, <1>2 DEF Placed, Good, Owned, OwnedAt
<1>6. CASE splits(h, e, size)
  <2> DEFINE g == [k EXCEPT ![n].size = size]
             m == start + size
             rest == h[e].size - offset - size - Hdr
             yes == TRUE
  <2>1. r = link_new_entry(g, m, n, yes, rest, m + Hdr)
    BY <1>4, <1>6, Zenon
  <2>2. rest \in Nat /\ m + Hdr + rest = Limit(h, e) /\ m \in Nat /\ n < m
    BY <1>1, <1>3, <1>6 DEF overruns, Header, start
  <2>3. /\ DOMAIN g = DOMAIN k
        /\ ~g[n].available /\ g[n].start = start /\ g[n].size = size
        /\ \A f \in DOMAIN k : /\ g[f].next = k[f].next
                               /\ g[f].previous = k[f].previous
                               /\ g[f].available = k[f].available
                               /\ g[f].start = k[f].start
                               /\ f # n => g[f].size = k[f].size
        /\ HeapOK(g)
    BY <1>2 DEF Placed, HeapOK, Header, start
  <2>4. Linked(g) /\ \A f \in DOMAIN k : Limit(g, f) = Limit(k, f)
    <3> HIDE DEF g
    <3> QED BY <2>3, <1>2, SameLinks DEF Placed
  <2> HIDE DEF g, m, rest, yes
  <2>5. n \in DOMAIN g /\ m < Limit(g, n) /\ Limit(g, n) = Limit(h, e)
    BY <2>2, <2>3, <2>4, <1>1, <1>2 DEF Placed
  <2>6. m + Hdr \in Nat /\ yes \in BOOLEAN
    BY <2>2 DEF yes
  <2>7. LinkedIn(g, m, n, yes, rest, m + Hdr, r)
    BY <2>1, <2>2, <2>3, <2>4, <2>5, <2>6, LinkNew
  <2>8. /\ DOMAIN r = (DOMAIN h \cup {n}) \cup {m} /\ m \notin DOMAIN h /\ m # n
        /\ r[m].available /\ r[m].start = m + Hdr /\ r[m].size = rest
        /\ r[m].next = h[e].next /\ Limit(r, m) = Limit(h, e)
        /\ ~r[n].available /\ r[n].start = start /\ r[n].size = size
        /\ r[n].next = m /\ Limit(r, n) = m
        /\ n # e => /\ r[e].available /\ r[e].start = h[e].start
                    /\ r[e].start + r[e].size = n /\ r[e].next = n
                    /\ Limit(r, e) = n
        /\ \A f \in DOMAIN h \ {e} : /\ r[f].available = h[f].available
                                     /\ r[f].size = h[f].size
                                     /\ r[f].start = h[f].start
                                     /\ r[f].next = h[f].next
                                     /\ Limit(r, f) = Limit(h, f)
    BY <2>2, <2>3, <2>4, <2>5, <2>7, <1>2 DEF LinkedIn, Placed, yes
  <2>9. Exact(r)
    BY <2>2, <2>8, <1>1 DEF Exact, Good
  <2>10. Behind(r)
    <3>1. n + Hdr <= m /\ m + Hdr <= Limit(h, e)
      BY <2>2, <1>1, <1>3 DEF m
    <3> QED BY <3>1, <2>2, <2>8, <1>1, <1>2, <1>3, <1>30
            DEF Behind, Good, Placed, start
  <2>11. DoublesOnlyAt(r, {})
    BY <2>8, <1>1, <1>2 DEF DoublesOnlyAt, Good, Linked, Placed
  <2>12. OwnedAt(r, c, n)
    BY <2>2, <2>8, <1>1, <1>3 DEF OwnedAt, m, start
  <2>13. ASSUME NEW b, Owned(h, b) PROVE Owned(r, b)
    <3>1. PICK f \in DOMAIN h : OwnedAt(h, b, f)
      BY <2>13 DEF Owned
    <3>2. f # e
      BY <3>1 DEF OwnedAt
    <3>3. OwnedAt(r, b, f)
      BY <3>1, <3>2, <2>8 DEF OwnedAt
    <3> QED BY <3>3 DEF Owned, OwnedAt
  <2>14. ASSUME NEW f \in DOMAIN r, ~r[f].available
         PROVE  r[f].start = c.ptr \/ Inherited(h, r, f)
    BY <2>14, <2>8 DEF Inherited, start
  <2> QED BY <2>7, <2>9, <2>10, <2>11, <2>12, <2>13, <2>14 DEF LinkedIn, Good, Owned, OwnedAt
<1> QED BY <1>5, <1>6

-----------------------------------------------------------------------------
(* kfree                                                                   *)

\* k is h after two neighbouring free entries have become one.
Merged(h, first, second, k) ==
    /\ DOMAIN k = DOMAIN h \ {second}
    /\ first # second
    /\ Good(k)
    /\ k[first].available
    /\ k[first].next = h[second].next
    /\ \A e \in DOMAIN k : /\ k[e].available = h[e].available
                           /\ e # first => /\ k[e].next = h[e].next
                                           /\ k[e].size = h[e].size
                                           /\ k[e].start = h[e].start
    /\ \A b : Owned(h, b) => Owned(k, b)

\* Two neighbouring free entries become one good free entry.
LEMMA MergeFree ==
    ASSUME NEW h, Good(h),
           NEW first \in DOMAIN h, NEW second \in DOMAIN h,
           h[first].available, h[second].available,
           h[first].next = second, h[second].next # NULL,
           NEW k, k = merge_entries(h, first, second)
    PROVE  Merged(h, first, second, k)
<1> USE HeapAssumption
<1>1. /\ \A f \in DOMAIN h : f \in Nat \ {0} /\ h[f] \in Header
      /\ Hdr \in Nat \ {0}
      /\ HeapOK(h) /\ Linked(h)
  BY LimitBeforeNext DEF Good
<1>2. /\ h[second].start + h[second].size = h[second].next
      /\ first < second /\ first + Hdr <= h[second].next
  BY <1>1 DEF Good, Exact, Limit, Linked, Header, NULL
<1>3. SpaceJoined(h, first, second, k)
  BY <1>1, <1>2, MergeEntries
<1>4. Good(k)
  <2>1. Limit(h, second) = h[second].next
    BY DEF Limit
  <2> QED BY <2>1, <1>1, <1>2, <1>3 DEF Good, Exact, Behind, SpaceJoined
<1>5. ASSUME NEW b, Owned(h, b) PROVE Owned(k, b)
  <2>1. PICK f \in DOMAIN h : OwnedAt(h, b, f)
    BY <1>5 DEF Owned
  <2>2. f # first /\ f # second
    BY <2>1 DEF OwnedAt
  <2>3. OwnedAt(k, b, f)
    BY <2>1, <2>2, <1>3 DEF OwnedAt, SpaceJoined
  <2> QED BY <2>3 DEF Owned, OwnedAt
<1> QED BY <1>3, <1>4, <1>5 DEF Merged, SpaceJoined

\* kfree after the entry e was marked free, when no merge goes through NULL:
\* the list is good again, and no two free entries follow each other.
LEMMA FreeEntry ==
    ASSUME NEW h, Good(h), DoublesOnlyAt(h, {}),
           NEW e \in DOMAIN h, ~h[e].available,
           h[e].start = e + Hdr, h[e].start + h[e].size = Limit(h, e),
           ~left_stores_to_null(h, e), ~right_stores_to_null(h, e),
           NEW g, g = mark_free(h, e),
           NEW r, r = merge_right(merge_left(g, e), survivor(g, e))
    PROVE  /\ Good(r) /\ DoublesOnlyAt(r, {})
           /\ \A b : Owned(h, b) /\ b.ptr # e + Hdr => Owned(r, b)
           /\ \A f \in DOMAIN r : ~r[f].available => f # e /\ Inherited(h, r, f)
<1> USE HeapAssumption
<1>1. /\ \A f \in DOMAIN h : f \in Nat \ {0} /\ h[f] \in Header
      /\ HeapOK(h) /\ Linked(h)
      /\ \A f \in DOMAIN h : /\ h[f].next # f /\ h[f].previous # f
                             /\ h[f].previous # NULL => h[f].previous \in DOMAIN h
                             /\ h[f].next # NULL => h[f].next \in DOMAIN h
  BY LimitBeforeNext DEF Good, Linked, NULL
<1>2. /\ DOMAIN g = DOMAIN h /\ g[e].available
      /\ \A f \in DOMAIN h : /\ g[f].next = h[f].next /\ g[f].previous = h[f].previous
                             /\ g[f].size = h[f].size /\ g[f].start = h[f].start
                             /\ f # e => g[f].available = h[f].available
      /\ HeapOK(g)
  <2>1. DOMAIN g = DOMAIN h
    BY DEF mark_free
  <2>2. g[e] = [h[e] EXCEPT !.available = TRUE]
    BY DEF mark_free
  <2>3. \A f \in DOMAIN h : f # e => g[f] = h[f]
    BY DEF mark_free
  <2>4. /\ g[e].available = TRUE /\ g[e].next = h[e].next
        /\ g[e].previous = h[e].previous /\ g[e].size = h[e].size
        /\ g[e].start = h[e].start
        /\ g[e] \in Header
    BY <2>2, <1>1 DEF Header
  <2>5. g \in [DOMAIN g -> Header]
    BY <2>1, <2>3, <2>4, <1>1 DEF mark_free, HeapOK
  <2> QED BY <2>1, <2>3, <2>4, <2>5, <1>1 DEF HeapOK
<1>3. Linked(g) /\ \A f \in DOMAIN h : Limit(g, f) = Limit(h, f)
  BY <1>1, <1>2, SameLinks
<1>4. Good(g)
  BY <1>2, <1>3 DEF Good, Exact, Behind
<1>5. ASSUME NEW b, Owned(h, b), b.ptr # e + Hdr PROVE Owned(g, b)
  <2>1. PICK f \in DOMAIN h : OwnedAt(h, b, f)
    BY <1>5 DEF Owned
  <2>2. f # e
    BY <2>1, <1>5 DEF OwnedAt
  <2>3. OwnedAt(g, b, f)
    BY <2>1, <2>2, <1>2, <1>3 DEF OwnedAt
  <2> QED BY <2>3 DEF Owned, OwnedAt
<1> DEFINE prev == h[e].previous
           s == survivor(g, e)
           l == merge_left(g, e)
<1>6. /\ Good(l) /\ s \in DOMAIN l /\ l[s].available
      /\ l[s].next = h[e].next
      /\ l[s].next # NULL => /\ l[s].next \in DOMAIN l
                             /\ l[l[s].next].available = h[l[s].next].available
                             /\ l[l[s].next].next = h[l[s].next].next
      /\ DoublesOnlyAt(l, {s})
      /\ \A b : Owned(g, b) => Owned(l, b)
      /\ \A f \in DOMAIN l : ~l[f].available => f # e /\ Inherited(h, l, f)
  <2>1. CASE Merges(g, prev)
    <3>1. /\ prev \in DOMAIN g /\ g[prev].next = e /\ g[prev].available
          /\ prev # e /\ h[prev].available /\ h[e].next # NULL
          /\ h[prev].next = e
      BY <2>1, <1>1, <1>2 DEF Merges, left_stores_to_null, Linked
    <3>2. s = prev /\ l = merge_entries(g, prev, e)
      BY <2>1, <1>2 DEF survivor, merge_left
    <3>3. Merged(g, prev, e, l)
      <4> HIDE DEF l, s, prev
      <4> QED BY <3>1, <3>2, <1>2, <1>4, MergeFree
    <3> HIDE DEF l, s, prev
    <3>4. h[e].next # prev /\ h[e].next # e /\ h[e].next \in DOMAIN h
      BY <3>1, <1>1, <1>2 DEF Linked, NULL
    <3>5. DoublesOnlyAt(l, {s})
      <4> SUFFICES ASSUME NEW x \in DOMAIN l, l[x].available, l[x].next # NULL,
                          l[l[x].next].available, x # prev
                   PROVE  FALSE
        BY <3>2 DEF DoublesOnlyAt
      <4>1. /\ x \in DOMAIN h /\ x # e /\ l[x].next = h[x].next
            /\ h[x].available /\ h[x].next \in DOMAIN h
        BY <3>3, <1>1, <1>2 DEF Merged
      <4>2. h[x].next # e
        BY <4>1, <3>1, <1>1 DEF Linked, prev
      <4>3. h[h[x].next].available
        BY <4>1, <4>2, <3>3, <1>2 DEF Merged
      <4> QED BY <4>1, <4>3 DEF DoublesOnlyAt
    <3>6. ASSUME NEW f \in DOMAIN l, ~l[f].available PROVE f # e /\ Inherited(h, l, f)
      BY <3>6, <3>3, <1>2 DEF Merged, Inherited
    <3> QED BY <3>1, <3>2, <3>3, <3>4, <3>5, <3>6, <1>1, <1>2 DEF Merged
  <2>2. CASE ~Merges(g, prev)
    <3>1. s = e /\ l = g
      BY <2>2, <1>2 DEF survivor, merge_left
    <3> HIDE DEF l, s
    <3>2. DoublesOnlyAt(g, {e})
      <4> SUFFICES ASSUME NEW x \in DOMAIN g, g[x].available, g[x].next # NULL,
                          g[g[x].next].available, x # e
                   PROVE  FALSE
        BY DEF DoublesOnlyAt
      <4>1. h[x].available /\ h[x].next # NULL /\ h[x].next \in DOMAIN h /\ x \in DOMAIN h
        BY <1>1, <1>2
      <4>2. h[x].next # e
        <5>1. SUFFICES ASSUME h[x].next = e PROVE FALSE
          OBVIOUS
        <5>2. h[e].previous = x
          BY <5>1, <4>1, <1>1 DEF Linked
        <5> QED BY <5>2, <2>2, <4>1, <1>1, <1>2 DEF Merges, NULL
      <4> QED BY <4>1, <4>2, <1>2 DEF DoublesOnlyAt
    <3>3. ASSUME NEW f \in DOMAIN g, ~g[f].available PROVE f # e /\ Inherited(h, g, f)
      BY <3>3, <1>2 DEF Inherited
    <3> QED BY <3>1, <3>2, <3>3, <1>1, <1>2, <1>4
  <2> QED BY <2>1, <2>2
<1>7. r = merge_right(l, s)
  OBVIOUS
<1> HIDE DEF l, s
<1>8. CASE Merges(l, l[s].next)
  <2> DEFINE third == l[s].next
  <2>1. /\ third \in DOMAIN l /\ l[third].available /\ l[third].next # NULL
        /\ third # NULL
    BY <1>6, <1>8, <1>1 DEF Merges, right_stores_to_null
  <2>2. r = merge_entries(l, s, third)
    BY <1>7, <1>8 DEF merge_right
  <2> HIDE DEF third
  <2>3. l[s].next = third
    BY DEF third
  <2>4. Merged(l, s, third, r)
    BY <2>1, <2>2, <2>3, <1>6, MergeFree
  <2>5. DoublesOnlyAt(r, {})
    <3> SUFFICES ASSUME NEW x \in DOMAIN r, r[x].available, r[x].next # NULL,
                        r[r[x].next].available
                 PROVE  FALSE
      BY DEF DoublesOnlyAt
    <3>0. r[x].next \in DOMAIN r
      BY <2>4 DEF Merged, Good, Linked
    <3>1. CASE x = s
      <4>1. r[x].next = l[third].next /\ l[l[third].next].available
        BY <3>1, <3>0, <2>4 DEF Merged
      <4>2. third = s
        BY <4>1, <2>1, <1>6 DEF DoublesOnlyAt
      <4> QED BY <4>2, <2>4 DEF Merged
    <3>2. CASE x # s
      <4>1. l[x].available /\ l[x].next # NULL /\ l[l[x].next].available /\ x \in DOMAIN l
        BY <3>2, <3>0, <2>4 DEF Merged
      <4> QED BY <4>1, <3>2, <1>6 DEF DoublesOnlyAt
    <3> QED BY <3>1, <3>2
  <2>6. ASSUME NEW f \in DOMAIN r, ~r[f].available PROVE f # e /\ Inherited(h, r, f)
    BY <2>6, <2>4, <1>6 DEF Merged, Inherited
  <2> QED BY <2>4, <2>5, <2>6, <1>5, <1>6 DEF Merged
<1>9. CASE ~Merges(l, l[s].next)
  <2>1. r = l
    BY <1>7, <1>9 DEF merge_right
  <2>2. DoublesOnlyAt(l, {})
    BY <1>6, <1>9 DEF DoublesOnlyAt, Merges
  <2> QED BY <2>1, <2>2, <1>5, <1>6
<1> QED BY <1>8, <1>9

-----------------------------------------------------------------------------
(* The steps                                                               *)

LEMMA InitIInv == Init => IInv
<1> USE HeapAssumption
<1> SUFFICES ASSUME Init PROVE IInv
  OBVIOUS
<1>1. /\ DOMAIN hdr = {HeapBase}
      /\ hdr[HeapBase].available = TRUE /\ hdr[HeapBase].size = HeapSize - Hdr
      /\ hdr[HeapBase].start = HeapBase + Hdr
      /\ hdr[HeapBase].next = NULL /\ hdr[HeapBase].previous = NULL
      /\ hdr \in [DOMAIN hdr -> Header]
  BY DEF Init, Header, NULL
<1>2. HeapBase \in HeapBase .. HeapEnd /\ HeapEnd = HeapBase + HeapSize
  BY DEF HeapEnd
<1>3. TypeOK
  BY <1>1, <1>2 DEF Init, TypeOK
<1>4. Good(hdr)
  <2>1. HeapOK(hdr) /\ Linked(hdr)
    BY <1>1, <1>2 DEF HeapOK, Linked, NULL
  <2>2. Limit(hdr, HeapBase) = HeapEnd
    BY <1>1 DEF Limit
  <2>3. Exact(hdr) /\ Behind(hdr)
    BY <1>1, <1>2, <2>2 DEF Exact, Behind
  <2> QED BY <2>1, <2>3 DEF Good
<1>5. DoublesOnlyAt(hdr, {})
  BY <1>1 DEF DoublesOnlyAt
<1>6. NoLeak
  BY <1>1 DEF NoLeak
<1> QED BY <1>3, <1>4, <1>5, <1>6 DEF Init, IInv, DistinctBlocks

\* A block kmalloc hands out is of the right type and at a new address.
LEMMA KmallocStep ==
    ASSUME IInv, NEW size \in Sizes, NEW align \in Aligns, kmalloc(size, align)
    PROVE  IInv'
<1> USE HeapAssumption
<1>1. PICK e \in Fits(size, align) :
        /\ Ready
        /\ IF overruns(hdr, e, start_offset(hdr, e, align), size)
           THEN status' = "wild" /\ UNCHANGED <<hdr, blocks>>
           ELSE /\ hdr' = alloc_entry(hdr, e, start_offset(hdr, e, align), size)
                /\ blocks' = blocks \cup
                     {[ptr |-> hdr[e].start + start_offset(hdr, e, align),
                       size |-> size, align |-> align]}
                /\ UNCHANGED status
        /\ UNCHANGED locked
  BY DEF kmalloc
<1> DEFINE offset == start_offset(hdr, e, align)
           c == [ptr |-> hdr[e].start + offset, size |-> size, align |-> align]
<1>2. /\ e \in DOMAIN hdr /\ hdr[e].available /\ hdr[e] \in Header
      /\ size \in Nat /\ align \in Nat \ {0} /\ Good(hdr) /\ DoublesOnlyAt(hdr, {})
      /\ hdr[e].size >= size + start_offset(hdr, e, align)
  BY DEF Fits, IInv, TypeOK
<1>3. offset \in Nat /\ offset < align /\ size + offset <= hdr[e].size
  <2>1. hdr[e].start \in Nat /\ hdr[e].size \in Nat
    BY <1>2 DEF Header
  <2> DEFINE a == next_aligned_addr(hdr[e].start, align)
  <2>2. a \in Nat /\ hdr[e].start <= a /\ a < hdr[e].start + align
    BY <2>1, <1>2, Aligned
  <2>3. offset = a - hdr[e].start
    BY DEF start_offset
  <2> HIDE DEF a
  <2> QED BY <2>1, <2>2, <2>3, <1>2
<1> HIDE DEF offset
<1>4. CASE overruns(hdr, e, offset, size)
  <2>1. status' = "wild" /\ UNCHANGED <<hdr, blocks, locked>>
    BY <1>1, <1>4 DEF offset
  <2> QED BY <2>1 DEF IInv, TypeOK, Good, HeapOK, Linked, Exact, Behind, Limit,
                      DoublesOnlyAt, Owned, OwnedAt, DistinctBlocks, NoLeak
<1>5. CASE ~overruns(hdr, e, offset, size)
  <2>1. /\ hdr' = alloc_entry(hdr, e, offset, size)
        /\ blocks' = blocks \cup {c}
        /\ UNCHANGED <<status, locked>>
    BY <1>1, <1>5 DEF offset
  <2>2. c.ptr = hdr[e].start + offset /\ c.size = size /\ c.align = align
    OBVIOUS
  <2>3. c \in Block
    BY <1>2, <1>3 DEF Header, Block
  <2> HIDE DEF c
  <2>4. /\ Good(hdr') /\ DoublesOnlyAt(hdr', {})
        /\ Owned(hdr', c)
        /\ \A b : Owned(hdr, b) => Owned(hdr', b)
        /\ \A f \in DOMAIN hdr' :
              ~hdr'[f].available => hdr'[f].start = c.ptr \/ Inherited(hdr, hdr', f)
    BY <1>2, <1>3, <1>5, <2>1, <2>2, AllocEntry
  <2>5. \A b \in blocks : b.ptr # c.ptr
    <3> SUFFICES ASSUME NEW b \in blocks PROVE b.ptr # c.ptr
      OBVIOUS
    <3>1. PICK f \in DOMAIN hdr : OwnedAt(hdr, b, f)
      BY DEF IInv, Owned
    <3>2. /\ f # e /\ hdr[f].start = b.ptr /\ f + Hdr <= b.ptr
          /\ b.ptr + b.size <= Limit(hdr, f) /\ b.ptr \in Nat /\ b.size \in Nat
      BY <3>1, <1>2 DEF OwnedAt, Good, Behind, IInv, TypeOK, Block
    <3>3. /\ hdr[e].start = e + Hdr /\ c.ptr <= Limit(hdr, e)
          /\ e + Hdr <= c.ptr /\ c.ptr \in Nat
      BY <1>2, <1>3, <2>2, LimitBeforeNext DEF Good, Exact, Header
    <3>4. /\ e \in Nat /\ f \in Nat /\ Limit(hdr, e) \in Nat /\ Limit(hdr, f) \in Nat
          /\ e < f => Limit(hdr, e) <= f
          /\ f < e => Limit(hdr, f) <= e
      BY <1>2, LimitBeforeNext DEF Good
    <3> QED BY <3>2, <3>3, <3>4
  <2>6. DistinctBlocks(blocks')
    BY <2>1, <2>5 DEF DistinctBlocks, IInv
  <2>7. \A b \in blocks' : Owned(hdr', b)
    BY <2>1, <2>4 DEF IInv
  <2>8. TypeOK'
    BY <2>1, <2>3, <2>4 DEF TypeOK, Good, HeapOK, IInv
  <2>9. NoLeak'
    BY <2>1, <2>4 DEF NoLeak, Inherited, IInv
  <2> QED BY <2>4, <2>6, <2>7, <2>8, <2>9 DEF IInv
<1> QED BY <1>4, <1>5

\* kfree finds the header of a small-aligned block only if its size is right.
LEMMA FoundIsExact ==
    ASSUME IInv, SmallFreeAligns, NEW p \in Freeable \cup FreedBefore, Allocated(p)
    PROVE  /\ p - Hdr \in DOMAIN hdr /\ ~hdr[p - Hdr].available
           /\ p \in Nat /\ (p - Hdr) + Hdr = p
           /\ hdr[p - Hdr].start = p
           /\ hdr[p - Hdr].start + hdr[p - Hdr].size = Limit(hdr, p - Hdr)
<1> USE HeapAssumption
<1> DEFINE e == p - Hdr
<1>1. /\ e \in DOMAIN hdr /\ ~hdr[e].available /\ Good(hdr) /\ e \in Nat
  BY LimitBeforeNext DEF Allocated, IInv, Good
<1>2. p \in Nat
  <2>1. CASE p \in Freeable
    BY <2>1 DEF Freeable, IInv, TypeOK, Block
  <2>2. CASE p \in FreedBefore
    BY <2>2, <1>1 DEF FreedBefore, Good, HeapOK, Header
  <2> QED BY <2>1, <2>2
<1>3. e + Hdr = p
  BY <1>2
<1> HIDE DEF e
<1>4. p \notin FreedBefore
  <2> SUFFICES ASSUME NEW f \in DOMAIN hdr, hdr[f].available, p = hdr[f].start
               PROVE  FALSE
    BY DEF FreedBefore
  <2>1. p = f + Hdr /\ f \in Nat
    BY <1>1, LimitBeforeNext DEF Good, Exact
  <2>2. f = e
    BY <2>1, <1>1, <1>3
  <2> QED BY <2>2, <1>1
<1>5. PICK b \in blocks : b.ptr = p /\ b.align \in FreeAligns
  BY <1>4 DEF Freeable
<1>6. PICK f \in DOMAIN hdr : OwnedAt(hdr, b, f)
  BY DEF IInv, Owned
<1>7. /\ f \in Nat /\ f + Hdr <= p /\ p <= Limit(hdr, f) /\ Limit(hdr, f) \in Nat
      /\ f < e => Limit(hdr, f) <= e
  BY <1>1, <1>5, <1>6, LimitBeforeNext
     DEF OwnedAt, Good, Behind, IInv, TypeOK, Block
<1>8. f = e
  BY <1>7, <1>1, <1>3
<1>9. b.align <= 4 * Hdr /\ b.ptr = f + Hdr
  BY <1>3, <1>5, <1>8 DEF SmallFreeAligns
<1>10. hdr[e].start = p /\ p + hdr[e].size = Limit(hdr, e)
  BY <1>5, <1>6, <1>8, <1>9 DEF OwnedAt
<1> QED BY <1>1, <1>2, <1>3, <1>10 DEF e

\* Giving up a pointer only removes a block.
LEMMA GiveUpBlocks ==
    ASSUME IInv, NEW p, GiveUp(p)
    PROVE  /\ blocks' \subseteq blocks /\ blocks' \subseteq Block
           /\ \A b \in blocks' : b.ptr # p /\ Owned(hdr, b)
           /\ DistinctBlocks(blocks')
BY DEF GiveUp, IInv, TypeOK, DistinctBlocks

\* Without a change to the list only the entry in front of p loses its owner.
LEMMA OthersStay ==
    ASSUME IInv, NEW p, status = "ok", UNCHANGED hdr, GiveUp(p),
           \A f \in DOMAIN hdr : ~hdr[f].available /\ hdr[f].size # 0 => f + Hdr # p
    PROVE  NoLeak'
BY DEF IInv, NoLeak, GiveUp

LEMMA KfreeStep ==
    ASSUME IInv, SmallFreeAligns, NEW p \in Freeable \cup FreedBefore, kfree(p)
    PROVE  IInv'
<1> USE HeapAssumption
<1>1. ASSUME UNCHANGED hdr, GiveUp(p), status' \in {"ok", "panic", "wild"},
             UNCHANGED locked, NoLeak'
      PROVE  IInv'
  <2>1. TypeOK'
    BY <1>1, GiveUpBlocks DEF TypeOK, IInv
  <2>2. Good(hdr') /\ DoublesOnlyAt(hdr', {})
    BY <1>1 DEF IInv
  <2>3. (\A b \in blocks' : Owned(hdr', b)) /\ DistinctBlocks(blocks')
    BY <1>1, GiveUpBlocks
  <2> QED BY <2>1, <2>2, <2>3, <1>1 DEF IInv
<1>2. CASE kfree_ignored(p)
  <2>1. ASSUME NEW f \in DOMAIN hdr, ~hdr[f].available, hdr[f].size # 0
        PROVE  f + Hdr # p
    BY <2>1, <1>2, LimitBeforeNext DEF kfree_ignored, IInv, Good
  <2>2. NoLeak'
    BY <2>1, <1>2, OthersStay DEF kfree_ignored, Ready
  <2> QED BY <2>2, <1>1, <1>2 DEF kfree_ignored, IInv, TypeOK
<1>3. CASE kfree_displaced(p)
  <2>1. ASSUME NEW f \in DOMAIN hdr PROVE f + Hdr # p
    BY <2>1, <1>3, LimitBeforeNext DEF kfree_displaced, IInv, Good
  <2>2. NoLeak'
    BY <2>1, <1>3, OthersStay DEF kfree_displaced, Ready
  <2> QED BY <2>2, <1>1, <1>3 DEF kfree_displaced, IInv, TypeOK
<1>4. ASSUME NEW nl \in BOOLEAN, kfree_astray(p, nl) PROVE IInv'
  BY <1>1, <1>4 DEF kfree_astray, NoLeak
<1>5. ASSUME NEW nl \in BOOLEAN, kfree_merged(p, nl) PROVE IInv'
  <2> DEFINE e == p - Hdr
  <2>1. /\ Allocated(p) /\ ~left_stores_to_null(hdr, e)
        /\ ~right_stores_to_null(hdr, e)
        /\ hdr' = merge_right(merge_left(mark_free(hdr, e), e),
                              survivor(mark_free(hdr, e), e))
        /\ GiveUp(p) /\ UNCHANGED <<locked, status>>
    BY <1>5 DEF kfree_merged
  <2>2. /\ e \in DOMAIN hdr /\ ~hdr[e].available /\ e + Hdr = p
        /\ hdr[e].start = e + Hdr
        /\ hdr[e].start + hdr[e].size = Limit(hdr, e)
    BY <2>1, FoundIsExact
  <2>3. /\ Good(hdr') /\ DoublesOnlyAt(hdr', {})
        /\ \A b : Owned(hdr, b) /\ b.ptr # e + Hdr => Owned(hdr', b)
        /\ \A f \in DOMAIN hdr' : ~hdr'[f].available => f # e /\ Inherited(hdr, hdr', f)
    <3> HIDE DEF e
    <3> QED BY <2>1, <2>2, FreeEntry DEF IInv
  <2>4. (\A b \in blocks' : Owned(hdr', b)) /\ DistinctBlocks(blocks')
    BY <2>1, <2>2, <2>3, GiveUpBlocks
  <2>5. TypeOK'
    BY <2>1, <2>3, GiveUpBlocks DEF TypeOK, Good, HeapOK, IInv
  <2>6. NoLeak'
    <3> SUFFICES ASSUME NEW f \in DOMAIN hdr', ~hdr'[f].available, hdr'[f].size # 0,
                        hdr'[f].start = f + Hdr
                 PROVE  \E b \in blocks' : b.ptr = hdr'[f].start
      BY DEF NoLeak
    <3>1. /\ f \in DOMAIN hdr /\ f # e /\ ~hdr[f].available
          /\ hdr'[f].size = hdr[f].size /\ hdr'[f].start = hdr[f].start
      BY <2>3 DEF Inherited
    <3>2. PICK b \in blocks : b.ptr = hdr[f].start
      BY <3>1, <1>5 DEF kfree_merged, Ready, IInv, NoLeak
    <3>3. f \in Nat /\ e \in Nat
      BY <3>1, <2>2, LimitBeforeNext DEF IInv, Good
    <3>4. b.ptr # p
      BY <3>1, <3>2, <3>3, <2>2
    <3> QED BY <3>1, <3>2, <3>4, <2>1 DEF GiveUp
  <2> QED BY <2>3, <2>4, <2>5, <2>6 DEF IInv
<1> QED BY <1>2, <1>3, <1>4, <1>5 DEF kfree

-----------------------------------------------------------------------------
(* The theorems                                                            *)

\* Every step keeps the invariant.
LEMMA NextIInv == SmallFreeAligns /\ IInv /\ [Next]_vars => IInv'
<1> SUFFICES ASSUME SmallFreeAligns, IInv, [Next]_vars PROVE IInv'
  OBVIOUS
<1>1. ASSUME NEW size \in Sizes, NEW align \in Aligns, kmalloc(size, align)
      PROVE  IInv'
  BY <1>1, KmallocStep
<1>2. ASSUME UNCHANGED vars PROVE IInv'
  BY <1>2 DEF vars, IInv, TypeOK, Good, HeapOK, Linked, Exact, Behind, Limit,
              DoublesOnlyAt, Owned, OwnedAt, DistinctBlocks, NoLeak
<1>3. ASSUME NEW size \in Sizes, NEW align \in Aligns, kmalloc_fails(size, align)
      PROVE  IInv'
  BY <1>2, <1>3 DEF kmalloc_fails
<1>4. ASSUME NEW p \in Freeable \cup FreedBefore, kfree(p) PROVE IInv'
  BY <1>4, KfreeStep
<1>5. CASE kfree_null
  BY <1>5 DEF kfree_null, IInv, TypeOK, Good, HeapOK, Linked, Exact, Behind, Limit,
              DoublesOnlyAt, Owned, OwnedAt, DistinctBlocks, NoLeak
<1> QED BY <1>1, <1>2, <1>3, <1>4, <1>5 DEF Next

\* The invariant holds in every reachable state, whatever the sizes and
\* alignments, if the blocks given back have small alignments.
THEOREM Invariance == SmallFreeAligns => (Spec => []IInv)
<1>1. SUFFICES ASSUME SmallFreeAligns PROVE Spec => []IInv
  OBVIOUS
<1>2. IInv /\ [Next]_vars => IInv'
  BY <1>1, NextIInv
<1> QED BY <1>2, InitIInv, PTL DEF Spec

\* The variables keep their types: in particular no size is ever negative.
THEOREM TypeCorrect == SmallFreeAligns => (Spec => []TypeOK)
BY Invariance, PTL DEF IInv

\* The list stays doubly linked, complete and in address order through every
\* split and merge.
THEOREM ListCorrect == SmallFreeAligns => (Spec => []ListLinked)
<1>1. IInv => ListLinked
  BY DEF IInv, Good, ListLinked
<1> QED BY <1>1, Invariance, PTL

\* Free entries fill the space up to their successor.
THEOREM FreeExactness == SmallFreeAligns => (Spec => []FreeExact)
<1>1. IInv => FreeExact
  BY DEF IInv, Good, Exact, FreeExact
<1> QED BY <1>1, Invariance, PTL

\* kfree leaves no two free entries in a row.
THEOREM Coalescing == SmallFreeAligns => (Spec => []Coalesced)
<1>1. IInv => Coalesced
  BY DEF IInv, DoublesOnlyAt, Coalesced
<1> QED BY <1>1, Invariance, PTL

\* An allocated entry that kfree would take back is always in some caller's hands.
THEOREM NoLeaks == SmallFreeAligns => (Spec => []NoLeak)
BY Invariance, PTL DEF IInv

\* The bytes of one caller overlap neither those of another nor a header.
LEMMA Disjointness == IInv => BlocksDisjoint
<1> USE HeapAssumption
<1> SUFFICES ASSUME IInv, NEW b \in blocks
             PROVE  /\ HeapBase + Hdr <= b.ptr /\ b.ptr + b.size <= HeapEnd
                    /\ \A e \in DOMAIN hdr : b.ptr + b.size <= e \/ e + Hdr <= b.ptr
                    /\ \A c \in blocks :
                         c = b \/ (c.ptr # b.ptr /\
                           (b.ptr + b.size <= c.ptr \/ c.ptr + c.size <= b.ptr))
  BY DEF BlocksDisjoint
<1>1. PICK f \in DOMAIN hdr : OwnedAt(hdr, b, f)
  BY DEF IInv, Owned
<1>2. /\ f \in Nat /\ HeapBase <= f /\ Limit(hdr, f) \in Nat
      /\ Limit(hdr, f) <= HeapEnd /\ HeapEnd \in Nat
      /\ b.ptr \in Nat /\ b.size \in Nat /\ f + Hdr <= b.ptr
      /\ b.ptr + b.size <= Limit(hdr, f) /\ HeapBase \in Nat /\ Hdr \in Nat
  BY <1>1, LimitBeforeNext DEF OwnedAt, IInv, Good, Behind, TypeOK, Block, HeapEnd
<1>3. ASSUME NEW e \in DOMAIN hdr PROVE b.ptr + b.size <= e \/ e + Hdr <= b.ptr
  <2>1. /\ e \in Nat
        /\ f < e => Limit(hdr, f) <= e
        /\ e < f => Limit(hdr, e) <= f /\ Limit(hdr, e) \in Nat
    BY <1>3, LimitBeforeNext DEF IInv, Good
  <2>2. e + Hdr <= Limit(hdr, e)
    BY DEF IInv, Good, Behind
  <2> QED BY <2>1, <2>2, <1>2
<1>4. ASSUME NEW c \in blocks, c # b
      PROVE  /\ c.ptr # b.ptr
             /\ b.ptr + b.size <= c.ptr \/ c.ptr + c.size <= b.ptr
  <2>1. c.ptr # b.ptr
    BY <1>4 DEF IInv, DistinctBlocks
  <2>2. PICK g \in DOMAIN hdr : OwnedAt(hdr, c, g)
    BY DEF IInv, Owned
  <2>3. /\ g \in Nat /\ Limit(hdr, g) \in Nat
        /\ c.ptr \in Nat /\ c.size \in Nat /\ g + Hdr <= c.ptr
        /\ c.ptr + c.size <= Limit(hdr, g)
        /\ f < g => Limit(hdr, f) <= g
        /\ g < f => Limit(hdr, g) <= f
    BY <2>2, LimitBeforeNext DEF OwnedAt, IInv, Good, Behind, TypeOK, Block
  <2>4. f # g
    BY <2>1, <2>2, <1>1 DEF OwnedAt
  <2> QED BY <2>1, <2>3, <2>4, <1>2
<1> QED BY <1>2, <1>3, <1>4

\* No caller's bytes overlap another caller's bytes or the heap's own headers.
THEOREM Disjoint == SmallFreeAligns => (Spec => []BlocksDisjoint)
BY Disjointness, Invariance, PTL

\* A block given up is released in the abstract allocator.
LEMMA GiveUpRefines ==
    ASSUME IInv, BlocksDisjoint, NEW p, GiveUp(p)
    PROVE  [Abstract!Next]_blocks
<1> USE HeapAssumption
<1>1. CASE \A b \in blocks : b.ptr # p
  BY <1>1 DEF GiveUp
<1>2. CASE \E b \in blocks : b.ptr = p
  <2>1. PICK b \in blocks : b.ptr = p
    BY <1>2
  <2>2. blocks' = blocks \ {b}
    BY <2>1 DEF GiveUp, IInv, DistinctBlocks
  <2>3. b \in [ptr : HeapBase + Hdr .. HeapEnd, size : Sizes, align : Aligns]
    BY <2>1 DEF BlocksDisjoint, IInv, TypeOK, Block, HeapEnd
  <2>4. Abstract!Release(b)
    BY <2>1, <2>2 DEF Abstract!Release
  <2> QED BY <2>3, <2>4 DEF Abstract!Next
<1> QED BY <1>1, <1>2

\* A block handed out is a legal allocation: it is aligned, inside the arena
\* and apart from all others.
LEMMA KmallocRefines ==
    ASSUME IInv, BlocksDisjoint', IInv',
           NEW size \in Sizes, NEW align \in Aligns, kmalloc(size, align)
    PROVE  [Abstract!Next]_blocks
<1> USE HeapAssumption
<1>1. PICK e \in Fits(size, align) :
        \/ UNCHANGED blocks
        \/ blocks' = blocks \cup
                     {[ptr |-> hdr[e].start + start_offset(hdr, e, align),
                       size |-> size, align |-> align]}
  BY DEF kmalloc
<1>2. CASE UNCHANGED blocks
  BY <1>2
<1> DEFINE c == [ptr |-> hdr[e].start + start_offset(hdr, e, align),
                 size |-> size, align |-> align]
<1>3. CASE blocks' = blocks \cup {c} /\ c \notin blocks
  <2>1. hdr[e].start \in Nat /\ align \in Nat \ {0} /\ size \in Nat
    BY DEF Fits, IInv, TypeOK, Header
  <2>2. c.ptr % c.align = 0
    <3> DEFINE a == next_aligned_addr(hdr[e].start, align)
    <3>1. a \in Nat /\ hdr[e].start <= a /\ a % align = 0
      BY <2>1, Aligned
    <3>2. c.ptr = hdr[e].start + (a - hdr[e].start) /\ c.align = align
      BY DEF start_offset
    <3> HIDE DEF a, c
    <3> QED BY <3>1, <3>2, <2>1
  <2>3. /\ c \in blocks' /\ c.size = size /\ c.align = align /\ c.ptr \in Nat
    <3>1. c \in blocks' /\ c.size = size /\ c.align = align
      BY <1>3
    <3>2. c \in Block
      BY <3>1 DEF IInv, TypeOK
    <3> QED BY <3>1, <3>2 DEF Block
  <2> HIDE DEF c
  <2>4. /\ HeapBase + Hdr <= c.ptr /\ c.ptr + c.size <= HeapEnd
        /\ \A b \in blocks : c.ptr # b.ptr /\ Abstract!Apart(c.ptr, c.size, b.ptr, b.size)
    BY <1>3, <2>3 DEF BlocksDisjoint, Abstract!Apart
  <2>5. c \in [ptr : HeapBase + Hdr .. HeapEnd, size : Sizes, align : Aligns]
    BY <2>1, <2>3, <2>4 DEF IInv, TypeOK, Block, HeapEnd
  <2>6. Abstract!Allocate(c)
    BY <1>3, <2>2, <2>4 DEF Abstract!Allocate
  <2> QED BY <2>5, <2>6 DEF Abstract!Next
<1>4. CASE blocks' = blocks \cup {c} /\ c \in blocks
  BY <1>4
<1> QED BY <1>1, <1>2, <1>3, <1>4

\* The first-fit list implements the allocator it is meant to be.
THEOREM Implements == SmallFreeAligns => (Spec => ImplementsAllocator)
<1>1. SUFFICES ASSUME SmallFreeAligns PROVE Spec => ImplementsAllocator
  OBVIOUS
<1>2. Init => Abstract!Init
  BY DEF Init, Abstract!Init
<1>3. IInv /\ IInv' /\ [Next]_vars => [Abstract!Next]_blocks
  <2> SUFFICES ASSUME IInv, IInv', [Next]_vars PROVE [Abstract!Next]_blocks
    OBVIOUS
  <2>1. BlocksDisjoint /\ BlocksDisjoint'
    <3>1. BlocksDisjoint
      BY Disjointness
    <3>2. BlocksDisjoint'
      BY Disjointness, PTL
    <3> QED BY <3>1, <3>2
  <2>2. ASSUME NEW size \in Sizes, NEW align \in Aligns, kmalloc(size, align)
        PROVE  [Abstract!Next]_blocks
    BY <2>1, <2>2, KmallocRefines
  <2>3. ASSUME NEW p, kfree(p) PROVE [Abstract!Next]_blocks
    <3>1. GiveUp(p)
      BY <2>3 DEF kfree, kfree_ignored, kfree_displaced, kfree_merged, kfree_astray
    <3> QED BY <3>1, <2>1, GiveUpRefines
  <2> QED BY <2>2, <2>3 DEF Next, vars, kmalloc_fails, kfree_null
<1>4. Spec => []IInv
  BY <1>1, Invariance
<1> QED BY <1>2, <1>3, <1>4, PTL DEF Spec, ImplementsAllocator, Abstract!Spec
=============================================================================
