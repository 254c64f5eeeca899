---------------------------- MODULE Paging_proofs ----------------------------
(***************************************************************************)
(* The processor finds every page where mm_map was last asked to put it,   *)
(* and ref_count is the number of references, for any number of entries,   *)
(* spaces, tables and frames.                                              *)
(*                                                                         *)
(* No two entries of any two directories share a page table (Own), and the *)
(* two arrays of a space name the same tables (Linked); then writing one   *)
(* page table entry changes the mapping of one page of one space.          *)
(***************************************************************************)
EXTENDS Paging, FiniteSetTheorems, TLAPS

Entry == Nat \cup {NULL}
Space(T) == [page_dir : HeapPages, ptr_table : HeapPages, dir : [Slots -> Entry],
             tables : [Slots -> T \cup {NULL, Garbage}]]

\* Spaces M with page tables T on the used pages u, and the mappings A.
Types(M, T, u, A) ==
    /\ DOMAIN T \subseteq u /\ u \subseteq HeapPages
    /\ T \in [DOMAIN T -> [Slots -> Entry]]
    /\ DOMAIN M \subseteq Spaces /\ M \in [DOMAIN M -> Space(DOMAIN T)]
    /\ A \in [DOMAIN M -> [Pages -> Entry]]

\* Directories and tables are pages of their own.
Own(M, T, u) ==
    /\ \A s \in DOMAIN M : M[s].page_dir \in u \ DOMAIN T
    /\ \A s, r \in DOMAIN M : M[s].page_dir = M[r].page_dir => s = r
    /\ \A s, r \in DOMAIN M : \A d, e \in Slots :
          M[s].tables[d] \in DOMAIN T /\ M[s].tables[d] = M[r].tables[e] => s = r /\ d = e

\* The directory and page_tables name the same tables.
Linked(M, T) == \A s \in DOMAIN M :
    /\ M[s].ptr_table = M[s].page_dir
    /\ \A d \in Slots : M[s].dir[d] = IF M[s].tables[d] \in DOMAIN T
                                      THEN M[s].tables[d] ELSE NULL

\* What the tables of m say of the page p.
Says(m, T, p) == IF m.tables[p \div Entries] \in DOMAIN T
                 THEN T[m.tables[p \div Entries]][p % Entries] ELSE NULL

Holds(M, T, A) == \A s \in DOMAIN M : \A p \in Pages : A[s][p] = Says(M[s], T, p)

Sound(M, T, u, A) == Types(M, T, u, A) /\ Own(M, T, u) /\ Linked(M, T) /\ Holds(M, T, A)

PInv ==
    /\ Sound(mm, pt, used, asked)
    /\ current_mm = NULL => DOMAIN mm = {} /\ used = {}
    /\ current_mm # NULL => /\ current_mm = Default /\ Default \in DOMAIN mm
                            /\ \A p \in 0 .. KernelPages - 1 : asked[Default][p] = p

-----------------------------------------------------------------------------
(* Pages and their places                                                  *)

LEMMA PlaceOf ==
    ASSUME NEW p \in Pages
    PROVE  p \div Entries \in Slots /\ p % Entries \in Slots
BY PagingAssumption DEF Pages, Slots

LEMMA OnePage ==
    ASSUME NEW p \in Nat, NEW q \in Nat,
           p \div Entries = q \div Entries, p % Entries = q % Entries
    PROVE  p = q
BY PagingAssumption

\* The pages of the early heap are mapped by the first entries of the first
\* table, also where mm_physical splits addresses wrongly.
LEMMA LowPage ==
    ASSUME NEW h \in HeapPages
    PROVE  /\ h \in Slots /\ h \in Pages /\ h \in 0 .. KernelPages - 1
           /\ h \div Entries = 0 /\ h % Entries = h
           /\ h \div (2 * Entries) = 0 /\ h % (2 * Entries) = h
           /\ h # NULL /\ h # Garbage
<1>1. h \in Nat /\ h < Entries /\ h < KernelPages /\ Entries \in Nat \ {0}
      /\ h \in Slots /\ h \in Int /\ NULL \notin Nat /\ Garbage \notin Nat
  BY PagingAssumption DEF Slots
<1>2. KernelPages \in Nat
  BY PagingAssumption DEF KernelPages, PageCount
<1>3. Entries <= Entries * Entries
  BY <1>1
<1>4. h \div Entries = 0 /\ h % Entries = h
      /\ h \div (2 * Entries) = 0 /\ h % (2 * Entries) = h
  BY <1>1
<1> QED BY <1>1, <1>2, <1>3, <1>4 DEF Pages

\* So mm_physical is right for them.
LEMMA Physical ==
    ASSUME PInv, NEW h \in HeapPages
    PROVE  mm_physical(current_mm, h) = h
<1>1. CASE current_mm = NULL
  BY <1>1 DEF mm_physical
<1>2. CASE current_mm # NULL
  <2>1. current_mm = Default /\ Default \in DOMAIN mm
    BY <1>2 DEF PInv
  <2>2. asked[Default][h] = h /\ h # NULL /\ h \in Slots /\ 0 \in Slots
    BY <1>2, LowPage, PagingAssumption DEF PInv, Slots
  <2>3. Says(mm[Default], pt, h) = h
    BY <2>1, <2>2, LowPage DEF PInv, Sound, Holds
  <2>4. /\ mm[Default].tables[0] \in DOMAIN pt
        /\ pt[mm[Default].tables[0]][h] = h
    BY <2>2, <2>3, LowPage DEF Says
  <2> QED BY <1>2, <2>1, <2>2, <2>4, LowPage DEF mm_physical
<1> QED BY <1>1, <1>2

-----------------------------------------------------------------------------
(* One call of mm_map on the space m                                       *)

\* m is a space of its own, in itself.
Proper(m, T) ==
    /\ m \in Space(DOMAIN T)
    /\ m.ptr_table = m.page_dir
    /\ \A d \in Slots : m.dir[d] = IF m.tables[d] \in DOMAIN T THEN m.tables[d] ELSE NULL
    /\ \A d, e \in Slots : m.tables[d] \in DOMAIN T /\ m.tables[d] = m.tables[e] => d = e

\* m2 is m with the tables at, and T the tables in memory with them.
TabledAs(m, P, at, m2, T) ==
    /\ Proper(m2, T) /\ m2.page_dir = m.page_dir
    /\ DOMAIN T = DOMAIN pt \cup {at[d] : d \in DOMAIN at}
    /\ T \in [DOMAIN T -> [Slots -> Entry]]
    /\ \A t \in DOMAIN pt : T[t] = pt[t]
    /\ \A d \in Slots : m2.tables[d] = IF d \in Missing(m, P) THEN at[d] ELSE m.tables[d]
    /\ \A p \in Pages : Says(m2, T, p) = Says(m, pt, p)
    /\ DOMAIN at = Missing(m, P)
    /\ \A d \in DOMAIN at : at[d] \in HeapPages \ used

\* New tables in the arrays of m.
LEMMA Tabled ==
    ASSUME PInv, NEW m, Proper(m, pt), NEW P \in SUBSET Pages,
           NEW free \in SUBSET (HeapPages \ used), NEW at \in Places(Missing(m, P), free),
           NEW m2, m2 = get_pt_entry(m, at, current_mm), NEW T, T = cleared(at)
    PROVE  TabledAs(m, P, at, m2, T)
<1> DEFINE D == Missing(m, P)
<1>1. /\ D \subseteq Slots /\ DOMAIN at = D
      /\ \A d \in D : at[d] \in HeapPages \ used /\ m.tables[d] = NULL
      /\ \A d, e \in D : at[d] = at[e] => d = e
  BY PlaceOf DEF Places, Missing
<1>2. /\ DOMAIN pt \subseteq used /\ used \subseteq HeapPages
      /\ \A t \in DOMAIN pt : pt[t] \in [Slots -> Entry]
  BY DEF PInv, Sound, Types
<1>3. \A h \in HeapPages : h # NULL /\ h # Garbage /\ h \in Entry
      /\ mm_physical(current_mm, h) = h
  BY LowPage, Physical DEF Entry, Pages
<1>4. /\ m.page_dir \in HeapPages /\ m.ptr_table = m.page_dir
      /\ m.dir \in [Slots -> Entry]
      /\ \A d \in Slots : m.tables[d] \in DOMAIN pt \cup {NULL, Garbage}
      /\ \A d \in Slots : m.dir[d] = IF m.tables[d] \in DOMAIN pt THEN m.tables[d] ELSE NULL
      /\ \A d, e \in Slots : m.tables[d] \in DOMAIN pt /\ m.tables[d] = m.tables[e] => d = e
  BY DEF Proper, Space
<1>5. /\ m2.page_dir = m.page_dir /\ m2.ptr_table = m.ptr_table
      /\ m2.dir = [d \in Slots |-> IF d \in D THEN mm_physical(current_mm, at[d]) ELSE m.dir[d]]
      /\ m2.tables = [d \in Slots |-> IF d \in D THEN at[d] ELSE m.tables[d]]
      /\ m2 = [page_dir |-> m2.page_dir, ptr_table |-> m2.ptr_table, dir |-> m2.dir,
               tables |-> m2.tables]
  BY <1>1 DEF get_pt_entry
<1>6. /\ DOMAIN T = DOMAIN pt \cup {at[d] : d \in D}
      /\ \A t \in DOMAIN pt : T[t] = pt[t]
      /\ \A t \in {at[d] : d \in D} : t \notin DOMAIN pt /\ T[t] = [e \in Slots |-> NULL]
      /\ T \in [DOMAIN T -> [Slots -> Entry]]
  <2>1. T = [t \in DOMAIN pt \cup {at[d] : d \in D} |->
               IF t \in DOMAIN pt THEN pt[t] ELSE [e \in Slots |-> NULL]]
    BY <1>1 DEF cleared
  <2>2. \A t \in {at[d] : d \in D} : t \notin DOMAIN pt
    BY <1>1, <1>2
  <2>3. [e \in Slots |-> NULL] \in [Slots -> Entry]
    BY DEF Entry
  <2> QED BY <2>1, <2>2, <2>3, <1>2
<1> HIDE DEF D
<1>7. \A d \in Slots : /\ d \in D => m2.dir[d] = at[d] /\ m2.tables[d] = at[d]
                       /\ d \notin D => m2.dir[d] = m.dir[d] /\ m2.tables[d] = m.tables[d]
  BY <1>5, <1>1, <1>3
<1>8. Proper(m2, T)
  <2>1. m2.dir \in [Slots -> Entry]
    BY <1>5, <1>1, <1>3, <1>4
  <2>2. m2.tables \in [Slots -> DOMAIN T \cup {NULL, Garbage}]
    BY <1>5, <1>1, <1>4, <1>6
  <2>3. m2 \in Space(DOMAIN T)
    BY <2>1, <2>2, <1>4, <1>5 DEF Space
  <2>4. \A d \in Slots : m2.dir[d] = IF m2.tables[d] \in DOMAIN T THEN m2.tables[d] ELSE NULL
    BY <1>1, <1>3, <1>4, <1>6, <1>7
  <2>5. \A d, e \in Slots : m2.tables[d] \in DOMAIN T /\ m2.tables[d] = m2.tables[e] => d = e
    <3> TAKE d, e \in Slots
    <3>1. CASE d \in D /\ e \in D
      BY <3>1, <1>1, <1>7
    <3>2. CASE d \notin D /\ e \notin D
      BY <3>2, <1>1, <1>2, <1>3, <1>4, <1>6, <1>7
    <3>3. CASE d \in D /\ e \notin D
      BY <3>3, <1>1, <1>2, <1>3, <1>4, <1>7
    <3>4. CASE d \notin D /\ e \in D
      BY <3>4, <1>1, <1>2, <1>3, <1>4, <1>7
    <3> QED BY <3>1, <3>2, <3>3, <3>4
  <2> QED BY <2>3, <2>4, <2>5, <1>4, <1>5 DEF Proper
<1>9. \A p \in Pages : Says(m2, T, p) = Says(m, pt, p)
  <2> TAKE p \in Pages
  <2>1. p \div Entries \in Slots /\ p % Entries \in Slots
    BY PlaceOf
  <2>2. CASE p \div Entries \in D
    BY <2>1, <2>2, <1>1, <1>2, <1>3, <1>6, <1>7 DEF Says
  <2>3. CASE p \div Entries \notin D
    BY <2>1, <2>3, <1>1, <1>2, <1>3, <1>4, <1>6, <1>7 DEF Says
  <2> QED BY <2>2, <2>3
<1>10. \A d \in Slots : m2.tables[d] = IF d \in D THEN at[d] ELSE m.tables[d]
  BY <1>7
<1> QED BY <1>1, <1>5, <1>6, <1>8, <1>9, <1>10 DEF TabledAs, D

\* U holds the frames from frame on for the pages P of m, and T for the others.
WrittenAs(m, T, P, first, frame, U) ==
    /\ DOMAIN U = DOMAIN T /\ U \in [DOMAIN T -> [Slots -> Entry]]
    /\ \A p \in Pages : Says(m, U, p) = IF p \in P THEN frame + (p - first)
                                        ELSE Says(m, T, p)
    /\ \A t \in DOMAIN T : (\A d \in Slots : m.tables[d] # t) => U[t] = T[t]

\* The pages P in the tables T of m.
LEMMA Written ==
    ASSUME NEW T, NEW m, Proper(m, T), T \in [DOMAIN T -> [Slots -> Entry]],
           NEW P \in SUBSET Pages, NEW first \in Nat, NEW frame \in Nat,
           \A p \in P : first <= p /\ m.tables[p \div Entries] \in DOMAIN T,
           NEW U, U = map_pages(T, m, P, first, frame)
    PROVE  WrittenAs(m, T, P, first, frame, U)
<1> DEFINE At(t, e) == {p \in P : m.tables[p \div Entries] = t /\ p % Entries = e}
           New(t, e) == IF At(t, e) = {} THEN T[t][e]
                        ELSE frame + ((CHOOSE p \in At(t, e) : TRUE) - first)
<1>1. U = [t \in DOMAIN T |-> [e \in Slots |-> New(t, e)]]
  BY DEF map_pages
<1>2. ASSUME NEW t, NEW e PROVE At(t, e) # {} => (CHOOSE p \in At(t, e) : TRUE) \in At(t, e)
  OBVIOUS
<1>3. \A p \in P : p \in Nat /\ first <= p /\ frame + (p - first) \in Entry
  BY DEF Pages, Entry
<1>4. \A t \in DOMAIN T, e \in Slots : New(t, e) \in Entry
  <2> TAKE t \in DOMAIN T, e \in Slots
  <2>1. CASE At(t, e) = {}
    BY <2>1
  <2>2. CASE At(t, e) # {}
    <3> DEFINE p == CHOOSE q \in At(t, e) : TRUE
    <3>1. p \in P
      BY <1>2, <2>2
    <3> QED BY <2>2, <3>1, <1>3
  <2> QED BY <2>1, <2>2
<1>5. /\ \A d, e \in Slots : m.tables[d] \in DOMAIN T /\ m.tables[d] = m.tables[e] => d = e
  BY DEF Proper
<1>6. \A p \in Pages : m.tables[p \div Entries] \in DOMAIN T =>
        At(m.tables[p \div Entries], p % Entries) = IF p \in P THEN {p} ELSE {}
  <2> SUFFICES ASSUME NEW p \in Pages, m.tables[p \div Entries] \in DOMAIN T,
                      NEW q \in P, m.tables[q \div Entries] = m.tables[p \div Entries],
                      q % Entries = p % Entries
               PROVE  q = p
    OBVIOUS
  <2>1. q \div Entries = p \div Entries
    BY PlaceOf, <1>5
  <2> QED BY <2>1, OnePage DEF Pages
<1> HIDE DEF At
<1>7. \A p \in Pages : Says(m, U, p) = IF p \in P THEN frame + (p - first) ELSE Says(m, T, p)
  <2> TAKE p \in Pages
  <2>1. p \div Entries \in Slots /\ p % Entries \in Slots
    BY PlaceOf
  <2>2. CASE m.tables[p \div Entries] \notin DOMAIN T
    BY <2>2, <1>1 DEF Says
  <2>3. CASE m.tables[p \div Entries] \in DOMAIN T
    <3> DEFINE t == m.tables[p \div Entries]
    <3>1. U[t][p % Entries] = New(t, p % Entries)
      BY <1>1, <2>1, <2>3
    <3>2. At(t, p % Entries) = IF p \in P THEN {p} ELSE {}
      BY <1>6, <2>3
    <3>3. New(t, p % Entries) = IF p \in P THEN frame + (p - first) ELSE T[t][p % Entries]
      BY <3>2
    <3>4. DOMAIN U = DOMAIN T
      BY <1>1
    <3> QED BY <2>3, <3>1, <3>3, <3>4 DEF Says
  <2> QED BY <2>2, <2>3
<1>8. \A t \in DOMAIN T : (\A d \in Slots : m.tables[d] # t) => U[t] = T[t]
  <2> SUFFICES ASSUME NEW t \in DOMAIN T, \A d \in Slots : m.tables[d] # t PROVE U[t] = T[t]
    OBVIOUS
  <2>1. \A e \in Slots : At(t, e) = {}
    BY PlaceOf DEF At
  <2>2. \A e \in Slots : New(t, e) = T[t][e]
    BY <2>1
  <2> HIDE DEF New
  <2>3. U[t] = [e \in Slots |-> New(t, e)]
    BY <1>1
  <2>4. [e \in Slots |-> New(t, e)] = [e \in Slots |-> T[t][e]]
    BY <2>2
  <2>5. T[t] = [e \in Slots |-> T[t][e]]
    <3>1. T[t] \in [Slots -> Entry]
      OBVIOUS
    <3> QED BY <3>1
  <2> QED BY <2>3, <2>4, <2>5
<1>9. DOMAIN U = DOMAIN T /\ U \in [DOMAIN T -> [Slots -> Entry]]
  <2> HIDE DEF New
  <2>1. \A t \in DOMAIN T : [e \in Slots |-> New(t, e)] \in [Slots -> Entry]
    BY <1>4
  <2> QED BY <1>1, <2>1
<1> QED BY <1>7, <1>8, <1>9 DEF WrittenAs

-----------------------------------------------------------------------------
(* Calls keep the spaces sound                                             *)

\* mk_mmap: a new space s with its directory at an unused page h.
LEMMA Made ==
    ASSUME NEW M, NEW T, NEW u, NEW A, Sound(M, T, u, A),
           NEW s \in Spaces, s \notin DOMAIN M, NEW h \in HeapPages \ u,
           NEW tables \in page_tables,
           NEW N, NEW B,
           N = [x \in DOMAIN M \cup {s} |-> IF x = s THEN new_space(h, tables) ELSE M[x]],
           B = [x \in DOMAIN M \cup {s} |-> IF x = s THEN Nothing ELSE A[x]]
    PROVE  Sound(N, T, u \cup {h}, B)
<1>1. /\ DOMAIN T \subseteq u /\ u \subseteq HeapPages /\ h \notin DOMAIN T
      /\ T \in [DOMAIN T -> [Slots -> Entry]] /\ DOMAIN M \subseteq Spaces
      /\ \A x \in DOMAIN M : M[x] \in Space(DOMAIN T) /\ A[x] \in [Pages -> Entry]
  BY DEF Sound, Types
<1>2. \A g \in HeapPages : g # NULL /\ g # Garbage
  BY LowPage
<1>3. /\ new_space(h, tables).page_dir = h /\ new_space(h, tables).ptr_table = h
      /\ new_space(h, tables).dir = [d \in Slots |-> NULL]
      /\ new_space(h, tables).tables = tables
      /\ \A d \in Slots : tables[d] \in {NULL, Garbage} /\ tables[d] \notin DOMAIN T
  BY <1>1, <1>2 DEF new_space, page_tables
<1>4. new_space(h, tables) \in Space(DOMAIN T)
  BY <1>3 DEF new_space, page_tables, Space, Entry
<1>5. Nothing \in [Pages -> Entry] /\ \A p \in Pages : Nothing[p] = NULL
  BY DEF Nothing, Entry
<1>6. /\ DOMAIN N = DOMAIN M \cup {s} /\ DOMAIN B = DOMAIN N
      /\ N[s] = new_space(h, tables) /\ B[s] = Nothing
      /\ \A x \in DOMAIN M : x # s /\ N[x] = M[x] /\ B[x] = A[x]
  BY DEF Sound, Types
<1>7. Types(N, T, u \cup {h}, B)
  BY <1>1, <1>4, <1>5, <1>6 DEF Types
<1>8. Own(N, T, u \cup {h})
  BY <1>1, <1>3, <1>6 DEF Sound, Own
<1>9. Linked(N, T)
  BY <1>3, <1>6 DEF Sound, Linked
<1>10. Holds(N, T, B)
  <2>1. \A p \in Pages : Says(N[s], T, p) = NULL
    BY <1>3, <1>6, PlaceOf DEF Says
  <2> QED BY <1>5, <1>6, <2>1 DEF Sound, Holds
<1> QED BY <1>7, <1>8, <1>9, <1>10 DEF Sound

\* The call c on the space s, with new tables at, takes the spaces M to N.
Remaps(M, u, A, s, c, at, N, U, v, B) ==
    /\ map_fits(M[s], VirtPages(c), HeapPages \ u)
    /\ at \in Places(Missing(M[s], VirtPages(c)), HeapPages \ u)
    /\ N = [x \in DOMAIN M |-> IF x = s THEN get_pt_entry(M[s], at, current_mm) ELSE M[x]]
    /\ U = map_pages(cleared(at), get_pt_entry(M[s], at, current_mm), VirtPages(c),
                     c.virt \div PageSize, c.phys \div PageSize)
    /\ v = u \cup {at[d] : d \in DOMAIN at}
    /\ B = [x \in DOMAIN M |-> IF x = s THEN Remembered(A[s], c) ELSE A[x]]

\* mm_map keeps all spaces sound.
LEMMA Remapped ==
    ASSUME PInv, NEW M, NEW u, NEW A, Sound(M, pt, u, A), used \subseteq u,
           NEW s \in DOMAIN M, NEW c \in [virt : Nat, phys : Nat, n : Nat],
           NEW at, NEW N, NEW U, NEW v, NEW B, Remaps(M, u, A, s, c, at, N, U, v, B)
    PROVE  Sound(N, U, v, B)
<1> DEFINE P == VirtPages(c)
           first == c.virt \div PageSize
           frame == c.phys \div PageSize
           T == cleared(at)
           m == M[s]
           m2 == get_pt_entry(m, at, current_mm)
           free == HeapPages \ u
<1>1. /\ DOMAIN pt \subseteq u /\ u \subseteq HeapPages
      /\ pt \in [DOMAIN pt -> [Slots -> Entry]] /\ DOMAIN M \subseteq Spaces
      /\ \A x \in DOMAIN M : M[x] \in Space(DOMAIN pt) /\ A[x] \in [Pages -> Entry]
  BY DEF Sound, Types
<1>2. first \in Nat /\ frame \in Nat
  BY PagingAssumption
<1>3. /\ P \in SUBSET Pages
      /\ \A p \in P : first <= p
      /\ \A p \in P : m.tables[p \div Entries] # Garbage
  BY <1>2 DEF Remaps, map_fits, VirtPages, Pages
<1>4. Proper(m, pt)
  BY DEF Proper, Sound, Types, Own, Linked
<1>5. free \in SUBSET (HeapPages \ used) /\ at \in Places(Missing(m, P), free)
  BY DEF Remaps
<1>call. /\ N = [x \in DOMAIN M |-> IF x = s THEN m2 ELSE M[x]]
      /\ U = map_pages(T, m2, P, first, frame)
      /\ v = u \cup {at[d] : d \in DOMAIN at}
      /\ B = [x \in DOMAIN M |-> IF x = s THEN Remembered(A[s], c) ELSE A[x]]
      /\ m2 = get_pt_entry(m, at, current_mm) /\ T = cleared(at)
  BY DEF Remaps
<1> HIDE DEF P, first, frame, T, m, m2, free
<1>6. /\ Proper(m2, T) /\ m2.page_dir = m.page_dir
      /\ DOMAIN T = DOMAIN pt \cup {at[d] : d \in DOMAIN at}
      /\ T \in [DOMAIN T -> [Slots -> Entry]]
      /\ \A t \in DOMAIN pt : T[t] = pt[t]
      /\ \A d \in Slots : m2.tables[d] = IF d \in Missing(m, P) THEN at[d] ELSE m.tables[d]
      /\ \A p \in Pages : Says(m2, T, p) = Says(m, pt, p)
      /\ DOMAIN at = Missing(m, P)
  <2>2. TabledAs(m, P, at, m2, T)
    BY <1>call, <1>3, <1>4, <1>5, Tabled
  <2> QED BY <2>2 DEF TabledAs
<1>7. \A d \in DOMAIN at : at[d] \in free
  BY <1>5, <1>6 DEF Places
<1>8. \A p \in P : first <= p /\ m2.tables[p \div Entries] \in DOMAIN T
  <2> TAKE p \in P
  <2>1. p \div Entries \in Slots
    BY <1>3, PlaceOf
  <2>2. CASE p \div Entries \in Missing(m, P)
    BY <2>1, <2>2, <1>3, <1>6
  <2>3. CASE p \div Entries \notin Missing(m, P)
    <3>1. m.tables[p \div Entries] # NULL
      BY <2>3 DEF Missing
    <3>2. m.tables[p \div Entries] \in DOMAIN pt \cup {NULL, Garbage}
      BY <1>4, <2>1 DEF Proper, Space
    <3> QED BY <2>1, <2>3, <3>1, <3>2, <1>3, <1>6
  <2> QED BY <2>2, <2>3
<1>9. /\ DOMAIN U = DOMAIN T /\ U \in [DOMAIN T -> [Slots -> Entry]]
      /\ \A p \in Pages : Says(m2, U, p) = IF p \in P THEN frame + (p - first)
                                           ELSE Says(m2, T, p)
      /\ \A t \in DOMAIN T : (\A d \in Slots : m2.tables[d] # t) => U[t] = T[t]
  <2>2. WrittenAs(m2, T, P, first, frame, U)
    BY <1>call, <1>2, <1>3, <1>6, <1>8, Written
  <2> QED BY <2>2 DEF WrittenAs
<1>10. \A h \in HeapPages : h # NULL /\ h # Garbage
  BY LowPage
\* The tables of another space are neither new nor written.
<1>11. ASSUME NEW r \in DOMAIN M, r # s, NEW d \in Slots
       PROVE  /\ M[r].tables[d] \in DOMAIN pt \cup {NULL, Garbage}
              /\ M[r].tables[d] \in DOMAIN T <=> M[r].tables[d] \in DOMAIN pt
              /\ M[r].tables[d] \in DOMAIN pt =>
                    /\ \A e \in Slots : m2.tables[e] # M[r].tables[d]
                    /\ U[M[r].tables[d]] = pt[M[r].tables[d]]
  <2>1. M[r].tables[d] \in DOMAIN pt \cup {NULL, Garbage}
    BY <1>1 DEF Space
  <2>2. \A e \in DOMAIN at : at[e] \notin DOMAIN pt /\ at[e] # NULL /\ at[e] # Garbage
    BY <1>1, <1>7, <1>10 DEF free
  <2>3. M[r].tables[d] \in DOMAIN T <=> M[r].tables[d] \in DOMAIN pt
    BY <2>1, <2>2, <1>6
  <2>4. ASSUME M[r].tables[d] \in DOMAIN pt, NEW e \in Slots
        PROVE  m2.tables[e] # M[r].tables[d]
    <3>1. m.tables[e] # M[r].tables[d]
      BY <2>4, <1>11 DEF Sound, Own, m
    <3> QED BY <2>2, <2>4, <3>1, <1>6
  <2> QED BY <2>1, <2>3, <2>4, <1>6, <1>9
<1>12. /\ DOMAIN N = DOMAIN M /\ N[s] = m2 /\ B[s] = Remembered(A[s], c)
       /\ DOMAIN B = DOMAIN M
       /\ \A x \in DOMAIN M : x # s => N[x] = M[x] /\ B[x] = A[x]
  BY <1>call
<1>13. /\ Remembered(A[s], c) \in [Pages -> Entry]
       /\ \A p \in Pages : Remembered(A[s], c)[p] = IF p \in P THEN frame + (p - first)
                                                    ELSE A[s][p]
  <2>1. \A p \in P : p \in Nat /\ frame + (p - first) \in Entry
    BY <1>2, <1>3, <1>8 DEF Pages, Entry
  <2>2. Remembered(A[s], c) =
           [p \in Pages |-> IF p \in P THEN frame + (p - first) ELSE A[s][p]]
    BY DEF Remembered, P, first, frame
  <2> QED BY <1>1, <2>1, <2>2
<1>14. DOMAIN U = DOMAIN pt \cup {at[d] : d \in DOMAIN at}
       /\ {at[d] : d \in DOMAIN at} \subseteq HeapPages \ u
  BY <1>6, <1>7, <1>9 DEF free
<1>15. Types(N, U, v, B)
  <2>1. \A x \in DOMAIN N : N[x] \in Space(DOMAIN U)
    <3> TAKE x \in DOMAIN N
    <3>1. CASE x = s
      BY <3>1, <1>6, <1>9, <1>12 DEF Proper
    <3>2. CASE x # s
      <4>1. M[x] \in Space(DOMAIN pt) /\ N[x] = M[x]
        BY <3>2, <1>1, <1>12
      <4> QED BY <4>1, <1>14 DEF Space
    <3> QED BY <3>1, <3>2
  <2>2. \A x \in DOMAIN N : B[x] \in [Pages -> Entry]
    BY <1>1, <1>12, <1>13
  <2> QED BY <2>1, <2>2, <1>1, <1>9, <1>12, <1>14, <1>call DEF Types
<1>16. Own(N, U, v)
  <2>1. /\ \A x \in DOMAIN M : M[x].page_dir \in u \ DOMAIN pt
        /\ \A x, r \in DOMAIN M : M[x].page_dir = M[r].page_dir => x = r
        /\ \A x, r \in DOMAIN M : \A d, e \in Slots :
            M[x].tables[d] \in DOMAIN pt /\ M[x].tables[d] = M[r].tables[e] => x = r /\ d = e
    BY DEF Sound, Own
  <2>2. \A x \in DOMAIN N : N[x].page_dir = M[x].page_dir
    BY <1>6, <1>12 DEF m
  <2>3. \A x \in DOMAIN N : N[x].page_dir \in v \ DOMAIN U
    BY <2>1, <2>2, <1>12, <1>14, <1>call
  <2>4. \A x, r \in DOMAIN N : N[x].page_dir = N[r].page_dir => x = r
    BY <2>1, <2>2, <1>12
  <2>5. ASSUME NEW x \in DOMAIN N, NEW r \in DOMAIN N, NEW d \in Slots, NEW e \in Slots,
               N[x].tables[d] \in DOMAIN U, N[x].tables[d] = N[r].tables[e]
        PROVE  x = r /\ d = e
    <3>1. CASE x = s /\ r = s
      BY <3>1, <2>5, <1>6, <1>9, <1>12 DEF Proper
    <3>2. CASE x # s /\ r # s
      BY <3>2, <2>1, <2>5, <1>9, <1>11, <1>12
    <3>3. CASE x = s /\ r # s
      BY <3>3, <2>5, <1>9, <1>11, <1>12
    <3>4. CASE x # s /\ r = s
      BY <3>4, <2>5, <1>9, <1>11, <1>12
    <3> QED BY <3>1, <3>2, <3>3, <3>4
  <2> QED BY <2>3, <2>4, <2>5 DEF Own
<1>17. Linked(N, U)
  <2>1. CASE TRUE
    <3>1. m2.ptr_table = m2.page_dir
          /\ \A d \in Slots : m2.dir[d] = IF m2.tables[d] \in DOMAIN U THEN m2.tables[d] ELSE NULL
      BY <1>6, <1>9 DEF Proper
    <3>2. ASSUME NEW x \in DOMAIN M, x # s, NEW d \in Slots
          PROVE  M[x].dir[d] = IF M[x].tables[d] \in DOMAIN U THEN M[x].tables[d] ELSE NULL
      BY <3>2, <1>9, <1>11 DEF Sound, Linked
    <3>3. \A x \in DOMAIN M : M[x].ptr_table = M[x].page_dir
      BY DEF Sound, Linked
    <3> QED BY <3>1, <3>2, <3>3, <1>12 DEF Linked
  <2> QED BY <2>1
<1>18. Holds(N, U, B)
  <2>1. ASSUME NEW p \in Pages PROVE B[s][p] = Says(m2, U, p)
    <3>1. A[s][p] = Says(m, pt, p)
      BY DEF Sound, Holds, m
    <3> QED BY <3>1, <1>6, <1>9, <1>12, <1>13
  <2>2. ASSUME NEW x \in DOMAIN M, x # s, NEW p \in Pages PROVE B[x][p] = Says(M[x], U, p)
    <3>1. A[x][p] = Says(M[x], pt, p) /\ p \div Entries \in Slots
      BY PlaceOf DEF Sound, Holds
    <3>2. Says(M[x], U, p) = Says(M[x], pt, p)
      BY <2>2, <3>1, <1>9, <1>11 DEF Says
    <3> QED BY <2>2, <3>1, <3>2, <1>12
  <2> QED BY <2>1, <2>2, <1>12 DEF Holds
<1> QED BY <1>15, <1>16, <1>17, <1>18 DEF Sound

-----------------------------------------------------------------------------
(* The invariant                                                           *)

LEMMA InitInv == Init => PInv
BY DEF Init, PInv, Sound, Types, Own, Linked, Holds

\* Calls of mm_map leave the kernel's pages alone.
LEMMA AboveKernel ==
    ASSUME NEW c \in MapCalls
    PROVE  /\ c \in [virt : Nat, phys : Nat, n : Nat]
           /\ \A p \in VirtPages(c) : p \notin 0 .. KernelPages - 1
<1>1. c \in [virt : Nat, phys : Nat, n : Nat] /\ c.virt >= KernelPages * PageSize
      /\ PageSize \in Nat \ {0}
  BY PagingAssumption
<1>2. KernelPages \in Nat
  BY PagingAssumption DEF KernelPages, PageCount
<1>3. c.virt \div PageSize >= KernelPages /\ c.virt \div PageSize \in Nat
  BY <1>1, <1>2
<1> QED BY <1>1, <1>2, <1>3 DEF VirtPages

\* The kernel's own call maps every page of the kernel to itself.
LEMMA KernelCall ==
    ASSUME NEW call, call = [virt |-> 0, phys |-> 0, n |-> BssEnd]
    PROVE  /\ call \in [virt : Nat, phys : Nat, n : Nat]
           /\ call.virt \div PageSize = 0 /\ call.phys \div PageSize = 0
           /\ VirtPages(call) = 0 .. KernelPages - 1
           /\ VirtPages(call) \subseteq Pages
           /\ \A p \in VirtPages(call) : Remembered(Nothing, call)[p] = p
<1>1. BssEnd \in Nat /\ PageSize \in Nat \ {0} /\ Entries \in Nat \ {0}
      /\ KernelPages <= Entries * Entries
  BY PagingAssumption
<1>2. call.virt = 0 /\ call.phys = 0 /\ call.n = BssEnd
  OBVIOUS
<1>3. 0 \div PageSize = 0
  BY <1>1
<1>4. KernelPages \in Nat
  BY <1>1 DEF KernelPages, PageCount
<1>5. VirtPages(call) = 0 .. KernelPages - 1
  BY <1>2, <1>3, <1>4 DEF VirtPages, KernelPages
<1>6. VirtPages(call) \subseteq Pages
  BY <1>1, <1>4, <1>5 DEF Pages
<1>7. ASSUME NEW p \in VirtPages(call) PROVE Remembered(Nothing, call)[p] = p
  BY <1>2, <1>3, <1>4, <1>5, <1>6 DEF Remembered
<1> QED BY <1>1, <1>2, <1>3, <1>5, <1>6, <1>7

\* mm_map keeps the invariant.
LEMMA MapStep ==
    ASSUME PInv, NEW s \in Spaces, NEW c \in MapCalls, mm_map(s, c)
    PROVE  PInv'
<1> DEFINE P == VirtPages(c)
           free == HeapPages \ used
<1>1. /\ s \in DOMAIN mm /\ map_fits(mm[s], P, free)
      /\ asked' = [asked EXCEPT ![s] = Remembered(@, c)] /\ current_mm' = current_mm
  BY DEF mm_map
<1>2. PICK at \in Places(Missing(mm[s], P), free) :
        /\ mm' = [mm EXCEPT ![s] = get_pt_entry(mm[s], at, current_mm)]
        /\ pt' = map_pages(cleared(at), get_pt_entry(mm[s], at, current_mm), P,
                           c.virt \div PageSize, c.phys \div PageSize)
        /\ used' = used \cup {at[d] : d \in DOMAIN at}
  BY DEF mm_map
<1>3. c \in [virt : Nat, phys : Nat, n : Nat] /\ \A p \in P : p \notin 0 .. KernelPages - 1
  BY AboveKernel
<1>4. Sound(mm, pt, used, asked) /\ DOMAIN asked = DOMAIN mm
      /\ mm = [x \in DOMAIN mm |-> mm[x]] /\ asked = [x \in DOMAIN mm |-> asked[x]]
  BY DEF PInv, Sound, Types
<1>5. /\ mm' = [x \in DOMAIN mm |-> IF x = s THEN get_pt_entry(mm[s], at, current_mm) ELSE mm[x]]
      /\ asked' = [x \in DOMAIN mm |-> IF x = s THEN Remembered(asked[s], c) ELSE asked[x]]
  BY <1>1, <1>2, <1>4
<1>6. Sound(mm', pt', used', asked')
  <2>1. Remaps(mm, used, asked, s, c, at, mm', pt', used', asked')
    BY <1>1, <1>2, <1>5 DEF Remaps
  <2> QED BY <1>1, <1>3, <1>4, <2>1, Remapped
<1>7. ASSUME current_mm # NULL
      PROVE  /\ current_mm = Default /\ Default \in DOMAIN mm'
             /\ \A p \in 0 .. KernelPages - 1 : asked'[Default][p] = p
  <2>1. /\ current_mm = Default /\ Default \in DOMAIN mm
        /\ \A p \in 0 .. KernelPages - 1 : asked[Default][p] = p
    BY <1>7 DEF PInv
  <2>2. \A p \in 0 .. KernelPages - 1 : p \in Pages
    BY PagingAssumption DEF Pages, KernelPages, PageCount
  <2>3. \A p \in 0 .. KernelPages - 1 : Remembered(asked[s], c)[p] = asked[s][p]
    BY <1>3, <2>2 DEF Remembered
  <2> QED BY <1>5, <2>1, <2>3
<1>8. current_mm # NULL
  BY <1>1 DEF PInv
<1> QED BY <1>1, <1>6, <1>7, <1>8 DEF PInv

\* setup_paging establishes what it promises of the kernel's pages.
LEMMA SetupStep ==
    ASSUME PInv, setup_paging, status' = "ok"
    PROVE  PInv'
<1> DEFINE call == [virt |-> 0, phys |-> 0, n |-> BssEnd]
           P == VirtPages(call)
<1>1. PICK h \in HeapPages, tables \in page_tables :
        /\ map_fits(new_space(h, tables), P, HeapPages \ {h})
        /\ \E at \in Places(Missing(new_space(h, tables), P), HeapPages \ {h}) :
             LET m == get_pt_entry(new_space(h, tables), at, current_mm)
             IN  /\ mm' = [s \in {Default} |-> m]
                 /\ pt' = map_pages(cleared(at), m, P, 0, 0)
                 /\ used' = {h} \cup {at[i] : i \in DOMAIN at}
        /\ current_mm' = Default
        /\ asked' = [s \in {Default} |-> Remembered(Nothing, call)]
  BY DEF setup_paging, Wild
<1>2. PICK at \in Places(Missing(new_space(h, tables), P), HeapPages \ {h}) :
        LET m == get_pt_entry(new_space(h, tables), at, current_mm)
        IN  /\ mm' = [s \in {Default} |-> m]
            /\ pt' = map_pages(cleared(at), m, P, 0, 0)
            /\ used' = {h} \cup {at[i] : i \in DOMAIN at}
  BY <1>1
<1>3. DOMAIN mm = {} /\ used = {} /\ Sound(mm, pt, used, asked) /\ Default \in Spaces
  BY PagingAssumption DEF setup_paging, PInv
<1>4. /\ call \in [virt : Nat, phys : Nat, n : Nat]
      /\ call.virt \div PageSize = 0 /\ call.phys \div PageSize = 0
      /\ \A p \in 0 .. KernelPages - 1 : Remembered(Nothing, call)[p] = p
  BY KernelCall
<1> DEFINE N == [x \in {Default} |-> new_space(h, tables)]
           B == [x \in {Default} |-> Nothing]
<1>5. Sound(N, pt, {h}, B)
  <2>1. N = [x \in DOMAIN mm \cup {Default} |-> IF x = Default THEN new_space(h, tables) ELSE mm[x]]
    BY <1>3
  <2>2. B = [x \in DOMAIN mm \cup {Default} |-> IF x = Default THEN Nothing ELSE asked[x]]
    BY <1>3
  <2>3. h \in HeapPages \ used /\ used \cup {h} = {h} /\ Default \notin DOMAIN mm
    BY <1>3
  <2> HIDE DEF N, B
  <2>4. Sound(N, pt, used \cup {h}, B)
    BY <1>3, <2>1, <2>2, <2>3, Made
  <2> QED BY <2>3, <2>4
<1>6. Sound(mm', pt', used', asked')
  <2>1. DOMAIN N = {Default} /\ N[Default] = new_space(h, tables) /\ B[Default] = Nothing
    OBVIOUS
  <2> HIDE DEF N, B, call
  <2>2. mm' = [x \in DOMAIN N |-> IF x = Default THEN get_pt_entry(N[Default], at, current_mm)
                                  ELSE N[x]]
    BY <1>2, <2>1
  <2>3. asked' = [x \in DOMAIN N |-> IF x = Default THEN Remembered(B[Default], call) ELSE B[x]]
    BY <1>1, <2>1
  <2>4. pt' = map_pages(cleared(at), get_pt_entry(N[Default], at, current_mm), VirtPages(call),
                        call.virt \div PageSize, call.phys \div PageSize)
    BY <1>2, <1>4, <2>1
  <2>5. Remaps(N, {h}, B, Default, call, at, mm', pt', used', asked')
    BY <1>1, <1>2, <2>1, <2>2, <2>3, <2>4 DEF Remaps
  <2>6. used \subseteq {h} /\ Default \in DOMAIN N
    BY <1>3, <2>1
  <2> QED BY <1>4, <1>5, <2>5, <2>6, Remapped
<1>7. DOMAIN mm' = {Default} /\ asked'[Default] = Remembered(Nothing, call)
  BY <1>1, <1>2
<1>8. Default # NULL
  BY PagingAssumption
<1> QED BY <1>1, <1>4, <1>6, <1>7, <1>8 DEF PInv

LEMMA StepInv == PInv /\ [Next]_vars => PInv'
<1> SUFFICES ASSUME PInv, [Next]_vars PROVE PInv'
  OBVIOUS
<1>1. CASE UNCHANGED <<mm, pt, used, current_mm, asked>>
  BY <1>1 DEF PInv, Sound, Types, Own, Linked, Holds, Says
<1>2. CASE setup_paging
  <2>1. CASE status' = "ok"
    BY <1>2, <2>1, SetupStep
  <2>2. CASE status' # "ok"
    BY <1>1, <1>2, <2>2 DEF setup_paging, Wild
  <2> QED BY <2>1, <2>2
<1>3. ASSUME NEW s \in Spaces, mk_mmap(s) PROVE PInv'
  <2>1. PICK h \in HeapPages \ used, tables \in page_tables :
          /\ mm' = [x \in DOMAIN mm \cup {s} |-> IF x = s THEN new_space(h, tables) ELSE mm[x]]
          /\ used' = used \cup {h}
    BY <1>3 DEF mk_mmap
  <2>2. DOMAIN asked = DOMAIN mm /\ Sound(mm, pt, used, asked)
    BY DEF PInv, Sound, Types
  <2>3. /\ current_mm # NULL /\ s \notin DOMAIN mm
        /\ asked' = [x \in DOMAIN mm \cup {s} |-> IF x = s THEN Nothing ELSE asked[x]]
        /\ pt' = pt /\ current_mm' = current_mm
    BY <1>3, <2>2 DEF mk_mmap
  <2>4. Sound(mm', pt', used', asked')
    BY <2>1, <2>2, <2>3, Made
  <2>5. /\ current_mm = Default /\ Default \in DOMAIN mm
        /\ \A p \in 0 .. KernelPages - 1 : asked[Default][p] = p
    BY <2>3 DEF PInv
  <2>6. Default \in DOMAIN mm' /\ asked'[Default] = asked[Default]
    BY <2>1, <2>3, <2>5
  <2> QED BY <2>3, <2>4, <2>5, <2>6 DEF PInv
<1>4. ASSUME NEW s \in Spaces, NEW c \in MapCalls, mm_map(s, c) PROVE PInv'
  BY <1>4, MapStep
<1>5. ASSUME NEW s \in Spaces, NEW c \in MapCalls,
             mm_map_ignored(s, c) \/ mm_map_strays(s, c) \/ mk_mmap_strays(s)
      PROVE  PInv'
  BY <1>1, <1>5 DEF mm_map_ignored, mm_map_strays, mk_mmap_strays, Wild, vars
<1>6. ASSUME NEW s \in Spaces, mk_mmap_strays(s) PROVE PInv'
  BY <1>1, <1>6 DEF mk_mmap_strays, Wild
<1>7. CASE setup_paging_panics \/ get_free_page \/ get_free_page_strays
           \/ (\E a \in 0 .. Frames * PageSize - 1 : alloc_page(a))
           \/ (\E f \in 0 .. Frames - 1 : release_page(f)) \/ UNCHANGED vars
  BY <1>1, <1>7 DEF setup_paging_panics, get_free_page, get_free_page_strays, alloc_page,
                    release_page, Wild, vars
<1> QED BY <1>2, <1>3, <1>4, <1>5, <1>6, <1>7 DEF Next

LEMMA Invariance == Spec => []PInv
BY InitInv, StepInv, PTL DEF Spec

\* In a sound system the processor and the callers agree.
LEMMA WalkAgrees ==
    ASSUME PInv, current_mm # NULL, NEW s \in DOMAIN mm, NEW p \in Pages
    PROVE  Walk(s, p) = asked[s][p]
<1>1. /\ DOMAIN pt \subseteq HeapPages /\ mm[s].page_dir \in HeapPages
      /\ mm[s].ptr_table = mm[s].page_dir
      /\ mm[s].dir[p \div Entries] = IF mm[s].tables[p \div Entries] \in DOMAIN pt
                                     THEN mm[s].tables[p \div Entries] ELSE NULL
      /\ asked[s][p] = Says(mm[s], pt, p)
  BY PlaceOf DEF PInv, Sound, Types, Own, Linked, Holds
<1>2. \A h \in HeapPages : asked[current_mm][h] = h /\ h # NULL
  BY LowPage DEF PInv
<1>3. \A h \in HeapPages : Behind(h) = {h}
  BY <1>2 DEF Behind
<1>4. Behind(NULL) = {}
  BY <1>2 DEF Behind
<1>5. \E h \in Behind(mm[s].ptr_table) : h = mm[s].page_dir
  BY <1>1, <1>3
<1>6. CASE mm[s].tables[p \div Entries] \in DOMAIN pt
  <2>1. Behind(mm[s].dir[p \div Entries]) \cap DOMAIN pt = {mm[s].tables[p \div Entries]}
    BY <1>1, <1>3, <1>6
  <2> QED BY <1>1, <1>5, <1>6, <2>1 DEF Walk, Says
<1>7. CASE mm[s].tables[p \div Entries] \notin DOMAIN pt
  BY <1>1, <1>4, <1>5, <1>7 DEF Walk, Says
<1> QED BY <1>6, <1>7

\* The processor finds every page where mm_map was last asked to put it: the
\* two tables that get_pt_entry keeps of each space never part.
THEOREM Agreement == Spec => []HardwareAgrees
<1>1. PInv => HardwareAgrees
  BY WalkAgrees DEF HardwareAgrees
<1> QED BY <1>1, Invariance, PTL

\* Once setup_paging has applied the first space, the kernel is mapped to
\* itself and stays so, whatever mm_map is asked for above it.
THEOREM KernelStays == Spec => []KernelMapped
<1>1. PInv => KernelMapped
  <2> SUFFICES ASSUME PInv, current_mm # NULL, NEW p \in 0 .. KernelPages - 1
               PROVE  Walk(current_mm, p) = p
    BY DEF KernelMapped
  <2>1. p \in Pages
    BY PagingAssumption DEF Pages, KernelPages, PageCount
  <2>2. current_mm \in DOMAIN mm /\ asked[current_mm][p] = p
    BY DEF PInv
  <2> QED BY <2>1, <2>2, WalkAgrees
<1> QED BY <1>1, Invariance, PTL

-----------------------------------------------------------------------------
(* Reference counts                                                        *)

CInv ==
    /\ refs \in [0 .. Frames - 1 -> 0 .. MaxShare]
    /\ pframes \in [0 .. Frames - 1 -> 0 .. RefMax - 1]
    /\ current_mm # NULL => pframes = refs
    /\ current_mm = NULL => \A f \in 0 .. Frames - 1 : refs[f] = 0

\* With zeroed memory and fewer sharers than eight bits hold.
LEMMA CountsInv ==
    ASSUME Zeroed, MaxShare < RefMax
    PROVE  Spec => []CInv
<1>1. Init => CInv
  BY PagingAssumption DEF Init, CInv
<1>2. CInv /\ [Next]_vars => CInv'
  <2> SUFFICES ASSUME CInv, [Next]_vars PROVE CInv'
    OBVIOUS
  <2>1. CASE UNCHANGED <<current_mm, pframes, refs>>
    BY <2>1 DEF CInv
  <2>2. CASE setup_paging
    <3>1. CASE Wild
      BY <2>1, <3>1 DEF Wild
    <3>2. CASE ~Wild
      <4>1. PICK counts \in [0 .. Frames - 1 -> {0}] : pframes' = counts
        BY <2>2, <3>2 DEF setup_paging
      <4>2. current_mm' = Default /\ refs' = refs /\ current_mm = NULL
        BY <2>2, <3>2 DEF setup_paging
      <4>3. refs = [f \in 0 .. Frames - 1 |-> 0] /\ counts = [f \in 0 .. Frames - 1 |-> 0]
        BY <4>2 DEF CInv
      <4>4. Default # NULL /\ RefMax \in Nat \ {0}
        BY PagingAssumption
      <4>5. counts \in [0 .. Frames - 1 -> 0 .. RefMax - 1]
        BY <4>4
      <4> QED BY <4>1, <4>2, <4>3, <4>4, <4>5 DEF CInv
    <3> QED BY <3>1, <3>2
  <2>3. ASSUME NEW f \in 0 .. Frames - 1, refs[f] < MaxShare, current_mm # NULL,
               pframes' = counted(pframes, f), refs' = [refs EXCEPT ![f] = @ + 1],
               current_mm' = current_mm
        PROVE  CInv'
    <3>1. MaxShare \in Nat /\ RefMax \in Nat \ {0}
      BY PagingAssumption
    <3>2. refs[f] \in 0 .. MaxShare /\ pframes = refs
      BY <2>3 DEF CInv
    <3>3. (refs[f] + 1) % RefMax = refs[f] + 1
      BY <2>3, <3>1, <3>2
    <3>4. pframes' = [refs EXCEPT ![f] = refs[f] + 1] /\ refs' = [refs EXCEPT ![f] = refs[f] + 1]
      BY <2>3, <3>2, <3>3 DEF counted
    <3>5. refs' \in [0 .. Frames - 1 -> 0 .. MaxShare]
      BY <2>3, <3>1, <3>2, <3>4 DEF CInv
    <3>6. refs' \in [0 .. Frames - 1 -> 0 .. RefMax - 1]
      BY <3>1, <3>5
    <3> QED BY <2>3, <3>4, <3>5, <3>6 DEF CInv
  <2>4. CASE get_free_page
    <3>1. PICK f \in free_frames(pframes) :
            pframes' = counted(pframes, f) /\ refs' = [refs EXCEPT ![f] = @ + 1]
      BY <2>4 DEF get_free_page
    <3>2. f \in 0 .. Frames - 1 /\ current_mm # NULL /\ refs[f] = 0 /\ current_mm' = current_mm
      BY <2>4, <3>1 DEF free_frames, get_free_page, CInv
    <3>3. refs[f] < MaxShare
      BY <3>2, PagingAssumption
    <3> QED BY <2>3, <3>1, <3>2, <3>3
  <2>5. ASSUME NEW a \in 0 .. Frames * PageSize - 1, alloc_page(a) PROVE CInv'
    <3>1. CASE a % PageSize # 0
      BY <2>1, <2>5, <3>1 DEF alloc_page
    <3>2. CASE a % PageSize = 0
      <4>1. a \div PageSize \in 0 .. Frames - 1
        BY PagingAssumption
      <4> QED BY <2>3, <2>5, <3>2, <4>1 DEF alloc_page
    <3> QED BY <3>1, <3>2
  <2>6. ASSUME NEW f \in 0 .. Frames - 1, release_page(f) PROVE CInv'
    <3>1. /\ current_mm # NULL /\ current_mm' = current_mm /\ refs[f] > 0
          /\ pframes' = dropped(pframes, f) /\ refs' = [refs EXCEPT ![f] = @ - 1]
      BY <2>6, PagingAssumption DEF release_page, CInv
    <3>2. pframes = refs
      BY <3>1 DEF CInv
    <3>3. MaxShare \in Nat /\ RefMax \in Nat \ {0} /\ refs \in [0 .. Frames - 1 -> 0 .. MaxShare]
      BY PagingAssumption DEF CInv
    <3>4. pframes' = [refs EXCEPT ![f] = refs[f] - 1] /\ refs' = [refs EXCEPT ![f] = refs[f] - 1]
      <4>1. refs[f] # 0
        BY <3>1, <3>3
      <4> QED BY <3>1, <3>2, <4>1, Zenon DEF dropped
    <3>5. refs' \in [0 .. Frames - 1 -> 0 .. MaxShare]
      BY <3>1, <3>3, <3>4
    <3>6. refs' \in [0 .. Frames - 1 -> 0 .. RefMax - 1]
      BY <3>3, <3>5
    <3> QED BY <3>1, <3>4, <3>5, <3>6 DEF CInv
  <2>7. ASSUME NEW s \in Spaces, NEW c \in MapCalls,
               mk_mmap(s) \/ mm_map(s, c) \/ mm_map_ignored(s, c) \/ mm_map_strays(s, c)
        PROVE  CInv'
    BY <2>1, <2>7 DEF mk_mmap, mm_map, mm_map_ignored, mm_map_strays, Wild, vars
  <2>8. ASSUME NEW s \in Spaces, mk_mmap(s) \/ mk_mmap_strays(s) PROVE CInv'
    BY <2>1, <2>8 DEF mk_mmap, mk_mmap_strays, Wild
  <2>9. CASE setup_paging_panics \/ get_free_page_strays \/ UNCHANGED vars
    BY <2>1, <2>9 DEF setup_paging_panics, get_free_page_strays, Wild, vars
  <2> QED BY <2>2, <2>4, <2>5, <2>6, <2>7, <2>8, <2>9 DEF Next
<1> QED BY <1>1, <1>2, PTL DEF Spec

\* ref_count is the number of references that callers hold.
THEOREM Counts == ASSUME Zeroed, MaxShare < RefMax PROVE Spec => []CountsHold
<1>1. CInv => CountsHold
  BY DEF CInv, CountsHold
<1> QED BY <1>1, CountsInv, PTL

\* get_free_page hands out frames that nobody holds.
THEOREM Freshness == ASSUME Zeroed, MaxShare < RefMax PROVE Spec => FreshFrames
<1>1. CInv /\ [Next]_vars =>
        [get_free_page => \A f \in DOMAIN refs : refs'[f] # refs[f] => refs[f] = 0]_vars
  <2> SUFFICES ASSUME CInv, get_free_page, NEW f \in DOMAIN refs, refs'[f] # refs[f]
               PROVE  refs[f] = 0
    OBVIOUS
  <2>1. PICK g \in free_frames(pframes) : refs' = [refs EXCEPT ![g] = @ + 1]
    BY DEF get_free_page
  <2>2. f = g
    BY <2>1
  <2> QED BY <2>1, <2>2 DEF CInv, free_frames, get_free_page
<1> QED BY <1>1, CountsInv, PTL DEF Spec, FreshFrames

StatusOK == status \in {"ok", "panic", "wild"}

LEMMA Statuses == Spec => []StatusOK
<1>1. Init => StatusOK
  BY DEF Init, StatusOK
<1>2. StatusOK /\ [Next]_vars => StatusOK'
  BY DEF StatusOK, Next, vars, setup_paging, setup_paging_panics, mk_mmap, mk_mmap_strays, mm_map,
         mm_map_ignored, mm_map_strays, get_free_page, get_free_page_strays, alloc_page,
         release_page, Wild
<1> QED BY <1>1, <1>2, PTL DEF Spec

\* Directories, tables and counts keep their types and stay apart.
THEOREM Typing == ASSUME Zeroed, MaxShare < RefMax PROVE Spec => []TypeOK
<1>1. ASSUME PInv, CInv, StatusOK PROVE TypeOK
  <2>1. /\ DOMAIN mm \subseteq Spaces /\ DOMAIN asked = DOMAIN mm
        /\ used \subseteq HeapPages /\ DOMAIN pt \subseteq used
        /\ \A s \in DOMAIN mm : mm[s].page_dir \in used \ DOMAIN pt
        /\ \A s, r \in DOMAIN mm : mm[r].page_dir = mm[s].page_dir => r = s
    BY <1>1 DEF PInv, Sound, Types, Own
  <2>2. \A s \in DOMAIN mm, d \in Slots : mm[s].tables[d] \in DOMAIN pt \cup {NULL, Garbage}
    BY <1>1 DEF PInv, Sound, Types, Space
  <2>3. \A t \in DOMAIN pt, e \in Slots : pt[t][e] \in Nat \cup {NULL}
    BY <1>1 DEF PInv, Sound, Types, Entry
  <2>4. current_mm \in {NULL} \cup DOMAIN mm
    BY <1>1 DEF PInv
  <2> QED BY <1>1, <2>1, <2>2, <2>3, <2>4 DEF TypeOK, CInv, StatusOK
<1> QED BY <1>1, Invariance, CountsInv, Statuses, PTL
=============================================================================
