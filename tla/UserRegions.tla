---------------------------- MODULE UserRegions ----------------------------
(***************************************************************************)
(* The user memory regions of one address space: kernel/memory/mmap.c.     *)
(*                                                                         *)
(* struct mmr_struct is a node of a doubly linked list that starts at      *)
(* mmap->user_regions.  region maps the address of every allocated node to *)
(* its fields (size is end - start, flags are left out).  Nothing in the   *)
(* tree calls these functions yet: callers make, modify and delete regions *)
(* in any order, and do not touch a region after deleting it.              *)
(*                                                                         *)
(* status is "wild" after a store through a NULL or freed neighbour and    *)
(* "panic" after the ASSERT(0) that ends mm_del_region and mm_mod_region   *)
(* in a debug build.  Nothing is modelled from there on.                   *)
(***************************************************************************)
EXTENDS Naturals

CONSTANTS Regions,  \* addresses that kmalloc returns for nodes
          NULL,
          Addrs,    \* bounds of regions
          Debug,    \* built with _DEBUG_: ASSERT panics
          Retry     \* whether a caller goes on with a region that
                    \* mm_mod_region has refused to change

ASSUME RegionsAssumption ==
    /\ NULL \notin Regions
    /\ Addrs \subseteq Nat
    /\ Debug \in BOOLEAN /\ Retry \in BOOLEAN

VARIABLES region,        \* allocated nodes
          user_regions,  \* mmap->user_regions, the first node
          dropped,       \* nodes that were unlinked and not linked again
          status         \* "ok", "panic" or "wild"

vars == <<region, user_regions, dropped, status>>

Range == {r \in Addrs \X Addrs : r[1] < r[2]}
Node == [start : Addrs, end : Addrs,
         prev : Regions \cup {NULL}, next : Regions \cup {NULL}]

Init ==
    /\ region = [r \in {} |-> NULL]
    /\ user_regions = NULL
    /\ dropped = {}
    /\ status = "ok"

-----------------------------------------------------------------------------
(* Walking the list                                                        *)

\* The nodes that a walk from head over next visits: the least set that holds
\* head and the successor of each of its nodes.
Closed(rs, head, S) ==
    /\ head # NULL => head \in S
    /\ \A x \in S \cap DOMAIN rs : rs[x].next # NULL => rs[x].next \in S
Listed(rs, head) ==
    {x \in DOMAIN rs : \A S \in SUBSET Regions : Closed(rs, head, S) => x \in S}

\* Mutant: a new region around an old one is not noticed.
mm_conflicts_ends(rs, head, start, end) ==
    \E r \in Listed(rs, head) :
        \/ start >= rs[r].start /\ start < rs[r].end
        \/ end > rs[r].start /\ end <= rs[r].end

mm_conflicts(rs, head, start, end) ==
    \E r \in Listed(rs, head) :
        \/ start >= rs[r].start /\ start < rs[r].end
        \/ end > rs[r].start /\ end <= rs[r].end
        \/ start <= rs[r].start /\ end >= rs[r].end

\* The regions that mm_find_region may return for an address: it returns the
\* first one of the list, or NULL when there is none.
mm_find_region(addr) ==
    {r \in Listed(region, user_regions) :
        addr >= region[r].start /\ addr < region[r].end}

-----------------------------------------------------------------------------
(* Linking and unlinking                                                   *)

\* Mutant: the old first node is not linked behind the new one.
pushed_alone(rs, r, start, end) ==
    [x \in DOMAIN rs \cup {r} |->
        IF x = r THEN [start |-> start, end |-> end, prev |-> NULL, next |-> NULL]
        ELSE rs[x]]

\* Node r becomes the first one of the list.
pushed(rs, r, start, end) ==
    [x \in DOMAIN rs \cup {r} |->
        IF x = r
        THEN [start |-> start, end |-> end, prev |-> NULL, next |-> user_regions]
        ELSE [start |-> rs[x].start, end |-> rs[x].end,
              prev |-> IF x = user_regions THEN r ELSE rs[x].prev,
              next |-> rs[x].next]]

\* Mutant: the successor keeps its previous node.
unlinked_one_way(rs, r) ==
    [x \in DOMAIN rs |->
        [start |-> rs[x].start, end |-> rs[x].end,
         prev |-> rs[x].prev,
         next |-> IF x = rs[r].prev THEN rs[r].next ELSE rs[x].next]]

\* Node r is taken out of the list and keeps its own fields.
unlinked(rs, r) ==
    [x \in DOMAIN rs |->
        [start |-> rs[x].start, end |-> rs[x].end,
         prev |-> IF x = rs[r].next THEN rs[r].prev ELSE rs[x].prev,
         next |-> IF x = rs[r].prev THEN rs[r].next ELSE rs[x].next]]

\* Unlinking stores through both neighbours, and the first and the last node
\* of the list have only one.
unlink_strays(r) == ~({region[r].prev, region[r].next} \subseteq DOMAIN region)

\* Mutant: the previous node is given back.
freed_previous(rs, r) == [x \in DOMAIN rs \ {rs[r].prev} |-> rs[x]]

freed(rs, r) == [x \in DOMAIN rs \ {r} |-> rs[x]]

\* Nodes that a caller passes back.
Held == IF Retry THEN DOMAIN region ELSE DOMAIN region \ dropped

-----------------------------------------------------------------------------
(* The operations                                                          *)

mm_mk_region(start, end) ==
    /\ status = "ok"
    /\ ~mm_conflicts(region, user_regions, start, end)
    /\ \E r \in Regions \ DOMAIN region :
          /\ region' = pushed(region, r, start, end)
          /\ user_regions' = r
    /\ UNCHANGED <<dropped, status>>

\* NULL is returned.
mm_mk_region_refused(start, end) ==
    /\ status = "ok"
    /\ mm_conflicts(region, user_regions, start, end)
    /\ UNCHANGED vars

unlink_wild(r) ==
    /\ status = "ok"
    /\ unlink_strays(r)
    /\ status' = "wild"
    /\ UNCHANGED <<region, user_regions, dropped>>

\* The panic comes between the unlinking and the kfree.
mm_del_region(r) ==
    /\ status = "ok"
    /\ ~unlink_strays(r)
    /\ IF Debug
       THEN /\ region' = unlinked(region, r)
            /\ dropped' = dropped \cup {r}
            /\ status' = "panic"
       ELSE /\ region' = freed(unlinked(region, r), r)
            /\ dropped' = dropped \ {r}
            /\ UNCHANGED status
    /\ UNCHANGED user_regions

\* The region is unlinked first, so that it does not conflict with itself, and
\* linked again at the front: before the panic.
mm_mod_region(r, start, end) ==
    /\ status = "ok"
    /\ ~unlink_strays(r)
    /\ ~mm_conflicts(unlinked(region, r), user_regions, start, end)
    /\ region' = pushed(unlinked(region, r), r, start, end)
    /\ user_regions' = r
    /\ dropped' = dropped \ {r}
    /\ status' = IF Debug THEN "panic" ELSE "ok"

\* -ECONFLICT is returned, and the region stays unlinked.
mm_mod_region_refused(r, start, end) ==
    /\ status = "ok"
    /\ ~unlink_strays(r)
    /\ mm_conflicts(unlinked(region, r), user_regions, start, end)
    /\ region' = unlinked(region, r)
    /\ dropped' = dropped \cup {r}
    /\ UNCHANGED <<user_regions, status>>

Next ==
    \/ \E b \in Range : mm_mk_region(b[1], b[2]) \/ mm_mk_region_refused(b[1], b[2])
    \/ \E r \in Held : unlink_wild(r) \/ mm_del_region(r)
    \/ \E r \in Held, b \in Range :
           mm_mod_region(r, b[1], b[2]) \/ mm_mod_region_refused(r, b[1], b[2])

Spec == Init /\ [][Next]_vars

-----------------------------------------------------------------------------
(* Properties                                                              *)

\* Types of the variables; the first node is never one that was given back.
TypeOK ==
    /\ region \in [DOMAIN region -> Node] /\ DOMAIN region \subseteq Regions
    /\ user_regions \in DOMAIN region \cup {NULL}
    /\ dropped \subseteq DOMAIN region
    /\ status \in {"ok", "panic", "wild"}

\* Unlinking and pushing keep next and previous inverse along the walk, so
\* that the walks of mm_conflicts and mm_find_region end.
DoublyLinked ==
    LET L == Listed(region, user_regions) IN
    /\ user_regions # NULL => region[user_regions].prev = NULL
    /\ \A x \in L : region[x].next # NULL =>
          region[x].next \in L /\ region[region[x].next].prev = x
    /\ \A x \in L \ {user_regions} :
          region[x].prev \in L /\ region[region[x].prev].next = x

Apart(r, s) == region[r].end <= region[s].start \/ region[s].end <= region[r].start

\* The check for conflicts keeps the regions of the list disjoint, through
\* any sequence of modifications.
ListedDisjoint ==
    \A r, s \in Listed(region, user_regions) : r = s \/ Apart(r, s)

\* mm_find_region finds every region that was made and has not been deleted or
\* dropped, by each of its addresses, and nothing else.
HeldFound ==
    \A r \in DOMAIN region \ dropped : \A addr \in Addrs :
        region[r].start <= addr /\ addr < region[r].end
            => mm_find_region(addr) = {r}
=============================================================================
