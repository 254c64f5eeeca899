------------------------- MODULE UserRegions_proofs -------------------------
(***************************************************************************)
(* The list of user regions keeps its shape and its regions stay disjoint, *)
(* as long as callers give up a region that mm_mod_region refused.         *)
(*                                                                         *)
(* What a walk visits is a least fixed point.  Instead of an induction     *)
(* along the list, the invariant says that no smaller set of nodes is      *)
(* closed under next (Tight), which each operation is shown to keep.       *)
(***************************************************************************)
EXTENDS UserRegions, TLAPS

Nodes(rs) == rs \in [DOMAIN rs -> Node] /\ DOMAIN rs \subseteq Regions

\* The nodes D are doubly linked, from head on.
Chain(rs, head, D) ==
    /\ D \subseteq DOMAIN rs
    /\ head # NULL => head \in D /\ rs[head].prev = NULL
    /\ head = NULL => D = {}
    /\ \A x \in D : rs[x].next # NULL =>
          rs[x].next \in D /\ rs[rs[x].next].prev = x
    /\ \A x \in D \ {head} : rs[x].prev \in D /\ rs[rs[x].prev].next = x

\* A walk from head visits all of D.
Tight(rs, head, D) == \A S \in SUBSET D : Closed(rs, head, S) => S = D

ApartIn(rs, r, s) == rs[r].end <= rs[s].start \/ rs[s].end <= rs[r].start
Spread(rs, D) ==
    /\ \A r \in D : rs[r].start < rs[r].end
    /\ \A r, s \in D : r = s \/ ApartIn(rs, r, s)

\* The nodes of D are linked, visited and disjoint.
Sound(rs, head, D) ==
    Nodes(rs) /\ Chain(rs, head, D) /\ Tight(rs, head, D) /\ Spread(rs, D)

IInv ==
    /\ TypeOK
    /\ Sound(region, user_regions, DOMAIN region \ dropped)

LEMMA ListedSound ==
    ASSUME NEW rs, NEW head, NEW D, Nodes(rs), Chain(rs, head, D), Tight(rs, head, D)
    PROVE  Listed(rs, head) = D
<1>1. D \subseteq Regions /\ Closed(rs, head, D)
  BY DEF Nodes, Chain, Closed
<1>2. Listed(rs, head) \subseteq D
  BY <1>1 DEF Listed
<1>3. ASSUME NEW x \in D, NEW S \in SUBSET Regions, Closed(rs, head, S)
      PROVE  x \in S
  <2>1. Closed(rs, head, S \cap D)
    BY <1>3 DEF Chain, Closed
  <2>2. S \cap D = D
    BY <2>1 DEF Tight
  <2> QED BY <2>2
<1> QED BY <1>2, <1>3 DEF Listed, Chain

\* The three tests of mm_conflicts say that some region of the list overlaps.
LEMMA NoConflict ==
    ASSUME NEW rs, NEW head, NEW D, Sound(rs, head, D),
           NEW start \in Addrs, NEW end \in Addrs, start < end
    PROVE  mm_conflicts(rs, head, start, end) <=>
              \E r \in D : start < rs[r].end /\ rs[r].start < end
<1>1. Listed(rs, head) = D
  BY ListedSound DEF Sound
<1>2. \A r \in D : /\ rs[r].start \in Nat /\ rs[r].end \in Nat
                   /\ rs[r].start < rs[r].end
  BY RegionsAssumption DEF Sound, Nodes, Chain, Spread, Node
<1>3. start \in Nat /\ end \in Nat
  BY RegionsAssumption
<1>4. ASSUME NEW r \in D
      PROVE  (\/ start >= rs[r].start /\ start < rs[r].end
              \/ end > rs[r].start /\ end <= rs[r].end
              \/ start <= rs[r].start /\ end >= rs[r].end)
             <=> start < rs[r].end /\ rs[r].start < end
  BY <1>2, <1>3
<1> QED BY <1>1, <1>4 DEF mm_conflicts

-----------------------------------------------------------------------------
(* The three edits of the list                                             *)

LEMMA PushedSound ==
    ASSUME NEW rs, NEW D, Sound(rs, user_regions, D),
           NEW r \in Regions, r \notin D,
           NEW start \in Addrs, NEW end \in Addrs, start < end,
           ~mm_conflicts(rs, user_regions, start, end),
           NEW ps, ps = pushed(rs, r, start, end)
    PROVE  Sound(ps, r, D \cup {r})
<1> DEFINE head == user_regions
<1> USE RegionsAssumption
<1>1. Nodes(rs) /\ Chain(rs, head, D) /\ Tight(rs, head, D) /\ Spread(rs, D)
  BY DEF Sound
<1>2. /\ DOMAIN ps = DOMAIN rs \cup {r}
      /\ ps[r] = [start |-> start, end |-> end, prev |-> NULL, next |-> head]
      /\ \A x \in D : /\ ps[x].start = rs[x].start /\ ps[x].end = rs[x].end
                      /\ ps[x].prev = IF x = head THEN r ELSE rs[x].prev
                      /\ ps[x].next = rs[x].next
  BY <1>1 DEF pushed, Chain
<1>3. head \in Regions \cup {NULL} /\ r # NULL /\ D \subseteq Regions
  BY <1>1 DEF Nodes, Chain
<1>4. Nodes(ps)
  <2>1. \A x \in DOMAIN rs : /\ rs[x].start \in Addrs /\ rs[x].end \in Addrs
                             /\ rs[x].prev \in Regions \cup {NULL}
                             /\ rs[x].next \in Regions \cup {NULL}
    BY <1>1 DEF Nodes, Node
  <2>2. \A x \in DOMAIN ps : ps[x] \in Node
    BY <1>3, <2>1 DEF pushed, Node
  <2>3. ps = [x \in DOMAIN ps |-> ps[x]]
    BY DEF pushed
  <2> QED BY <1>1, <1>2, <2>2, <2>3 DEF Nodes
<1>5. Chain(ps, r, D \cup {r})
  <2>1. D \cup {r} \subseteq DOMAIN ps /\ ps[r].prev = NULL
    BY <1>1, <1>2 DEF Chain
  <2>2. \A x \in D \cup {r} : ps[x].next # NULL =>
           ps[x].next \in D \cup {r} /\ ps[ps[x].next].prev = x
    <3>1. ASSUME NEW x \in D, ps[x].next # NULL
          PROVE  ps[x].next \in D /\ ps[ps[x].next].prev = x
      <4>1. rs[x].next \in D /\ rs[rs[x].next].prev = x /\ ps[x].next = rs[x].next
        BY <1>1, <1>2, <3>1 DEF Chain
      <4>2. rs[x].next # head
        BY <1>1, <1>3, <4>1 DEF Chain
      <4> QED BY <1>2, <4>1, <4>2
    <3>2. ps[r].next # NULL => ps[r].next \in D /\ ps[ps[r].next].prev = r
      BY <1>1, <1>2 DEF Chain
    <3> QED BY <3>1, <3>2
  <2>3. \A x \in D : ps[x].prev \in D \cup {r} /\ ps[ps[x].prev].next = x
    <3> SUFFICES ASSUME NEW x \in D
                 PROVE  ps[x].prev \in D \cup {r} /\ ps[ps[x].prev].next = x
      OBVIOUS
    <3>1. CASE x = head
      BY <1>2, <3>1
    <3>2. CASE x # head
      BY <1>1, <1>2, <3>2 DEF Chain
    <3> QED BY <3>1, <3>2
  <2> QED BY <1>3, <2>1, <2>2, <2>3 DEF Chain
<1>6. Tight(ps, r, D \cup {r})
  <2> SUFFICES ASSUME NEW S \in SUBSET (D \cup {r}), Closed(ps, r, S)
               PROVE  S = D \cup {r}
    BY DEF Tight
  <2>1. r \in S
    BY <1>3 DEF Closed
  <2>2. Closed(rs, head, S \ {r})
    <3>1. head # NULL => head \in S \ {r}
      BY <1>1, <1>2, <2>1 DEF Closed, Chain
    <3>2. ASSUME NEW x \in (S \ {r}) \cap DOMAIN rs, rs[x].next # NULL
          PROVE  rs[x].next \in S \ {r}
      BY <1>1, <1>2, <3>2 DEF Closed, Chain
    <3> QED BY <3>1, <3>2 DEF Closed
  <2>3. S \ {r} = D
    BY <1>1, <2>2 DEF Tight
  <2> QED BY <2>1, <2>3
<1>7. Spread(ps, D \cup {r})
  <2>1. \A x \in D : /\ rs[x].start \in Nat /\ rs[x].end \in Nat
                     /\ ~(start < rs[x].end /\ rs[x].start < end)
    BY <1>1, NoConflict DEF Nodes, Chain, Node
  <2>2. \A x \in D : ApartIn(ps, x, r) /\ ApartIn(ps, r, x)
    BY <1>2, <2>1 DEF ApartIn
  <2>3. \A x, y \in D : x = y \/ ApartIn(ps, x, y)
    BY <1>1, <1>2 DEF Spread, ApartIn
  <2>4. \A x \in D \cup {r} : ps[x].start < ps[x].end
    BY <1>1, <1>2 DEF Spread
  <2> QED BY <2>2, <2>3, <2>4 DEF Spread
<1> QED BY <1>4, <1>5, <1>6, <1>7 DEF Sound

LEMMA UnlinkedSound ==
    ASSUME NEW rs, NEW head, NEW D, Sound(rs, head, D),
           NEW r \in D, rs[r].prev \in DOMAIN rs, rs[r].next \in DOMAIN rs,
           NEW us, us = unlinked(rs, r)
    PROVE  Sound(us, head, D \ {r}) /\ DOMAIN us = DOMAIN rs
<1> DEFINE p == rs[r].prev
           n == rs[r].next
<1> USE RegionsAssumption
<1>1. Nodes(rs) /\ Chain(rs, head, D) /\ Tight(rs, head, D) /\ Spread(rs, D)
  BY DEF Sound
<1>2. NULL \notin DOMAIN rs /\ r \in DOMAIN rs /\ r # NULL
  BY <1>1 DEF Nodes, Chain
<1>3. r # head /\ p \in D /\ rs[p].next = r /\ n \in D /\ rs[n].prev = r
  BY <1>1, <1>2 DEF Chain
<1>4. p # r /\ n # r /\ n # head
  <2>1. n # head
    BY <1>1, <1>2, <1>3 DEF Chain
  <2>2. ASSUME n = r PROVE FALSE
    <3>1. Closed(rs, head, D \ {r})
      BY <1>1, <1>3, <2>2 DEF Closed, Chain
    <3> QED BY <1>1, <3>1 DEF Tight
  <2> QED BY <1>3, <2>1, <2>2
<1>5. /\ DOMAIN us = DOMAIN rs
      /\ \A x \in DOMAIN rs :
            /\ us[x].start = rs[x].start /\ us[x].end = rs[x].end
            /\ us[x].prev = IF x = n THEN p ELSE rs[x].prev
            /\ us[x].next = IF x = p THEN n ELSE rs[x].next
  BY DEF unlinked
<1>6. Nodes(us)
  <2>1. \A x \in DOMAIN rs : /\ rs[x].start \in Addrs /\ rs[x].end \in Addrs
                             /\ rs[x].prev \in Regions \cup {NULL}
                             /\ rs[x].next \in Regions \cup {NULL}
    BY <1>1 DEF Nodes, Node
  <2>2. \A x \in DOMAIN us : us[x] \in Node
    BY <1>1, <2>1 DEF unlinked, Node, Nodes
  <2>3. us = [x \in DOMAIN us |-> us[x]]
    BY DEF unlinked
  <2> QED BY <1>1, <1>5, <2>2, <2>3 DEF Nodes
<1> HIDE DEF p, n
<1>7. D \subseteq DOMAIN rs /\ NULL \notin D
  BY <1>1, <1>2 DEF Chain
<1>8. Chain(us, head, D \ {r})
  <2>1. head # NULL /\ head \in D \ {r} /\ us[head].prev = NULL
    BY <1>1, <1>3, <1>4, <1>5, <1>7 DEF Chain
  <2>2. ASSUME NEW x \in D \ {r}, us[x].next # NULL
        PROVE  us[x].next \in D \ {r} /\ us[us[x].next].prev = x
    <3>1. CASE x = p
      BY <1>3, <1>4, <1>5, <1>7, <3>1
    <3>2. CASE x # p
      <4>1. us[x].next = rs[x].next /\ rs[x].next \in D /\ rs[rs[x].next].prev = x
        BY <1>1, <1>5, <1>7, <2>2, <3>2 DEF Chain
      <4>2. rs[x].next # r /\ rs[x].next # n
        BY <1>3, <2>2, <3>2, <4>1 DEF p
      <4> QED BY <1>5, <1>7, <4>1, <4>2
    <3> QED BY <3>1, <3>2
  <2>3. ASSUME NEW x \in (D \ {r}) \ {head}
        PROVE  us[x].prev \in D \ {r} /\ us[us[x].prev].next = x
    <3>1. CASE x = n
      BY <1>3, <1>4, <1>5, <1>7, <3>1
    <3>2. CASE x # n
      <4>1. us[x].prev = rs[x].prev /\ rs[x].prev \in D /\ rs[rs[x].prev].next = x
        BY <1>1, <1>5, <1>7, <2>3, <3>2 DEF Chain
      <4>2. rs[x].prev # r /\ rs[x].prev # p
        BY <1>3, <2>3, <3>2, <4>1 DEF n
      <4> QED BY <1>5, <1>7, <4>1, <4>2
    <3> QED BY <3>1, <3>2
  <2> QED BY <1>5, <1>7, <2>1, <2>2, <2>3 DEF Chain
<1>9. Tight(us, head, D \ {r})
  <2> SUFFICES ASSUME NEW S \in SUBSET (D \ {r}), Closed(us, head, S)
               PROVE  S = D \ {r}
    BY DEF Tight
  <2> DEFINE T == IF p \in S THEN S \cup {r} ELSE S
  <2>1. Closed(rs, head, T)
    <3>1. head # NULL => head \in T
      BY DEF Closed
    <3>2. ASSUME NEW x \in T \cap DOMAIN rs, rs[x].next # NULL
          PROVE  rs[x].next \in T
      <4>1. CASE x = r
        <5>1. p \in S /\ us[p].next = n /\ n # NULL
          BY <1>3, <1>5, <1>7, <4>1
        <5>2. n \in S
          BY <1>3, <1>5, <1>7, <5>1 DEF Closed
        <5> QED BY <4>1, <5>1, <5>2 DEF n
      <4>2. CASE x = p
        BY <1>3, <1>4, <3>2, <4>2
      <4>3. CASE x # r /\ x # p
        BY <1>5, <3>2, <4>3 DEF Closed
      <4> QED BY <4>1, <4>2, <4>3
    <3> QED BY <3>1, <3>2 DEF Closed
  <2>2. T = D
    BY <1>1, <2>1 DEF Tight
  <2> QED BY <2>2
<1>10. Spread(us, D \ {r})
  <2>1. \A x \in D : us[x].start = rs[x].start /\ us[x].end = rs[x].end
    BY <1>5, <1>7
  <2> QED BY <1>1, <2>1 DEF Spread, ApartIn
<1> QED BY <1>5, <1>6, <1>8, <1>9, <1>10 DEF Sound

LEMMA FreedSound ==
    ASSUME NEW rs, NEW head, NEW D, Sound(rs, head, D), NEW r, r \notin D,
           NEW fs, fs = freed(rs, r)
    PROVE  Sound(fs, head, D) /\ DOMAIN fs = DOMAIN rs \ {r}
<1>1. Nodes(rs) /\ Chain(rs, head, D) /\ Tight(rs, head, D) /\ Spread(rs, D)
  BY DEF Sound
<1>2. /\ DOMAIN fs = DOMAIN rs \ {r}
      /\ \A x \in DOMAIN fs : fs[x] = rs[x]
      /\ \A x \in D : x \in DOMAIN fs
  BY <1>1 DEF freed, Chain
<1>3. Nodes(fs)
  <2>1. fs = [x \in DOMAIN fs |-> fs[x]]
    BY DEF freed
  <2> QED BY <1>1, <1>2, <2>1 DEF Nodes
<1>4. Chain(fs, head, D)
  BY <1>1, <1>2 DEF Chain
<1>5. Tight(fs, head, D)
  <2> SUFFICES ASSUME NEW S \in SUBSET D, Closed(fs, head, S) PROVE S = D
    BY DEF Tight
  <2>1. Closed(rs, head, S)
    BY <1>2 DEF Closed
  <2> QED BY <1>1, <2>1 DEF Tight
<1>6. Spread(fs, D)
  BY <1>1, <1>2 DEF Spread, ApartIn
<1> QED BY <1>2, <1>3, <1>4, <1>5, <1>6 DEF Sound

-----------------------------------------------------------------------------
(* The steps                                                               *)

LEMMA InitIInv == Init => IInv
<1> SUFFICES ASSUME Init PROVE IInv
  OBVIOUS
<1>1. DOMAIN region = {} /\ dropped = {} /\ user_regions = NULL
  BY DEF Init
<1>2. Nodes(region) /\ TypeOK
  BY <1>1 DEF Init, Nodes, TypeOK
<1>3. /\ Chain(region, user_regions, {}) /\ Tight(region, user_regions, {})
      /\ Spread(region, {})
  BY <1>1 DEF Chain, Tight, Spread
<1> QED BY <1>1, <1>2, <1>3 DEF IInv, Sound

\* What is left to show of a step once its list is sound again.
LEMMA StepIInv ==
    ASSUME Sound(region', user_regions', DOMAIN region' \ dropped'),
           dropped' \subseteq DOMAIN region', status' \in {"ok", "panic", "wild"}
    PROVE  IInv'
<1>1. user_regions' \in DOMAIN region' \cup {NULL}
  BY DEF Sound, Chain
<1> QED BY <1>1 DEF IInv, TypeOK, Sound, Nodes

LEMMA NextIInv == ASSUME ~Retry, IInv, [Next]_vars PROVE IInv'
<1> DEFINE D == DOMAIN region \ dropped
<1>1. /\ Sound(region, user_regions, D) /\ dropped \subseteq DOMAIN region
      /\ TypeOK /\ status \in {"ok", "panic", "wild"}
  BY DEF IInv, TypeOK
<1>2. Held = D
  BY DEF Held
<1> HIDE DEF D
<1>3. ASSUME NEW b \in Range, mm_mk_region(b[1], b[2]) PROVE IInv'
  <2>1. b[1] \in Addrs /\ b[2] \in Addrs /\ b[1] < b[2]
    BY <1>3 DEF Range
  <2>2. PICK r \in Regions \ DOMAIN region :
            region' = pushed(region, r, b[1], b[2]) /\ user_regions' = r
    BY <1>3 DEF mm_mk_region
  <2>3. /\ ~mm_conflicts(region, user_regions, b[1], b[2])
        /\ UNCHANGED <<dropped, status>>
    BY <1>3 DEF mm_mk_region
  <2>4. r \notin D
    BY <2>2 DEF D
  <2>5. Sound(region', r, D \cup {r})
    BY <1>1, <2>1, <2>2, <2>3, <2>4, PushedSound
  <2>6. DOMAIN region' = DOMAIN region \cup {r}
    BY <2>2 DEF pushed
  <2>7. D \cup {r} = DOMAIN region' \ dropped'
    BY <1>1, <2>2, <2>3, <2>6 DEF D
  <2> QED BY <1>1, <2>2, <2>3, <2>5, <2>6, <2>7, StepIInv
<1>4. ASSUME NEW r \in Held, ~unlink_strays(r), NEW us, us = unlinked(region, r)
      PROVE  /\ Sound(us, user_regions, D \ {r}) /\ DOMAIN us = DOMAIN region
             /\ r \in D /\ r \in DOMAIN region /\ r \in Regions
  <2>1. r \in D /\ region[r].prev \in DOMAIN region /\ region[r].next \in DOMAIN region
    BY <1>2, <1>4 DEF unlink_strays
  <2> QED BY <1>1, <1>4, <2>1, UnlinkedSound DEF D, TypeOK
<1>5. ASSUME NEW r \in Held, mm_del_region(r) PROVE IInv'
  <2> DEFINE us == unlinked(region, r)
  <2>1. ~unlink_strays(r) /\ user_regions' = user_regions /\ status = "ok"
    BY <1>5 DEF mm_del_region
  <2>2. /\ Sound(us, user_regions, D \ {r}) /\ DOMAIN us = DOMAIN region
        /\ r \in D /\ r \in DOMAIN region
    BY <1>4, <2>1
  <2>3. CASE Debug
    <3>1. region' = us /\ dropped' = dropped \cup {r} /\ status' = "panic"
      BY <1>5, <2>3 DEF mm_del_region
    <3>2. D \ {r} = DOMAIN region' \ dropped' /\ dropped' \subseteq DOMAIN region'
      BY <1>1, <2>2, <3>1 DEF D
    <3> QED BY <2>1, <2>2, <3>1, <3>2, StepIInv
  <2>4. CASE ~Debug
    <3>1. region' = freed(us, r) /\ dropped' = dropped \ {r} /\ status' = "ok"
      BY <1>5, <2>1, <2>4 DEF mm_del_region
    <3> HIDE DEF us
    <3>2. /\ Sound(region', user_regions, D \ {r})
          /\ DOMAIN region' = DOMAIN region \ {r}
      BY <2>2, <3>1, FreedSound
    <3>3. D \ {r} = DOMAIN region' \ dropped' /\ dropped' \subseteq DOMAIN region'
      BY <1>1, <3>1, <3>2 DEF D
    <3> QED BY <2>1, <3>1, <3>2, <3>3, StepIInv
  <2> QED BY <2>3, <2>4
<1>6. ASSUME NEW r \in Held, NEW b \in Range, mm_mod_region(r, b[1], b[2]) PROVE IInv'
  <2> DEFINE us == unlinked(region, r)
  <2>1. /\ ~unlink_strays(r) /\ ~mm_conflicts(us, user_regions, b[1], b[2])
        /\ region' = pushed(us, r, b[1], b[2]) /\ user_regions' = r
        /\ dropped' = dropped \ {r} /\ status' \in {"ok", "panic", "wild"}
    BY <1>6 DEF mm_mod_region
  <2>2. b[1] \in Addrs /\ b[2] \in Addrs /\ b[1] < b[2]
    BY <1>6 DEF Range
  <2>3. /\ Sound(us, user_regions, D \ {r}) /\ DOMAIN us = DOMAIN region
        /\ r \in D /\ r \in DOMAIN region /\ r \in Regions
    BY <1>4, <2>1
  <2> HIDE DEF us
  <2>4. Sound(region', r, (D \ {r}) \cup {r})
    BY <2>1, <2>2, <2>3, PushedSound
  <2>5. DOMAIN region' = DOMAIN region
    BY <2>1, <2>3 DEF pushed
  <2>6. /\ (D \ {r}) \cup {r} = DOMAIN region' \ dropped'
        /\ dropped' \subseteq DOMAIN region'
    BY <1>1, <2>1, <2>3, <2>5 DEF D
  <2> QED BY <2>1, <2>4, <2>6, StepIInv
<1>7. ASSUME NEW r \in Held, NEW b \in Range, mm_mod_region_refused(r, b[1], b[2])
      PROVE  IInv'
  <2> DEFINE us == unlinked(region, r)
  <2>1. /\ ~unlink_strays(r) /\ region' = us /\ user_regions' = user_regions
        /\ dropped' = dropped \cup {r} /\ status' = status
    BY <1>7 DEF mm_mod_region_refused
  <2>2. /\ Sound(us, user_regions, D \ {r}) /\ DOMAIN us = DOMAIN region
        /\ r \in D /\ r \in DOMAIN region
    BY <1>4, <2>1
  <2>3. D \ {r} = DOMAIN region' \ dropped' /\ dropped' \subseteq DOMAIN region'
    BY <1>1, <2>1, <2>2 DEF D
  <2> QED BY <1>1, <2>1, <2>2, <2>3, StepIInv
<1>8. ASSUME UNCHANGED <<region, user_regions, dropped>>,
             status' \in {"ok", "panic", "wild"}
      PROVE  IInv'
  BY <1>1, <1>8, StepIInv DEF D
<1>9. CASE UNCHANGED vars
  BY <1>1, <1>8, <1>9 DEF vars
<1>10. ASSUME NEW b \in Range, mm_mk_region_refused(b[1], b[2]) PROVE IInv'
  BY <1>9, <1>10 DEF mm_mk_region_refused
<1>11. ASSUME NEW r \in Held, unlink_wild(r) PROVE IInv'
  BY <1>8, <1>11 DEF unlink_wild
<1> QED BY <1>3, <1>5, <1>6, <1>7, <1>9, <1>10, <1>11 DEF Next

-----------------------------------------------------------------------------
(* The theorems: any number of nodes, any addresses, both builds.           *)

THEOREM Invariance == ASSUME ~Retry PROVE Spec => []IInv
<1> USE DEF Spec
<1>1. Init => IInv
  BY InitIInv
<1>2. IInv /\ [Next]_vars => IInv'
  BY NextIInv
<1> QED BY <1>1, <1>2, PTL

\* Types of the variables: the head of the list never dangles.
THEOREM TypeCorrect == ASSUME ~Retry PROVE Spec => []TypeOK
<1>1. IInv => TypeOK
  BY DEF IInv
<1> QED BY <1>1, Invariance, PTL

\* mm_mk_region, mm_mod_region and mm_del_region keep the list doubly linked.
THEOREM Linking == ASSUME ~Retry PROVE Spec => []DoublyLinked
<1>1. ASSUME IInv PROVE DoublyLinked
  <2> DEFINE D == DOMAIN region \ dropped
  <2>1. Chain(region, user_regions, D) /\ Listed(region, user_regions) = D
    BY <1>1, ListedSound DEF IInv, Sound
  <2> QED BY <2>1 DEF DoublyLinked, Chain
<1> QED BY <1>1, Invariance, PTL

\* mm_conflicts keeps the regions of the list disjoint.
THEOREM Disjointness == ASSUME ~Retry PROVE Spec => []ListedDisjoint
<1>1. ASSUME IInv PROVE ListedDisjoint
  <2> DEFINE D == DOMAIN region \ dropped
  <2>1. Spread(region, D) /\ Listed(region, user_regions) = D
    BY <1>1, ListedSound DEF IInv, Sound
  <2> QED BY <2>1 DEF ListedDisjoint, Spread, Apart, ApartIn
<1> QED BY <1>1, Invariance, PTL

\* mm_find_region finds every region that was not dropped, and no other one.
THEOREM Finding == ASSUME ~Retry PROVE Spec => []HeldFound
<1>1. ASSUME IInv PROVE HeldFound
  <2> DEFINE D == DOMAIN region \ dropped
  <2>1. Spread(region, D) /\ Listed(region, user_regions) = D
    BY <1>1, ListedSound DEF IInv, Sound
  <2>2. \A r \in D : region[r].start \in Nat /\ region[r].end \in Nat
    BY <1>1, RegionsAssumption DEF IInv, Sound, Nodes, Node
  <2> SUFFICES ASSUME NEW r \in D, NEW addr \in Addrs,
                      region[r].start <= addr, addr < region[r].end
               PROVE  mm_find_region(addr) = {r}
    BY DEF HeldFound
  <2>3. addr \in Nat
    BY RegionsAssumption
  <2>4. r \in mm_find_region(addr)
    BY <2>1, <2>2, <2>3 DEF mm_find_region
  <2>5. ASSUME NEW s \in mm_find_region(addr) PROVE s = r
    <3>1. s \in D /\ addr >= region[s].start /\ addr < region[s].end
      BY <2>1 DEF mm_find_region
    <3>2. ~ApartIn(region, r, s)
      BY <2>2, <2>3, <3>1 DEF ApartIn
    <3> QED BY <2>1, <3>1, <3>2 DEF Spread
  <2> QED BY <2>4, <2>5
<1> QED BY <1>1, Invariance, PTL
=============================================================================
