----------------------------- MODULE Allocator -----------------------------
(***************************************************************************)
(* What a heap promises to its callers, whatever its bookkeeping: a block  *)
(* that is handed out lies inside the arena, shares no address with any    *)
(* block that is still owned, and stays as it is until its owner gives it  *)
(* back.  The first-fit list of KHeap implements this specification.       *)
(***************************************************************************)
EXTENDS Naturals

CONSTANTS Lo, Hi,     \* the arena is Lo .. Hi - 1
          Sizes,      \* sizes a caller may ask for
          Aligns      \* alignments a caller may ask for

VARIABLE owned        \* blocks handed out and not given back

Blocks == [ptr : Nat, size : Sizes, align : Aligns]

\* [p, p + n) and [q, q + m) share no address.
Apart(p, n, q, m) == p + n <= q \/ q + m <= p

Init == owned = {}

Allocate(b) ==
    /\ b.ptr % b.align = 0
    /\ Lo <= b.ptr /\ b.ptr + b.size <= Hi
    /\ \A c \in owned : b.ptr # c.ptr /\ Apart(b.ptr, b.size, c.ptr, c.size)
    /\ owned' = owned \cup {b}

Release(b) ==
    /\ b \in owned
    /\ owned' = owned \ {b}

Next == \E b \in [ptr : Lo .. Hi, size : Sizes, align : Aligns] :
            Allocate(b) \/ Release(b)

Spec == Init /\ [][Next]_owned
=============================================================================
